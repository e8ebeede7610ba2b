----------------------------- MODULE SessionProofs -----------------------------
(***************************************************************************)
(* Proofs about a session: its configuration and what it holds (Session),  *)
(* the batches its database takes (OutputWriter) and the rows it refuses   *)
(* (SessionDb).                                                            *)
(***************************************************************************)
EXTENDS MCSession, TLAPS

---------------------------------------------------------------------------
(* Session: the configuration. *)

\* A configuration, sanitised or not.
Raw(c) == /\ c = [f \in Fields |-> c[f]]
          /\ \A f \in Fields : WellTyped(f, c[f])

\* What Sanitize makes of one field, but for min, whose bound is another field.
Cleaned(f, v) ==
  CASE f \in {"rate", "max"} -> Clamp(v, Lowest, Highest)
    [] f = "gpu" -> IF v \in {"auto", "off", "nvml", "drm"} THEN v ELSE "auto"
    [] f = "adapter" -> IF v \in {"ws", "onnx"} THEN v ELSE "ws"
    [] f = "dir" -> IF v = "" THEN "out" ELSE v
    [] OTHER -> v

LEMMA ClampIn ==
  ASSUME NEW v \in Int, NEW lo \in Int, NEW hi \in Int, lo <= hi
  PROVE  Clamp(v, lo, hi) \in lo..hi
  BY DEF Clamp

\* Sanitize brings every field into its range, from whatever it was.
LEMMA Sanitized ==
  ASSUME NEW c, Raw(c)
  PROVE  /\ Sane(Sanitize(c)) /\ Raw(Sanitize(c))
         /\ \A f \in Fields \ {"min"} : Sanitize(c)[f] = Cleaned(f, c[f])
<1> DEFINE max == Clamp(c.max, Lowest, Highest)
           min == Clamp(c.min, Lowest, max)
           rate == Clamp(c.rate, Lowest, Highest)
           gpu == IF c.gpu \in {"auto", "off", "nvml", "drm"} THEN c.gpu ELSE "auto"
           adapter == IF c.adapter \in {"ws", "onnx"} THEN c.adapter ELSE "ws"
           dir == IF c.dir = "" THEN "out" ELSE c.dir
           s == Sanitize(c)
<1>1. c.rate \in Int /\ c.max \in Int /\ c.min \in Int /\ c.stats \in BOOLEAN
  BY DEF Raw, WellTyped, Numbers, Fields
<1>2. rate \in Lowest..Highest /\ max \in Lowest..Highest /\ min \in Lowest..max
  <2>0. Lowest \in Int /\ Highest \in Int /\ Lowest <= Highest
    BY DEF Lowest, Highest
  <2>1. rate \in Lowest..Highest /\ max \in Lowest..Highest
    BY <1>1, <2>0, ClampIn
  <2> HIDE DEF max
  <2>2. max \in Int /\ Lowest \in Int /\ Lowest <= max
    BY <2>1 DEF Lowest, Highest
  <2>3. Clamp(c.min, Lowest, max) \in Lowest..max
    BY <1>1, <2>2, ClampIn
  <2> QED
    BY <2>1, <2>3
<1>3. s = [c EXCEPT !.rate = rate, !.max = max, !.min = min, !.gpu = gpu,
                    !.adapter = adapter, !.dir = dir]
  BY DEF Sanitize
<1>4. /\ gpu \in {"auto", "off", "nvml", "drm"} /\ adapter \in {"ws", "onnx"} /\ dir # ""
  OBVIOUS
<1>5. /\ rate = Cleaned("rate", c.rate) /\ max = Cleaned("max", c.max)
      /\ gpu = Cleaned("gpu", c.gpu) /\ adapter = Cleaned("adapter", c.adapter)
      /\ dir = Cleaned("dir", c.dir) /\ c.stats = Cleaned("stats", c.stats)
  BY DEF Cleaned
<1> HIDE DEF rate, max, min, gpu, adapter, dir, s
<1>6. c = [f \in Fields |-> c[f]]
  BY DEF Raw
<1>7. /\ s.rate = rate /\ s.max = max /\ s.min = min /\ s.gpu = gpu
      /\ s.adapter = adapter /\ s.dir = dir /\ s.stats = c.stats
      /\ s = [f \in Fields |-> s[f]]
  BY <1>3, <1>6 DEF Fields
<1>8. Sane(s)
  BY <1>1, <1>2, <1>4, <1>7 DEF Sane
<1>9. Raw(s)
  <2>1. rate \in Int /\ max \in Int /\ min \in Int
    BY <1>2 DEF Lowest, Highest
  <2> QED
    BY <1>1, <1>7, <2>1 DEF Raw, WellTyped, Numbers, Fields
<1>10. \A f \in Fields \ {"min"} : s[f] = Cleaned(f, c[f])
  BY <1>5, <1>7 DEF Fields
<1> QED
  BY <1>8, <1>9, <1>10 DEF s

LEMMA NarrowTyped ==
  ASSUME NEW f \in Fields, NEW v, WellTyped(f, v)
  PROVE  WellTyped(f, Narrow(f, v))
<1>1. CASE f \in Numbers
  <2>1. v \in Int /\ f # "stats"
    BY <1>1 DEF WellTyped, Numbers
  <2>2. v % Width \in Int
    BY <2>1, SessionConstants
  <2> QED
    BY <1>1, <2>1, <2>2 DEF WellTyped, Narrow
<1>2. CASE f \notin Numbers
  BY <1>2 DEF WellTyped, Narrow
<1> QED
  BY <1>1, <1>2

LEMMA DefaultsRaw == Raw(DefaultConfig) /\ Raw(Blank) /\ Sane(DefaultConfig)
<1> DEFINE Standard(c, name) ==
             /\ c = [f \in Fields |-> c[f]]
             /\ c.rate = 1 /\ c.max = 2 /\ c.min = 1 /\ c.gpu = "auto" /\ c.adapter = "ws"
             /\ c.dir = name /\ c.stats = TRUE
<1>1. ASSUME NEW c, NEW name, Standard(c, name)
      PROVE  Raw(c) /\ (name = "out" => Sane(c))
  <2>1. \A f \in Fields : WellTyped(f, c[f])
    <3>1. \A f \in Fields : f \in Numbers => c[f] \in Int
      BY <1>1 DEF Fields, Numbers
    <3>2. c["stats"] \in BOOLEAN
      BY <1>1
    <3> QED
      BY <3>1, <3>2 DEF WellTyped
  <2>2. name = "out" => Sane(c)
    <3>1. c.rate \in 1..2 /\ c.max \in 1..2 /\ c.min \in 1..c.max
      BY <1>1
    <3>2. c.gpu \in {"auto", "off", "nvml", "drm"} /\ c.adapter \in {"ws", "onnx"}
      BY <1>1
    <3>3. c.stats \in BOOLEAN /\ (name = "out" => c.dir # "")
      BY <1>1
    <3> QED
      BY <3>1, <3>2, <3>3 DEF Sane, Lowest, Highest
  <2>3. Raw(c)
    BY <1>1, <2>1 DEF Raw
  <2> QED
    BY <2>2, <2>3
<1>2. Standard(Blank, "")
  BY DEF Blank, Fields
<1>3. Standard(DefaultConfig, "out")
  <2>1. DefaultConfig = [f \in Fields |-> DefaultConfig[f]]
    BY <1>2 DEF DefaultConfig
  <2> QED
    BY <1>2, <2>1 DEF DefaultConfig, Fields
<1> HIDE DEF Standard
<1>4. Raw(DefaultConfig) /\ Sane(DefaultConfig)
  BY <1>1, <1>3
<1>5. Raw(Blank)
  BY <1>1, <1>2
<1> QED
  BY <1>4, <1>5

\* Merging a file, with its nulls and wide numbers, gives a configuration.
LEMMA MergedRaw ==
  ASSUME NEW base, Raw(base), NEW s \in Files \ {Malformed, Absent}
  PROVE  Raw(MergeConfig(base, s))
<1> DEFINE c == MergeConfig(base, s)
<1>1. ASSUME NEW f \in Fields
      PROVE  WellTyped(f, c[f])
  <2>1. CASE f \notin DOMAIN s
    BY <2>1 DEF MergeConfig, Raw
  <2>2. CASE f \in DOMAIN s /\ s[f] = Null
    BY <2>2, DefaultsRaw DEF MergeConfig, Raw
  <2>3. CASE f \in DOMAIN s /\ s[f] # Null
    <3>1. WellTyped(f, s[f])
      BY <2>3, SessionConstants
    <3>2. c[f] = Narrow(f, s[f])
      BY <2>3 DEF MergeConfig
    <3> QED
      BY <3>1, <3>2, NarrowTyped
  <2> QED
    BY <2>1, <2>2, <2>3
<1>2. c = [f \in Fields |-> c[f]]
  BY DEF MergeConfig
<1> QED
  BY <1>1, <1>2 DEF Raw

\* So does the environment, whose settings are then those in force.
LEMMA OverriddenRaw ==
  ASSUME NEW c, Raw(c), environ \in Environs
  PROVE  /\ Raw(ApplyEnvOverrides(c))
         /\ \A f \in DOMAIN environ : /\ f \in Fields
                                      /\ ApplyEnvOverrides(c)[f] = Narrow(f, environ[f])
<1> DEFINE e == ApplyEnvOverrides(c)
<1>1. /\ DOMAIN environ \subseteq Fields
      /\ \A f \in DOMAIN environ : WellTyped(f, environ[f])
  BY SessionConstants
<1>2. ASSUME NEW f \in Fields
      PROVE  WellTyped(f, e[f]) /\ (f \in DOMAIN environ => e[f] = Narrow(f, environ[f]))
  <2>1. CASE f \in DOMAIN environ
    <3>1. e[f] = Narrow(f, environ[f])
      BY <2>1 DEF ApplyEnvOverrides
    <3> QED
      BY <1>1, <2>1, <3>1, NarrowTyped
  <2>2. CASE f \notin DOMAIN environ
    BY <2>2 DEF ApplyEnvOverrides, Raw
  <2> QED
    BY <2>1, <2>2
<1>3. e = [f \in Fields |-> e[f]]
  BY DEF ApplyEnvOverrides
<1> QED
  BY <1>1, <1>2, <1>3 DEF Raw

\* c is sound, and has what the environment sets.
Follows(c) ==
  /\ Raw(c) /\ Sane(c)
  /\ \A f \in (DOMAIN environ) \ {"min", "dir"} : c[f] = Cleaned(f, Narrow(f, environ[f]))

\* What is sanitised after the environment has been applied follows the environment.
LEMMA SanitizedFollows ==
  ASSUME NEW c, Raw(c), environ \in Environs,
         NEW d, Raw(d), \A f \in Fields \ {"dir"} : d[f] = ApplyEnvOverrides(c)[f]
  PROVE  Follows(Sanitize(d))
<1>1. \A f \in DOMAIN environ : /\ f \in Fields
                                /\ ApplyEnvOverrides(c)[f] = Narrow(f, environ[f])
  BY OverriddenRaw
<1>2. /\ Sane(Sanitize(d)) /\ Raw(Sanitize(d))
      /\ \A f \in Fields \ {"min"} : Sanitize(d)[f] = Cleaned(f, d[f])
  BY Sanitized
<1>3. ASSUME NEW f \in (DOMAIN environ) \ {"min", "dir"}
      PROVE  Sanitize(d)[f] = Cleaned(f, Narrow(f, environ[f]))
  <2>1. f \in Fields \ {"min"} /\ f \in Fields \ {"dir"}
    BY <1>1, <1>3
  <2>2. d[f] = Narrow(f, environ[f])
    BY <1>1, <1>3, <2>1
  <2> QED
    BY <1>2, <2>1, <2>2
<1> QED
  BY <1>2, <1>3 DEF Follows

\* A reload follows the environment too, whatever the file is by then.
LEMMA ReloadFollows ==
  ASSUME NEW base, Raw(base), environ \in Environs, file \in Files
  PROVE  Follows(ReloadConfig(base))
<1> DEFINE merged == IF file \in {Malformed, Absent} THEN base ELSE MergeConfig(base, file)
<1>1. Raw(merged)
  BY MergedRaw
<1>2. ReloadConfig(base) = Sanitize(ApplyEnvOverrides(merged))
  BY DEF ReloadConfig
<1> HIDE DEF merged
<1>3. Raw(ApplyEnvOverrides(merged))
  BY <1>1, OverriddenRaw
<1> QED
  BY <1>1, <1>2, <1>3, SanitizedFollows

\* So does what main reads, where --output-dir replaces the directory.
LEMMA MainFollows ==
  ASSUME environ \in Environs, file \in Files \ {Malformed, Absent}, MainConfigures
  PROVE  Follows(initial') /\ config' = initial'
<1> DEFINE base == MergeConfig(DefaultConfig, file)
           merged == ApplyEnvOverrides(base)
           named == IF cliDir = "" THEN merged ELSE [merged EXCEPT !.dir = cliDir]
<1>1. Raw(base)
  BY DefaultsRaw, MergedRaw
<1> HIDE DEF base
<1>2. Raw(merged)
  BY <1>1, OverriddenRaw
<1>3. Raw(named) /\ \A f \in Fields \ {"dir"} : named[f] = merged[f]
  <2> HIDE DEF merged
  <2>1. CASE cliDir = ""
    BY <1>2, <2>1
  <2>2. CASE cliDir # ""
    <3>1. named = [merged EXCEPT !.dir = cliDir] /\ merged = [f \in Fields |-> merged[f]]
      BY <1>2, <2>2 DEF Raw
    <3> HIDE DEF named
    <3>2. /\ named = [f \in Fields |-> named[f]]
          /\ \A f \in Fields \ {"dir"} : named[f] = merged[f]
      BY <3>1
    <3>3. \A f \in Fields : WellTyped(f, named[f])
      <4>1. WellTyped("dir", named["dir"])
        BY DEF WellTyped, Numbers
      <4> QED
        BY <1>2, <3>2, <4>1 DEF Raw
    <3> QED
      BY <3>2, <3>3 DEF Raw
  <2> QED
    BY <2>1, <2>2
<1>4. initial' = Sanitize(named) /\ config' = Sanitize(named)
  BY DEF MainConfigures, base
<1> HIDE DEF named
<1>5. Follows(Sanitize(named))
  BY <1>1, <1>3, SanitizedFollows
<1>6. environ' = environ
  BY DEF MainConfigures, World
<1> QED
  BY <1>4, <1>5, <1>6 DEF Follows

---------------------------------------------------------------------------
(* Session: what holds at every point of main and RunCollector. *)

Opened == {"writer", "sink"}
Loaded == Opened \cup {"skeleton", "links"}
Everything == Loaded \cup {"recorder", "gpu", "phase"}

\* Where RunCollector is past the writer and has not returned.
Collecting == {"stats", "open", "load", "recorder", "probe", "loop", "shutdown", "release"}

ConfigurationsFollow ==
  /\ Raw(initial) /\ Sane(initial) /\ Raw(config) /\ Sane(config)
  /\ pc \notin {"main", "over"} => Follows(initial) /\ Follows(config)

ComponentsGiven ==
  /\ DOMAIN used = {"rate", "budget", "gpu", "adapter", "dir", "stats"}
  /\ pc \in Collecting => used.dir = initial.dir
  /\ pc \in {"probe", "loop"} => used.rate = config.rate
  /\ pc = "loop" => used.gpu = config.gpu /\ used.budget = <<config.min, config.max>>

\* What is acquired at each point, and the order of the release.
HoldingsInv ==
  /\ pc \in {"main", "writer"} => held = {}
  /\ pc \in {"stats", "open"} => held = Opened
  /\ pc = "load" => held = Opened \cup {"skeleton"}
  /\ pc = "recorder" => held = Loaded
  /\ pc = "probe" => held = Loaded \cup {"recorder"}
  /\ pc \in {"loop", "shutdown"} => held = Everything
  /\ pc = "release" => held \in {Loaded \cup {"recorder", "gpu"}, Loaded \cup {"gpu"},
                                 Loaded, Opened, {"sink"}}
  /\ pc = "returned" => held \subseteq Opened
  /\ pc = "over" => held \subseteq {"sink"}

\* The sysctl is as it was found or on, and a value that was read is the one found.
SysctlInv ==
  /\ sysctl \in {found, "1"} /\ prev \in {found, Unread}
  /\ pc \in {"main", "writer", "stats"} => sysctl = found /\ prev = Unread
  /\ pc = "over" => sysctl = found \/ (prev = Unread /\ sysctl = "1")

SessionInv ==
  SessionTypeOK /\ ConfigurationsFollow /\ ComponentsGiven /\ HoldingsInv /\ SysctlInv

\* The session begins with all parts of the invariant.
LEMMA SessionStarts == SessionInit => SessionInv
<1> SUFFICES ASSUME SessionInit PROVE SessionInv
  OBVIOUS
<1>1. ConfigurationsFollow
  BY DefaultsRaw DEF SessionInit, ConfigurationsFollow
<1>2. SessionTypeOK
  BY DEF SessionInit, SessionTypeOK, Unread
<1>3. ComponentsGiven
  BY DEF SessionInit, ComponentsGiven, Collecting, Unused
<1>4. HoldingsInv
  BY DEF SessionInit, HoldingsInv
<1>5. SysctlInv
  BY DEF SessionInit, SysctlInv
<1> QED
  BY <1>1, <1>2, <1>3, <1>4, <1>5 DEF SessionInv

\* The steps of main and RunCollector that leave the configurations alone, by where
\* they begin and end.
PlainSteps ==
  \/ MainEnds \/ WriterInit \/ EnableBpfStats \/ Open \/ Load \/ StartSnapshotter
  \/ Construct \/ LeaveLoop \/ Shutdown \/ Release

LEMMA ConfigurationsStep ==
  ASSUME SessionInv, [SessionNext]_sessionVars
  PROVE  ConfigurationsFollow'
<1> USE DEF SessionInv
<1>1. ASSUME UNCHANGED <<environ, initial, config>>, pc' \in {"main", "over"} \/ pc \notin {"main", "over"}
      PROVE  ConfigurationsFollow'
  BY <1>1 DEF ConfigurationsFollow, Follows
<1>2. CASE EditFile \/ Signal \/ UNCHANGED sessionVars
  BY <1>1, <1>2 DEF EditFile, Signal, sessionVars
<1>3. CASE PlainSteps
  <2>1. UNCHANGED <<environ, initial, config>>
    BY <1>3 DEF PlainSteps, MainEnds, WriterInit, EnableBpfStats, Open, Load, StartSnapshotter,
                Construct, LeaveLoop, Shutdown, Release, World, RunVars
  <2>2. pc' \in {"main", "over"} \/ pc \notin {"main", "over"}
    BY <1>3 DEF PlainSteps, MainEnds, WriterInit, EnableBpfStats, Open, Load, StartSnapshotter,
                Construct, LeaveLoop, Shutdown, Release
  <2> QED
    BY <1>1, <2>1, <2>2
<1>4. CASE MainConfigures
  <2>1. environ \in Environs /\ file \in Files \ {Malformed, Absent} /\ environ' = environ
    BY <1>4 DEF SessionTypeOK, MainConfigures, World
  <2>2. Follows(initial') /\ config' = initial'
    BY <1>4, <2>1, MainFollows
  <2> QED
    BY <2>1, <2>2 DEF ConfigurationsFollow, Follows
<1>5. CASE Reload
  <2>1. /\ environ \in Environs /\ file \in Files /\ environ' = environ /\ initial' = initial
        /\ config' = ReloadConfig(initial) /\ pc = "loop" /\ pc' = pc
    BY <1>5 DEF SessionTypeOK, Reload, World
  <2>2. Raw(initial) /\ Follows(initial)
    BY <2>1 DEF ConfigurationsFollow
  <2>3. Follows(config')
    BY <2>1, <2>2, ReloadFollows
  <2> QED
    BY <2>1, <2>2, <2>3 DEF ConfigurationsFollow, Follows
<1> QED
  BY <1>2, <1>3, <1>4, <1>5 DEF SessionNext, PlainSteps

LEMMA TypeStep ==
  ASSUME SessionInv, [SessionNext]_sessionVars
  PROVE  SessionTypeOK'
<1> USE DEF SessionInv
<1>1. Sane(initial') /\ Sane(config')
  BY ConfigurationsStep DEF ConfigurationsFollow
<1>2. /\ file' \in Files /\ environ' \in Environs /\ cliDir' \in OutputDirs /\ found' \in {"0", "1"}
  <2>1. UNCHANGED <<environ, cliDir, found>> /\ (EditFile \/ file' = file)
    BY DEF SessionNext, sessionVars, EditFile, Signal, MainEnds, MainConfigures, WriterInit,
           EnableBpfStats, Open, Load, StartSnapshotter, Construct, Reload, LeaveLoop,
           Shutdown, Release, World
  <2> QED
    BY <2>1 DEF SessionTypeOK, EditFile
<1>3. sig' \subseteq {"reload", "stop"}
  <2>1. Signal \/ sig' \subseteq sig
    BY DEF SessionNext, sessionVars, EditFile, MainEnds, MainConfigures, WriterInit,
           EnableBpfStats, Open, Load, StartSnapshotter, Construct, Reload, LeaveLoop,
           Shutdown, Release, RunVars
  <2> QED
    BY <2>1 DEF SessionTypeOK, Signal
<1>4. pc' \in {"main", "writer", "stats", "open", "load", "recorder", "probe", "loop",
               "shutdown", "release", "returned", "over"}
  BY DEF SessionTypeOK, SessionNext, sessionVars, EditFile, Signal, MainEnds, MainConfigures,
         WriterInit, EnableBpfStats, Open, Load, StartSnapshotter, Construct, Reload,
         LeaveLoop, Shutdown, Release, ReturnEarly
<1>5. held' \subseteq {"writer", "sink", "skeleton", "links", "recorder", "gpu", "phase"}
  BY DEF SessionTypeOK, SessionNext, sessionVars, EditFile, Signal, MainEnds, MainConfigures,
         WriterInit, EnableBpfStats, Open, Load, StartSnapshotter, Construct, Reload,
         LeaveLoop, Shutdown, Release, ReturnEarly
<1>6. sysctl' \in {"0", "1"} /\ prev' \in {"0", "1", Unread}
  BY DEF SessionTypeOK, SessionNext, sessionVars, EditFile, Signal, MainEnds, MainConfigures,
         WriterInit, EnableBpfStats, Open, Load, StartSnapshotter, Construct, Reload,
         LeaveLoop, Shutdown, Release, ReturnEarly, Restored, Unread
<1> QED
  BY <1>1, <1>2, <1>3, <1>4, <1>5, <1>6 DEF SessionTypeOK

LEMMA ComponentsStep ==
  ASSUME SessionInv, [SessionNext]_sessionVars
  PROVE  ComponentsGiven'
<1> USE DEF SessionInv, ComponentsGiven, Collecting
<1>1. CASE EditFile \/ Signal \/ UNCHANGED sessionVars
  BY <1>1 DEF EditFile, Signal, sessionVars
<1>2. CASE MainEnds
  BY <1>2 DEF MainEnds
<1>3. CASE MainConfigures
  BY <1>3 DEF MainConfigures
<1>4. CASE WriterInit
  BY <1>4 DEF WriterInit, ReturnEarly, RunVars
<1>5. CASE EnableBpfStats
  BY <1>5 DEF EnableBpfStats, RunVars
<1>6. CASE Open \/ Load
  BY <1>6 DEF Open, Load, ReturnEarly, RunVars
<1>7. CASE StartSnapshotter
  BY <1>7 DEF StartSnapshotter, ReturnEarly, RunVars
<1>8. CASE Construct
  BY <1>8 DEF Construct, RunVars
<1>9. CASE Reload
  <2>1. /\ pc = "loop" /\ pc' = pc /\ initial' = initial
        /\ used' = [used EXCEPT !.rate = config'.rate, !.gpu = GpuAfter(config.gpu, config'.gpu),
                                !.budget = <<config'.min, config'.max>>]
    BY <1>9 DEF Reload
  <2>2. GpuAfter(config.gpu, config'.gpu) = config'.gpu
    BY <2>1 DEF GpuAfter
  <2> QED
    BY <2>1, <2>2
<1>10. CASE LeaveLoop \/ Shutdown \/ Release
  BY <1>10 DEF LeaveLoop, Shutdown, Release
<1> QED
  BY <1>1, <1>2, <1>3, <1>4, <1>5, <1>6, <1>7, <1>8, <1>9, <1>10 DEF SessionNext

LEMMA HoldingsStep ==
  ASSUME SessionInv, [SessionNext]_sessionVars
  PROVE  HoldingsInv'
<1> USE DEF SessionInv, HoldingsInv, Opened, Loaded, Everything
<1>1. CASE EditFile \/ Signal \/ Reload \/ UNCHANGED sessionVars
  BY <1>1 DEF EditFile, Signal, Reload, sessionVars
<1>2. CASE MainEnds \/ MainConfigures
  BY <1>2 DEF MainEnds, MainConfigures
<1>3. ASSUME ReturnEarly PROVE HoldingsInv'
  BY <1>3 DEF ReturnEarly
<1>4. CASE WriterInit
  BY <1>3, <1>4 DEF WriterInit
<1>5. CASE EnableBpfStats
  BY <1>5 DEF EnableBpfStats
<1>6. CASE Open
  BY <1>3, <1>6 DEF Open
<1>7. CASE Load
  BY <1>3, <1>7 DEF Load
<1>8. CASE StartSnapshotter
  BY <1>3, <1>8 DEF StartSnapshotter
<1>9. CASE Construct
  BY <1>9 DEF Construct
<1>10. CASE LeaveLoop \/ Shutdown
  BY <1>10 DEF LeaveLoop, Shutdown
<1>11. CASE Release
  BY <1>11 DEF Release
<1> QED
  BY <1>1, <1>2, <1>4, <1>5, <1>6, <1>7, <1>8, <1>9, <1>10, <1>11 DEF SessionNext

LEMMA SysctlStep ==
  ASSUME SessionInv, [SessionNext]_sessionVars
  PROVE  SysctlInv'
<1> USE DEF SessionInv, SysctlInv
<1>1. CASE EditFile \/ Signal \/ Reload \/ UNCHANGED sessionVars
  BY <1>1 DEF EditFile, Signal, Reload, World, sessionVars
<1>2. CASE MainEnds \/ MainConfigures
  BY <1>2 DEF MainEnds, MainConfigures, World
<1>3. CASE WriterInit \/ Open \/ Load \/ StartSnapshotter
  BY <1>3 DEF WriterInit, Open, Load, StartSnapshotter, ReturnEarly, World
<1>4. CASE EnableBpfStats
  BY <1>4 DEF EnableBpfStats, World
<1>5. CASE Construct \/ LeaveLoop \/ Shutdown
  BY <1>5 DEF Construct, LeaveLoop, Shutdown, World
<1>6. CASE Release
  BY <1>6 DEF Release, Restored, World
<1> QED
  BY <1>1, <1>2, <1>3, <1>4, <1>5, <1>6 DEF SessionNext

\* The strengthening is inductive: every step of main, of RunCollector and of the file and
\* the signals around them keeps it.
THEOREM SessionInvariant == SessionSpec => []SessionInv
<1>1. SessionInit => SessionInv
  BY SessionStarts
<1>2. SessionInv /\ [SessionNext]_sessionVars => SessionInv'
  BY ConfigurationsStep, TypeStep, ComponentsStep, HoldingsStep, SysctlStep DEF SessionInv
<1> QED
  BY <1>1, <1>2, PTL DEF SessionSpec

\* What was sanitised stays within its ranges, and the state of the session its shape.
THEOREM SessionTypeCorrect == SessionSpec => []SessionTypeOK
<1>1. SessionInv => SessionTypeOK
  BY DEF SessionInv
<1> QED
  BY <1>1, SessionInvariant, PTL

\* What the environment sets survives any number of reloads of any file.
THEOREM EnvironmentRules == SessionSpec => []EnvironmentKept
<1>1. SessionInv => EnvironmentKept
  BY DEF SessionInv, ConfigurationsFollow, Follows, ComponentsGiven, Collecting, EnvironmentKept
<1> QED
  BY <1>1, SessionInvariant, PTL

\* Whatever runs has been given what the configuration in use says.
THEOREM ReloadReaches == SessionSpec => []ComponentsFollowConfig
<1>1. SessionInv => ComponentsFollowConfig
  <2> SUFFICES ASSUME SessionInv, pc = "loop"
               PROVE  /\ Sane(config)
                      /\ used.rate = config.rate /\ used.gpu = config.gpu
                      /\ used.budget = <<config.min, config.max>>
                      /\ used.budget[1] <= used.budget[2]
    BY DEF ComponentsFollowConfig
  <2>1. /\ Sane(config) /\ used.rate = config.rate /\ used.gpu = config.gpu
        /\ used.budget = <<config.min, config.max>>
    BY DEF SessionInv, ConfigurationsFollow, ComponentsGiven
  <2>2. config.min <= config.max
    <3>1. config.max \in Lowest..Highest /\ config.min \in Lowest..config.max
      BY <2>1 DEF Sane
    <3>2. Lowest \in Int /\ config.max \in Int
      BY <3>1 DEF Lowest, Highest
    <3> QED
      BY <3>1, <3>2
  <2>3. used.budget[1] = config.min /\ used.budget[2] = config.max
    BY <2>1
  <2> QED
    BY <2>1, <2>2, <2>3
<1> QED
  BY <1>1, SessionInvariant, PTL

\* What each way out of the session releases: everything and the sysctl after the
\* loop, what the kernel holds on an early return.
THEOREM EverythingReleased == SessionSpec => []ReleasedAtEnd
<1>1. SessionInv => ReleasedAtEnd
  <2> SUFFICES ASSUME SessionInv PROVE ReleasedAtEnd
    OBVIOUS
  <2> USE DEF SessionInv, HoldingsInv, Opened, Loaded, Everything
  <2>1. /\ pc = "returned" => held \subseteq {"writer", "sink"}
        /\ pc = "over" => held \subseteq {"sink"}
        /\ pc = "over" => sysctl = found \/ (prev = Unread /\ sysctl = "1")
    BY DEF SysctlInv
  <2>2. held \cap {"skeleton", "links", "recorder", "gpu", "phase"} # {} => "writer" \in held
    BY DEF SessionTypeOK
  <2>3. "phase" \in held => {"skeleton", "links", "recorder", "gpu"} \subseteq held
    BY DEF SessionTypeOK
  <2> QED
    BY <2>1, <2>2, <2>3 DEF ReleasedAtEnd
<1> QED
  BY <1>1, SessionInvariant, PTL

---------------------------------------------------------------------------
(* OutputWriter: no row twice, none lost in silence. *)

\* A database that holds each row once, numbered below n, and rows that wait for a
\* commit in a transaction only.
Sound(d, n) ==
  /\ d \in Databases
  /\ \A r \in d.pending \cup d.stored \cup d.lost : r < n
  /\ d.pending \cap d.stored = {} /\ d.lost \cap d.stored = {} /\ d.pending \cap d.lost = {}
  /\ d.pending # {} => d.inTx

\* What a statement makes of each field of the database.
LEMMA StatementFields ==
  ASSUME NEW d \in Databases, NEW n \in Rows
  PROVE  /\ /\ Begun(d) \in Databases /\ Begun(d).inTx
            /\ Begun(d).pending = d.pending /\ Begun(d).stored = d.stored /\ Begun(d).lost = d.lost
         /\ /\ Committed(d) \in Databases /\ ~Committed(d).inTx /\ Committed(d).pending = {}
            /\ Committed(d).stored = d.stored \cup d.pending /\ Committed(d).lost = d.lost
         /\ /\ RolledBack(d) \in Databases /\ ~RolledBack(d).inTx /\ RolledBack(d).pending = {}
            /\ RolledBack(d).stored = d.stored /\ RolledBack(d).lost = d.lost \cup d.pending
         /\ /\ Inserted(d, n) \in Databases /\ (Inserted(d, n).inTx <=> d.inTx)
            /\ Inserted(d, n).lost = d.lost
            /\ d.inTx => /\ Inserted(d, n).pending = d.pending \cup {n}
                         /\ Inserted(d, n).stored = d.stored
            /\ ~d.inTx => /\ Inserted(d, n).pending = d.pending
                          /\ Inserted(d, n).stored = d.stored \cup {n}
<1>1. /\ Begun(d) \in Databases /\ Begun(d).inTx
      /\ Begun(d).pending = d.pending /\ Begun(d).stored = d.stored /\ Begun(d).lost = d.lost
  BY DEF Databases, Begun
<1>2. /\ Committed(d) \in Databases /\ ~Committed(d).inTx /\ Committed(d).pending = {}
      /\ Committed(d).stored = d.stored \cup d.pending /\ Committed(d).lost = d.lost
  BY DEF Databases, Committed
<1>3. /\ RolledBack(d) \in Databases /\ ~RolledBack(d).inTx /\ RolledBack(d).pending = {}
      /\ RolledBack(d).stored = d.stored /\ RolledBack(d).lost = d.lost \cup d.pending
  BY DEF Databases, RolledBack
<1>4. /\ Inserted(d, n) \in Databases /\ (Inserted(d, n).inTx <=> d.inTx)
      /\ Inserted(d, n).lost = d.lost
      /\ d.inTx => /\ Inserted(d, n).pending = d.pending \cup {n}
                   /\ Inserted(d, n).stored = d.stored
      /\ ~d.inTx => /\ Inserted(d, n).pending = d.pending
                    /\ Inserted(d, n).stored = d.stored \cup {n}
  BY DEF Databases, Inserted
<1> QED
  BY <1>1, <1>2, <1>3, <1>4

\* The statements keep a database sound.
LEMMA SoundStatements ==
  ASSUME NEW n \in Rows, NEW d, Sound(d, n)
  PROVE  /\ Sound(Begun(d), n) /\ Sound(Committed(d), n) /\ Sound(RolledBack(d), n)
         /\ Sound(Inserted(d, n), n + 1)
         /\ \A e \in Failures(d) : Sound(e, n)
<1> USE DEF Sound
<1>1. Sound(Begun(d), n)
  BY StatementFields
<1>2. Sound(Committed(d), n)
  BY StatementFields
<1>3. Sound(RolledBack(d), n)
  BY StatementFields
<1>4. /\ \A r \in d.pending \cup d.stored \cup d.lost : r < n + 1 /\ r # n
      /\ n < n + 1
  BY DEF Rows, Databases
<1>5. Sound(Inserted(d, n), n + 1)
  <2>1. CASE d.inTx
    BY <1>4, <2>1, StatementFields
  <2>2. CASE ~d.inTx
    BY <1>4, <2>2, StatementFields
  <2> QED
    BY <2>1, <2>2
<1>6. \A e \in Failures(d) : Sound(e, n)
  BY <1>3 DEF Failures
<1> QED
  BY <1>1, <1>2, <1>3, <1>5, <1>6

\* A transaction left open outside any batch has been reported.
OpenReported == depth = 0 /\ db.inTx => reported \/ status # "open"

WriterInv == TypeOK /\ Sound(db, nextRow) /\ LossReported /\ OpenReported

LEMMA WriterStarts == Init => WriterInv
<1> SUFFICES ASSUME Init PROVE WriterInv
  OBVIOUS
<1> DEFINE new == [inTx |-> FALSE, pending |-> {}, stored |-> {}, lost |-> {}]
           meta == Inserted(Begun(new), 0)
<1>1. 0 \in Rows /\ 0 < 1 /\ MaxRows \in Nat \ {0} /\ MaxDepth \in Nat \ {0}
  BY WriterConstants DEF Rows
<1>2. new \in Databases /\ ~new.inTx /\ new.pending = {} /\ new.stored = {} /\ new.lost = {}
  BY DEF Databases
<1>3. db \in {Committed(meta), meta, RolledBack(meta)}
  BY DEF Init, Failures
<1>4. depth = 0 /\ nextRow = 1 /\ (reported <=> db.stored = {}) /\ reported \in BOOLEAN /\ status = "open"
  BY DEF Init
<1> HIDE DEF new
<1>5. /\ meta \in Databases /\ meta.inTx /\ meta.pending = {0}
      /\ meta.stored = {} /\ meta.lost = {}
  <2> DEFINE begun == Begun(new)
  <2>1. /\ begun \in Databases /\ begun.inTx
        /\ begun.pending = {} /\ begun.stored = {} /\ begun.lost = {}
    BY <1>1, <1>2, StatementFields
  <2> HIDE DEF begun
  <2>2. /\ Inserted(begun, 0) \in Databases /\ Inserted(begun, 0).inTx
        /\ Inserted(begun, 0).pending = {0}
        /\ Inserted(begun, 0).stored = {} /\ Inserted(begun, 0).lost = {}
    BY <1>1, <2>1, StatementFields
  <2> QED
    BY <2>2 DEF begun
<1> HIDE DEF meta
<1>6. \/ db.inTx /\ db.pending = {0} /\ db.stored = {} /\ db.lost = {}
      \/ ~db.inTx /\ db.pending = {} /\ db.stored = {0} /\ db.lost = {}
      \/ ~db.inTx /\ db.pending = {} /\ db.stored = {} /\ db.lost = {0}
  BY <1>1, <1>3, <1>5, StatementFields
<1>7. db \in Databases
  BY <1>1, <1>3, <1>5, StatementFields
<1>8. Sound(db, nextRow)
  BY <1>1, <1>4, <1>6, <1>7 DEF Sound
<1>9. LossReported /\ OpenReported
  BY <1>4, <1>6 DEF LossReported, OpenReported
<1>10. TypeOK
  BY <1>1, <1>4, <1>7 DEF TypeOK
<1> QED
  BY <1>8, <1>9, <1>10 DEF WriterInv

\* A log line is stored, or waits with the rest, or the writer hangs with its failure.
LEMMA LogLineEffect ==
  ASSUME TypeOK, Running, NEW d, Sound(d, nextRow), LogLine(d)
  PROVE  /\ Sound(db', nextRow') /\ nextRow' \in 1..(MaxRows + 1) /\ status' \in {"open", "hung"}
         /\ db'.stored \subseteq d.stored \cup {nextRow}
         /\ db'.lost # {} => d.lost # {} \/ status' = "hung"
         /\ db'.inTx => d.inTx
<1>1. nextRow \in Rows /\ nextRow \in 1..(MaxRows + 1) /\ nextRow + 1 \in 1..(MaxRows + 1) /\ status = "open"
  BY WriterConstants DEF TypeOK, Running, Rows
<1>2. d \in Databases
  BY DEF Sound
<1>3. /\ Sound(Inserted(d, nextRow), nextRow + 1) /\ Sound(RolledBack(d), nextRow)
  BY <1>1, SoundStatements
<1>4. CASE db' = Inserted(d, nextRow) /\ nextRow' = nextRow + 1 /\ UNCHANGED status
  BY <1>1, <1>2, <1>3, <1>4, StatementFields
<1>5. CASE db' \in Failures(d) /\ status' = "hung" /\ UNCHANGED nextRow
  <2>1. CASE db' = d
    BY <1>1, <1>5, <2>1
  <2>2. CASE db' = RolledBack(d)
    BY <1>1, <1>2, <1>3, <1>5, <2>2, StatementFields
  <2> QED
    BY <1>5, <2>1, <2>2 DEF Failures
<1> QED
  BY <1>4, <1>5 DEF LogLine

\* The failure of a statement is reported, and stores no row that was waiting.
LEMMA FailureEffect ==
  ASSUME WriterInv, Running, NEW d \in Failures(db), LogError(d)
  PROVE  /\ Sound(db', nextRow') /\ nextRow' \in 1..(MaxRows + 1)
         /\ status' \in {"open", "hung"} /\ reported' = TRUE
         /\ db'.stored \subseteq db.stored \cup {nextRow}
<1>1. nextRow \in Rows /\ db \in Databases
  BY WriterConstants DEF WriterInv, TypeOK, Running, Rows
<1>2. Sound(d, nextRow)
  BY <1>1, SoundStatements DEF WriterInv
<1>3. d.stored = db.stored
  BY <1>1, StatementFields DEF Failures
<1>4. TypeOK /\ LogLine(d) /\ reported' = TRUE
  BY DEF WriterInv, LogError
<1> QED
  BY <1>2, <1>3, <1>4, LogLineEffect

\* A statement succeeds, or fails and is reported.
LEMMA ExecEffect ==
  ASSUME WriterInv, Running, NEW done, Sound(done, nextRow), NEW possible, Exec(done, possible)
  PROVE  /\ Sound(db', nextRow') /\ nextRow' \in 1..(MaxRows + 1)
         /\ status' \in {"open", "hung"} /\ reported' \in BOOLEAN
         /\ \/ possible /\ db' = done /\ UNCHANGED <<nextRow, reported, status>>
            \/ reported' = TRUE /\ db'.stored \subseteq db.stored \cup {nextRow}
<1>1. CASE possible /\ db' = done /\ UNCHANGED <<nextRow, reported, status>>
  BY <1>1 DEF WriterInv, TypeOK, Running
<1>2. CASE \E d \in Failures(db) : LogError(d)
  <2>1. PICK d \in Failures(db) : LogError(d)
    BY <1>2
  <2> QED
    BY <2>1, FailureEffect
<1> QED
  BY <1>1, <1>2 DEF Exec

\* Outside the outermost CommitBatch no waiting row is stored.
LEMMA WaitingRows ==
  ASSUME Sound(db, nextRow), nextRow \in Rows, db'.stored \subseteq db.stored \cup {nextRow}
  PROVE  StoredByOutermost
<1>1. \A r \in db.pending : r < nextRow /\ r \notin db.stored
  BY DEF Sound
<1>2. \A r \in db.pending : r # nextRow
  BY <1>1 DEF Rows
<1> QED
  BY <1>1, <1>2 DEF StoredByOutermost

\* Every operation of the writer keeps the invariant.
LEMMA WriterStep ==
  ASSUME WriterInv, [Next]_vars
  PROVE  WriterInv' /\ (StoredByOutermost \/ UNCHANGED vars)
<1>0. /\ TypeOK /\ Sound(db, nextRow) /\ LossReported /\ OpenReported
      /\ db \in Databases /\ depth \in 0..MaxDepth /\ MaxDepth \in Nat /\ reported \in BOOLEAN
      /\ nextRow \in 1..(MaxRows + 1)
  BY WriterConstants DEF WriterInv, TypeOK
<1>1. Running => nextRow \in Rows /\ nextRow + 1 \in 1..(MaxRows + 1) /\ status = "open"
  BY <1>0, WriterConstants DEF Running, Rows
<1>2. ASSUME Sound(db', nextRow'), nextRow' \in 1..(MaxRows + 1), depth' \in 0..MaxDepth,
             reported' \in BOOLEAN, status' \in {"open", "closed", "killed", "hung"},
             db'.lost # {} => reported' \/ status' \in {"killed", "hung"},
             depth' = 0 /\ db'.inTx => reported' \/ status' # "open"
      PROVE  WriterInv'
  BY <1>2 DEF WriterInv, TypeOK, LossReported, OpenReported, Sound
<1>3. CASE BeginBatch
  <2>1. Running /\ depth' = depth + 1 /\ depth' \in 0..MaxDepth /\ depth' # 0
    BY <1>0, <1>3 DEF BeginBatch
  <2>2. CASE depth = 0
    <3>1. Exec(Begun(db), ~db.inTx)
      BY <1>3, <2>2 DEF BeginBatch
    <3>2. Sound(Begun(db), nextRow) /\ Begun(db).stored = db.stored /\ Begun(db).lost = db.lost
      BY <1>0, <1>1, <2>1, SoundStatements, StatementFields
    <3>3. /\ Sound(db', nextRow') /\ nextRow' \in 1..(MaxRows + 1)
          /\ status' \in {"open", "hung"} /\ reported' \in BOOLEAN
          /\ \/ db' = Begun(db) /\ UNCHANGED <<nextRow, reported, status>>
             \/ reported' = TRUE /\ db'.stored \subseteq db.stored \cup {nextRow}
      BY <2>1, <3>1, <3>2, ExecEffect
    <3>4. db'.stored \subseteq db.stored \cup {nextRow}
      BY <3>2, <3>3
    <3>5. db'.lost # {} => reported' \/ status' \in {"killed", "hung"}
      BY <1>0, <3>2, <3>3 DEF LossReported
    <3> QED
      BY <1>0, <1>1, <1>2, <2>1, <3>3, <3>4, <3>5, WaitingRows
  <2>3. CASE depth # 0
    <3>1. UNCHANGED <<db, nextRow, reported, status>>
      BY <1>3, <2>3 DEF BeginBatch
    <3>2. Sound(db', nextRow') /\ db'.stored \subseteq db.stored \cup {nextRow}
      BY <1>0, <3>1
    <3> QED
      BY <1>0, <1>1, <1>2, <2>1, <3>1, <3>2, WaitingRows DEF LossReported
  <2> QED
    BY <2>2, <2>3
<1>4. CASE CommitBatch
  <2>1. Running /\ depth' = depth - 1 /\ depth' \in 0..MaxDepth /\ depth \in Nat \ {0}
    BY <1>0, <1>4 DEF CommitBatch
  <2>2. CASE depth = 1
    <3>1. Exec(Committed(db), db.inTx) /\ depth' = 0
      BY <1>4, <2>2 DEF CommitBatch
    <3>2. Sound(Committed(db), nextRow) /\ Committed(db).lost = db.lost /\ ~Committed(db).inTx
      BY <1>0, <1>1, <2>1, SoundStatements, StatementFields
    <3>3. /\ Sound(db', nextRow') /\ nextRow' \in 1..(MaxRows + 1)
          /\ status' \in {"open", "hung"} /\ reported' \in BOOLEAN
          /\ \/ db' = Committed(db) /\ UNCHANGED <<nextRow, reported, status>>
             \/ reported' = TRUE
      BY <2>1, <3>1, <3>2, ExecEffect
    <3>4. db'.lost # {} => reported' \/ status' \in {"killed", "hung"}
      BY <1>0, <3>2, <3>3 DEF LossReported
    <3>5. db'.inTx => reported'
      BY <3>2, <3>3
    <3> QED
      BY <1>2, <2>1, <2>2, <3>1, <3>3, <3>4, <3>5 DEF StoredByOutermost
  <2>3. CASE depth # 1
    <3>1. UNCHANGED <<db, nextRow, reported, status>> /\ depth' # 0
      BY <1>4, <2>1, <2>3 DEF CommitBatch
    <3>2. Sound(db', nextRow') /\ db'.stored \subseteq db.stored \cup {nextRow}
      BY <1>0, <3>1
    <3> QED
      BY <1>0, <1>1, <1>2, <2>1, <3>1, <3>2, WaitingRows DEF LossReported
  <2> QED
    BY <2>2, <2>3
<1>5. CASE Write
  <2>1. Running /\ depth' = depth
    BY <1>5 DEF Write
  <2>2. CASE db' = Inserted(db, nextRow) /\ nextRow' = nextRow + 1 /\ UNCHANGED <<reported, status>>
    <3>1. /\ Sound(Inserted(db, nextRow), nextRow + 1)
          /\ Inserted(db, nextRow).lost = db.lost /\ (Inserted(db, nextRow).inTx <=> db.inTx)
          /\ Inserted(db, nextRow).stored \subseteq db.stored \cup {nextRow}
      BY <1>0, <1>1, <2>1, SoundStatements, StatementFields
    <3>2. db'.lost # {} => reported' \/ status' \in {"killed", "hung"}
      BY <1>0, <2>2, <3>1 DEF LossReported
    <3>3. depth' = 0 /\ db'.inTx => reported' \/ status' # "open"
      BY <1>0, <2>1, <2>2, <3>1 DEF OpenReported
    <3> QED
      BY <1>0, <1>1, <1>2, <2>1, <2>2, <3>1, <3>2, <3>3, WaitingRows
  <2>3. CASE \E d \in Failures(db) : LogError(d)
    <3>1. /\ Sound(db', nextRow') /\ nextRow' \in 1..(MaxRows + 1)
          /\ status' \in {"open", "hung"} /\ reported' = TRUE
          /\ db'.stored \subseteq db.stored \cup {nextRow}
      BY <2>1, <2>3, FailureEffect
    <3> QED
      BY <1>0, <1>1, <1>2, <2>1, <3>1, WaitingRows
  <2> QED
    BY <1>5, <2>2, <2>3 DEF Write
<1>6. CASE Log
  <2>1. Running /\ LogLine(db) /\ depth' = depth /\ reported' = reported
    BY <1>6 DEF Log
  <2>2. /\ Sound(db', nextRow') /\ nextRow' \in 1..(MaxRows + 1) /\ status' \in {"open", "hung"}
        /\ db'.stored \subseteq db.stored \cup {nextRow}
        /\ db'.lost # {} => db.lost # {} \/ status' = "hung"
        /\ db'.inTx => db.inTx
    BY <1>0, <2>1, LogLineEffect
  <2>3. db'.lost # {} => reported' \/ status' \in {"killed", "hung"}
    BY <1>0, <1>1, <2>1, <2>2 DEF LossReported
  <2>4. depth' = 0 /\ db'.inTx => reported' \/ status' # "open"
    BY <1>0, <1>1, <2>1, <2>2 DEF OpenReported
  <2> QED
    BY <1>0, <1>1, <1>2, <2>1, <2>2, <2>3, <2>4, WaitingRows
<1>7. CASE Close
  <2>1. Running /\ depth = 0 /\ depth' = depth
    BY <1>7 DEF Close
  <2>2. CASE db' = RolledBack(db) /\ status' = "closed" /\ UNCHANGED <<nextRow, reported>>
    <3>1. /\ Sound(RolledBack(db), nextRow) /\ RolledBack(db).lost = db.lost \cup db.pending
          /\ RolledBack(db).stored = db.stored
      BY <1>0, <1>1, <2>1, SoundStatements, StatementFields
    <3>2. db.pending # {} => reported
      BY <1>0, <1>1, <2>1 DEF LossReported, OpenReported
    <3>3. db'.lost # {} => reported'
      BY <1>0, <1>1, <2>1, <2>2, <3>1, <3>2 DEF LossReported
    <3> QED
      BY <1>0, <1>1, <1>2, <2>1, <2>2, <3>1, <3>3, WaitingRows
  <2>3. CASE /\ reported' = TRUE /\ nextRow' = nextRow + 1
             /\ \/ db' = RolledBack(Inserted(db, nextRow)) /\ status' = "closed"
                \/ db' \in Failures(db) /\ status' = "hung"
    <3>1. /\ Sound(Inserted(db, nextRow), nextRow + 1) /\ Inserted(db, nextRow) \in Databases
          /\ Inserted(db, nextRow).stored \subseteq db.stored \cup {nextRow}
      BY <1>0, <1>1, <2>1, SoundStatements, StatementFields
    <3>2. CASE db' = RolledBack(Inserted(db, nextRow)) /\ status' = "closed"
      <4> DEFINE e == Inserted(db, nextRow)
      <4>1. Sound(e, nextRow') /\ e \in Databases /\ e.stored \subseteq db.stored \cup {nextRow}
        BY <2>3, <3>1
      <4> HIDE DEF e
      <4>2. RolledBack(e) \in Databases /\ RolledBack(e).stored = e.stored
            /\ RolledBack(e).lost = e.lost \cup e.pending /\ RolledBack(e).pending = {}
        BY <1>1, <2>1, <4>1, StatementFields
      <4>3. Sound(RolledBack(e), nextRow')
        BY <4>1, <4>2 DEF Sound
      <4>4. db' = RolledBack(e)
        BY <3>2 DEF e
      <4> QED
        BY <1>0, <1>1, <1>2, <2>1, <2>3, <3>2, <4>1, <4>2, <4>3, <4>4, WaitingRows
    <3>3. CASE db' \in Failures(db) /\ status' = "hung"
      <4>1. Sound(db', nextRow) /\ db'.stored = db.stored
        BY <1>0, <1>1, <2>1, <3>3, SoundStatements, StatementFields DEF Failures
      <4>2. Sound(db', nextRow + 1)
        <5>1. \A r \in db'.pending \cup db'.stored \cup db'.lost : r < nextRow + 1
          BY <1>0, <4>1 DEF Sound, Databases, Rows
        <5> QED
          BY <4>1, <5>1 DEF Sound
      <4> QED
        BY <1>0, <1>1, <1>2, <2>1, <2>3, <3>3, <4>1, <4>2, WaitingRows
    <3> QED
      BY <2>3, <3>2, <3>3
  <2> QED
    BY <1>7, <2>2, <2>3 DEF Close
<1>8. CASE Kill
  <2>1. /\ status' = "killed" /\ db' = RolledBack(db) /\ UNCHANGED <<depth, nextRow, reported>>
    BY <1>8 DEF Kill
  <2>2. 0 \in Rows
    BY WriterConstants DEF Rows
  <2>3. /\ RolledBack(db) \in Databases /\ RolledBack(db).pending = {}
        /\ RolledBack(db).stored = db.stored /\ RolledBack(db).lost = db.lost \cup db.pending
    BY <1>0, <2>2, StatementFields
  <2>4. Sound(db', nextRow')
    BY <1>0, <2>1, <2>3 DEF Sound
  <2>5. StoredByOutermost
    BY <1>0, <2>1, <2>3 DEF StoredByOutermost, Sound
  <2> QED
    BY <1>0, <1>2, <2>1, <2>4, <2>5
<1>9. CASE UNCHANGED vars
  BY <1>0, <1>9 DEF WriterInv, TypeOK, Sound, LossReported, OpenReported, vars
<1> QED
  BY <1>3, <1>4, <1>5, <1>6, <1>7, <1>8, <1>9 DEF Next

\* The transaction, the rows and the nesting of the batches stay in step whatever fails.
THEOREM WriterInvariant == Spec => []WriterInv
<1>1. Init => WriterInv
  BY WriterStarts
<1>2. WriterInv /\ [Next]_vars => WriterInv'
  BY WriterStep
<1> QED
  BY <1>1, <1>2, PTL DEF Spec

\* Every row is accounted for once, and no accepted row is lost without an error, the
\* death of the process or a hang, for sessions and nestings of any length.
THEOREM NothingLostInSilence == Spec => []LossReported
<1>1. WriterInv => LossReported
  BY DEF WriterInv
<1> QED
  BY <1>1, WriterInvariant, PTL

\* Rows that wait are stored by the CommitBatch that leaves the outermost batch alone.
THEOREM OnlyOutermostCommits == Spec => OutermostCommits
<1>1. WriterInv /\ [Next]_vars => [StoredByOutermost]_vars
  BY WriterStep
<1> QED
  BY <1>1, WriterInvariant, PTL DEF Spec, OutermostCommits

---------------------------------------------------------------------------
(* SessionDb: why a row is refused. *)

HostTables == {"host", "host_cpu", "net_iface"}
OverheadTables == {"proc_overhead", "bpf_stats"}
AnomalyTables == {"anomaly", "anomaly_tid"}
DumpTables == {"deep_proc", "deep_gpu_process"}
EpisodeTables == {"deep_episodes", "deep_series", "deep_net_flow", "deep_offcpu"} \cup DumpTables
AllTables == HostTables \cup OverheadTables \cup AnomalyTables \cup EpisodeTables

\* The clocks of the loop, and when the last snapshot was due.
ClocksTyped ==
  /\ clock \in Nat /\ now \in Nat /\ lastHost \in Nat /\ drained \in Nat
  /\ ordinal \in Nat /\ inDeep \in BOOLEAN /\ step \in Steps
  /\ interval \in [host : Intervals, feature : Intervals]
  /\ took \in [host : Intervals, feature : Intervals]
  /\ next \in [host : Nat, overhead : Nat, feature : Nat]
ClocksOrdered ==
  /\ now <= clock /\ lastHost <= clock /\ drained <= clock
  /\ next.host - took.host <= now
ClockInv == ClocksTyped /\ ClocksOrdered

\* A row that is stored lies behind what will be written next.  Under the time of the
\* last snapshot there is a feature row only if the features after it are due no
\* earlier than their interval after that snapshot.
RowBehind(r) ==
  /\ r.table \in AllTables /\ r.ts \in Nat /\ r.ordinal \in Nat
  /\ r.table \in HostTables => r.ts <= lastHost
  /\ r.table \in OverheadTables => r.ts <= now /\ (step \in {"host", "overhead"} => r.ts < now)
  /\ r.table \in AnomalyTables =>
       /\ r.ts <= lastHost
       /\ r.ts = lastHost =>
            /\ next.host - took.host + took.feature <= next.feature
            /\ step \in {"overhead", "feature"} => now < next.host
  /\ r.table \in EpisodeTables => r.ordinal <= ordinal
  /\ inDeep /\ r.ordinal = ordinal =>
       /\ r.table = "deep_series" /\ r.phase = 1 => r.ts <= drained
       /\ r.table \in DumpTables =>
            r.ts <= now /\ (step \notin {"requests", "top"} => r.ts < now)
       /\ r.table # "deep_offcpu"

DbInv == ClockInv /\ (\A r \in stored : RowBehind(r)) /\ RefusalsExplained

\* Rows with the same key agree in what their table's key is made of.
LEMMA KeyParts ==
  ASSUME NEW r, NEW q, r.table \in AllTables, SameKey(r, q)
  PROVE  /\ r.table = q.table
         /\ r.table \in HostTables \cup OverheadTables \cup AnomalyTables \cup DumpTables
              => r.ts = q.ts
         /\ r.table \in EpisodeTables => r.ordinal = q.ordinal
         /\ r.table = "deep_series" => r.ts = q.ts /\ r.phase = q.phase
<1>1. r.table = q.table /\ \A c \in PrimaryKey(r.table) : r[c] = q[c]
  BY DEF SameKey
<1>2. CASE r.table \in {"host", "proc_overhead", "anomaly"}
  <2>1. PrimaryKey(r.table) = {"ts"}
    BY <1>2 DEF PrimaryKey
  <2> QED
    BY <1>1, <1>2, <2>1 DEF HostTables, OverheadTables, AnomalyTables, DumpTables, EpisodeTables
<1>3. CASE r.table \in {"host_cpu", "net_iface", "bpf_stats", "anomaly_tid"}
  <2>1. PrimaryKey(r.table) = {"ts", "sub"}
    BY <1>3 DEF PrimaryKey
  <2> QED
    BY <1>1, <1>3, <2>1 DEF HostTables, OverheadTables, AnomalyTables, DumpTables, EpisodeTables
<1>4. CASE r.table = "deep_episodes"
  <2>1. PrimaryKey(r.table) = {"ordinal"}
    BY <1>4 DEF PrimaryKey
  <2> QED
    BY <1>1, <1>4, <2>1 DEF HostTables, OverheadTables, AnomalyTables, DumpTables, EpisodeTables
<1>5. CASE r.table = "deep_series"
  <2>1. PrimaryKey(r.table) = {"ordinal", "phase", "ts", "sub"}
    BY <1>5 DEF PrimaryKey
  <2> QED
    BY <1>1, <1>5, <2>1 DEF HostTables, OverheadTables, AnomalyTables, DumpTables, EpisodeTables
<1>6. CASE r.table \in DumpTables
  <2>1. PrimaryKey(r.table) = {"ordinal", "ts", "sub"}
    BY <1>6 DEF PrimaryKey, DumpTables
  <2> QED
    BY <1>1, <1>6, <2>1 DEF HostTables, OverheadTables, AnomalyTables, DumpTables, EpisodeTables
<1>7. CASE r.table \in {"deep_net_flow", "deep_offcpu"}
  <2>1. PrimaryKey(r.table) = {"ordinal", "sub"}
    BY <1>7 DEF PrimaryKey
  <2> QED
    BY <1>1, <1>7, <2>1 DEF HostTables, OverheadTables, AnomalyTables, DumpTables, EpisodeTables
<1> QED
  BY <1>2, <1>3, <1>4, <1>5, <1>6, <1>7
     DEF AllTables, HostTables, OverheadTables, AnomalyTables, EpisodeTables

\* What an insertion adds to the tables and to the rows refused.
LEMMA InsertionAdds ==
  ASSUME NEW rows, NEW twice, InsertRows(rows, twice)
  PROVE  /\ \A r \in stored' : r \in stored \/ r \in rows
         /\ \A e \in refused' :
              \/ e \in refused
              \/ /\ e.took = took
                 /\ \/ e.row \in twice
                    \/ e.row \in rows /\ \E q \in stored : SameKey(e.row, q)
  BY DEF InsertRows

\* A refusal is explained if those of the insertion are.
LEMMA InsertionExplained ==
  ASSUME RefusalsExplained, NEW rows, NEW twice, InsertRows(rows, twice),
         \A r \in rows : \A q \in stored : SameKey(r, q) =>
            \/ r.table \in AnomalyTables /\ took.feature < took.host
            \/ r.table = "deep_net_flow",
         \A r \in twice :
            \/ r.table = "net_iface" /\ r.sub = NoName
            \/ r.table = "deep_net_flow"
  PROVE  RefusalsExplained'
<1> SUFFICES ASSUME NEW e \in refused' PROVE Explained(e)
  BY DEF RefusalsExplained
<1>1. CASE e \in refused
  BY <1>1 DEF RefusalsExplained
<1>2. CASE /\ e.took = took
           /\ \/ e.row \in twice
              \/ e.row \in rows /\ \E q \in stored : SameKey(e.row, q)
  <2>1. CASE e.row \in twice
    BY <2>1 DEF Explained
  <2>2. CASE e.row \in rows /\ \E q \in stored : SameKey(e.row, q)
    <3>1. \/ e.row.table \in AnomalyTables /\ took.feature < took.host
          \/ e.row.table = "deep_net_flow"
      BY <2>2
    <3> QED
      BY <1>2, <3>1 DEF Explained, AnomalyTables
  <2> QED
    BY <1>2, <2>1, <2>2
<1> QED
  BY <1>1, <1>2, InsertionAdds

LEMMA StampedRows ==
  ASSUME NEW t, NEW ts, NEW r \in RowsOf(t, ts)
  PROVE  r.table = t /\ r.ts = ts /\ r.ordinal = ordinal
  BY DEF RowsOf, Row

LEMMA SeriesRows ==
  ASSUME NEW p, NEW from \in Nat, NEW to \in Nat, NEW r \in Series(p, from, to)
  PROVE  /\ r.table = "deep_series" /\ r.phase = p /\ r.ordinal = ordinal'
         /\ r.ts \in Nat /\ from <= r.ts /\ r.ts <= to
<1>1. PICK t \in from..to, s \in Subs :
             r = [Row("deep_series", t, s, p) EXCEPT !.ordinal = ordinal']
  BY DEF Series
<1>2. r = [table |-> "deep_series", ts |-> t, sub |-> s, phase |-> p, ordinal |-> ordinal']
  BY <1>1 DEF Row
<1> QED
  BY <1>2

\* The rows of a snapshot bear its time.
LEMMA HostRowFields ==
  ASSUME NEW ts, NEW lost
  PROVE  /\ \A r \in HostRows(ts, lost) : r.table \in HostTables /\ r.ts = ts /\ r.ordinal = ordinal
         /\ \A r \in Repeated(ts, lost) : r.table = "net_iface" /\ r.sub = NoName
<1>1. ASSUME NEW r \in HostRows(ts, lost)
      PROVE  r.table \in HostTables /\ r.ts = ts /\ r.ordinal = ordinal
  <2>1. CASE r \in {Row("host", ts, NoName, 0)} \cup RowsOf("host_cpu", ts)
    BY <2>1, StampedRows DEF Row, HostTables
  <2>2. CASE r \in Interfaces(ts, lost)
    BY <2>2 DEF Interfaces, Row, HostTables
  <2> QED
    BY <1>1, <2>1, <2>2 DEF HostRows
<1>2. ASSUME NEW r \in Repeated(ts, lost)
      PROVE  r.table = "net_iface" /\ r.sub = NoName
  BY <1>2 DEF Repeated, Row
<1> QED
  BY <1>1, <1>2

\* The intervals and the due times are numbers.
LEMMA Spans ==
  ASSUME ClocksTyped
  PROVE  /\ interval.host \in Nat /\ interval.feature \in Nat
         /\ took.host \in Nat /\ took.feature \in Nat
         /\ next.host \in Nat /\ next.overhead \in Nat /\ next.feature \in Nat
  BY DbConstants DEF ClocksTyped

LEMMA DbStarts == DbInit => DbInv
<1> SUFFICES ASSUME DbInit PROVE DbInv
  OBVIOUS
<1>1. ClocksTyped
  BY DEF DbInit, ClocksTyped, Steps
<1>2. ClocksOrdered
  BY <1>1, Spans DEF DbInit, ClocksOrdered
<1> QED
  BY <1>1, <1>2 DEF DbInit, DbInv, ClockInv, RefusalsExplained

\* What a drain adds to the series, and the processes it writes, are not there yet.
LEMMA SeriesNew ==
  ASSUME ClocksTyped, inDeep, ordinal' = ordinal, NEW r \in Series(1, drained + 1, clock)
  PROVE  /\ r.table = "deep_series" /\ r.phase = 1 /\ r.ordinal = ordinal
         /\ r.ts \in Nat /\ r.ts <= clock
         /\ \A q \in stored : RowBehind(q) => ~SameKey(r, q)
<1>0. drained + 1 \in Nat /\ clock \in Nat /\ drained \in Nat
  BY DEF ClocksTyped
<1>1. /\ r.table = "deep_series" /\ r.phase = 1 /\ r.ordinal = ordinal
      /\ r.ts \in Nat /\ drained + 1 <= r.ts /\ r.ts <= clock
  BY <1>0, SeriesRows
<1>2. ASSUME NEW q \in stored, RowBehind(q), SameKey(r, q)
      PROVE  FALSE
  <2>1. r.table \in AllTables
    BY <1>1 DEF AllTables, EpisodeTables
  <2>2. q.table = r.table /\ q.ordinal = r.ordinal /\ q.ts = r.ts /\ q.phase = r.phase
    BY <1>1, <1>2, <2>1, KeyParts DEF EpisodeTables
  <2>3. q.ts <= drained
    BY <1>1, <1>2, <2>2 DEF RowBehind
  <2> QED
    BY <1>0, <1>1, <2>2, <2>3
<1> QED
  BY <1>1, <1>2

\* The rows of a dump are new in its episode.
LEMMA DumpsNew ==
  ASSUME ClocksTyped, inDeep, NEW ts \in Nat,
         (step \notin {"requests", "top"} /\ ts = now) \/ now < ts,
         NEW r \in Drains(ts)
  PROVE  /\ r.table \in DumpTables /\ r.ts = ts /\ r.ordinal = ordinal
         /\ \A q \in stored : RowBehind(q) => ~SameKey(r, q)
<1>0. now \in Nat
  BY DEF ClocksTyped
<1>1. r.table \in DumpTables /\ r.ts = ts /\ r.ordinal = ordinal
  BY StampedRows DEF Drains, DumpTables
<1>2. ASSUME NEW q \in stored, RowBehind(q), SameKey(r, q)
      PROVE  FALSE
  <2>1. r.table \in AllTables /\ r.table \in EpisodeTables
    BY <1>1 DEF AllTables, EpisodeTables
  <2>2. q.table = r.table /\ q.ordinal = r.ordinal /\ q.ts = r.ts
    BY <1>1, <1>2, <2>1, KeyParts
  <2>3. q.ts \in Nat /\ q.ts <= now /\ (step \notin {"requests", "top"} => q.ts < now)
    BY <1>1, <1>2, <2>2 DEF RowBehind
  <2> QED
    BY <1>0, <1>1, <2>2, <2>3
<1> QED
  BY <1>1, <1>2

\* A step of the loop that writes nothing.
LEMMA QuietStep ==
  ASSUME DbInv, UNCHANGED tables, ClockInv',
         \A r \in stored : RowBehind(r) => RowBehind(r)'
  PROVE  DbInv'
  BY DEF DbInv, tables, RefusalsExplained

\* Every step of the loop keeps the invariant.
LEMMA DbStep == DbInv /\ [DbNext]_dbVars => DbInv'
<1> SUFFICES ASSUME DbInv, [DbNext]_dbVars PROVE DbInv'
  OBVIOUS
<1>0. ClocksTyped /\ ClocksOrdered /\ (\A r \in stored : RowBehind(r)) /\ RefusalsExplained
  BY DEF DbInv, ClockInv
<1>s. /\ interval.host \in Nat /\ interval.feature \in Nat
      /\ took.host \in Nat /\ took.feature \in Nat
      /\ next.host \in Nat /\ next.overhead \in Nat /\ next.feature \in Nat
  BY <1>0, Spans
<1>1. CASE Iterate
  <2>1. ClockInv'
    <3>1. interval' \in [host : Intervals, feature : Intervals]
      BY <1>0, <1>1 DEF ClocksTyped, Iterate
    <3>2. ClocksTyped'
      BY <1>0, <1>1, <3>1 DEF ClocksTyped, Iterate, Later, Steps, episodeVars
    <3>3. ClocksOrdered'
      BY <1>0, <1>1, <1>s DEF ClocksTyped, ClocksOrdered, Iterate, Later, episodeVars
    <3> QED
      BY <3>2, <3>3 DEF ClockInv
  <2>2. \A r \in stored : RowBehind(r) => RowBehind(r)'
    BY <1>0, <1>1 DEF RowBehind, ClocksTyped, ClocksOrdered, Iterate, Later, Steps, episodeVars, HostTables,
      OverheadTables, AnomalyTables, DumpTables, EpisodeTables, AllTables
  <2> QED
    BY <1>1, <2>1, <2>2, QuietStep DEF Iterate
<1>2. CASE HostTick
  <2>1. CASE now >= next.host
    <3>1. ClockInv'
      <4>1. took' = [took EXCEPT !.host = interval.host] /\ next' = [next EXCEPT !.host = now + interval.host]
        BY <1>2, <2>1 DEF HostTick, NextHost
      <4>2. took' \in [host : Intervals, feature : Intervals]
        BY <1>0, <4>1 DEF ClocksTyped
      <4>3. next' \in [host : Nat, overhead : Nat, feature : Nat]
        BY <1>0, <1>s, <4>1 DEF ClocksTyped
      <4>4. ClocksTyped'
        BY <1>0, <1>2, <2>1, <4>2, <4>3 DEF ClocksTyped, HostTick, Later, Steps, episodeVars
      <4>5. next'.host = now + interval.host /\ took'.host = interval.host
        BY <1>0, <4>1 DEF ClocksTyped
      <4>6. ClocksOrdered'
        BY <1>0, <1>s, <1>2, <2>1, <4>5
           DEF ClocksTyped, ClocksOrdered, HostTick, Later, episodeVars
      <4> QED
        BY <4>4, <4>6 DEF ClockInv
    <3>2. PICK lost \in SUBSET Subs : InsertRows(HostRows(lastHost', lost), Repeated(lastHost', lost))
      BY <1>2, <2>1 DEF HostTick
    <3>3. ASSUME NEW r \in stored PROVE RowBehind(r)'
      <4>1. RowBehind(r)
        BY <1>0
      <4> QED
        BY <1>0, <1>2, <2>1, <4>1 DEF RowBehind, ClocksTyped, ClocksOrdered, HostTick, Later, Steps, episodeVars,
          HostTables, OverheadTables, AnomalyTables, DumpTables, EpisodeTables, AllTables
    <3>4. ASSUME NEW r \in HostRows(lastHost', lost) PROVE RowBehind(r)'
      <4>1. r.table \in HostTables /\ r.ts = lastHost' /\ r.ordinal = ordinal
        BY HostRowFields
      <4>2. lastHost' \in Nat /\ ordinal \in Nat
        BY <1>0, <3>1 DEF ClockInv, ClocksTyped
      <4> QED
        BY <4>1, <4>2
           DEF RowBehind, HostTables, OverheadTables, AnomalyTables, DumpTables, EpisodeTables, AllTables
    <3>5. ASSUME NEW r \in HostRows(lastHost', lost), NEW q \in stored, SameKey(r, q)
          PROVE  FALSE
      <4>1. r.table \in HostTables /\ r.ts = lastHost'
        BY HostRowFields
      <4>2. q.table = r.table /\ q.ts = r.ts
        BY <3>5, <4>1, KeyParts DEF AllTables
      <4>3. q.ts <= lastHost
        BY <1>0, <4>1, <4>2 DEF RowBehind
      <4>4. lastHost' = clock + 1 /\ lastHost <= clock /\ clock \in Nat /\ lastHost \in Nat
        BY <1>0, <1>2, <2>1 DEF ClocksTyped, ClocksOrdered, HostTick, Later
      <4> QED
        BY <4>1, <4>2, <4>3, <4>4
    <3>6. \A r \in Repeated(lastHost', lost) : r.table = "net_iface" /\ r.sub = NoName
      BY HostRowFields
    <3>7. RefusalsExplained'
      BY <1>0, <3>2, <3>5, <3>6, InsertionExplained
    <3> QED
      BY <3>1, <3>2, <3>3, <3>4, <3>7, InsertionAdds DEF DbInv
  <2>2. CASE ~(now >= next.host)
    <3>1. ClockInv'
      BY <1>0, <1>2, <2>2 DEF ClockInv, ClocksTyped, ClocksOrdered, HostTick, Steps, episodeVars
    <3>2. \A r \in stored : RowBehind(r) => RowBehind(r)'
      BY <1>0, <1>2, <2>2 DEF RowBehind, ClocksTyped, ClocksOrdered, HostTick, Steps, episodeVars, HostTables,
        OverheadTables, AnomalyTables, DumpTables, EpisodeTables, AllTables
    <3> QED
      BY <1>2, <2>2, <3>1, <3>2, QuietStep DEF HostTick
  <2> QED
    BY <2>1, <2>2
<1>3. CASE OverheadTick
  <2>0. /\ step = "overhead" /\ step' = "feature"
        /\ UNCHANGED <<clock, now, interval, lastHost, ordinal, inDeep, nextDump, drained>>
    BY <1>3 DEF OverheadTick, episodeVars
  <2>1. CASE now >= next.overhead
    <3> DEFINE rows == {Row("proc_overhead", now, NoName, 0)} \cup RowsOf("bpf_stats", now)
    <3>1. /\ next' = [next EXCEPT !.overhead = now + interval.host] /\ took' = took
          /\ InsertRows(rows, {})
      BY <1>3, <2>1 DEF OverheadTick
    <3>2. \A r \in rows : r.table \in OverheadTables /\ r.ts = now /\ r.ordinal = ordinal
      BY StampedRows DEF Row, OverheadTables
    <3> HIDE DEF rows
    <3>3. ClockInv'
      <4>1. next' \in [host : Nat, overhead : Nat, feature : Nat] /\ next'.host = next.host
        BY <1>0, <1>s, <3>1 DEF ClocksTyped
      <4> QED
        BY <1>0, <2>0, <3>1, <4>1 DEF ClockInv, ClocksTyped, ClocksOrdered, Steps
    <3>4. ASSUME NEW r \in stored PROVE RowBehind(r)'
      <4>1. RowBehind(r)
        BY <1>0
      <4>2. next'.host = next.host /\ next'.feature = next.feature
        BY <1>0, <3>1 DEF ClocksTyped
      <4> QED
        BY <2>0, <3>1, <4>1, <4>2 DEF RowBehind
    <3>5. ASSUME NEW r \in rows PROVE RowBehind(r)'
      <4>1. now \in Nat /\ ordinal \in Nat
        BY <1>0 DEF ClocksTyped
      <4> QED
        BY <2>0, <3>2, <4>1
           DEF RowBehind, HostTables, OverheadTables, AnomalyTables, DumpTables, EpisodeTables, AllTables
    <3>6. ASSUME NEW r \in rows, NEW q \in stored, SameKey(r, q)
          PROVE  FALSE
      <4>1. r.table \in OverheadTables /\ r.ts = now
        BY <3>2
      <4>2. q.table = r.table /\ q.ts = r.ts
        BY <3>6, <4>1, KeyParts DEF AllTables
      <4>3. q.ts < now
        BY <1>0, <2>0, <4>1, <4>2 DEF RowBehind
      <4> QED
        BY <1>0, <4>1, <4>2, <4>3 DEF ClocksTyped
    <3>7. RefusalsExplained'
      BY <1>0, <3>1, <3>6, InsertionExplained
    <3> QED
      BY <3>1, <3>3, <3>4, <3>5, <3>7, InsertionAdds DEF DbInv
  <2>2. CASE ~(now >= next.overhead)
    <3>1. UNCHANGED <<next, took, tables>>
      BY <1>3, <2>2 DEF OverheadTick
    <3>2. ClockInv'
      BY <1>0, <2>0, <3>1 DEF ClockInv, ClocksTyped, ClocksOrdered, Steps
    <3>3. \A r \in stored : RowBehind(r) => RowBehind(r)'
      BY <2>0, <3>1 DEF RowBehind
    <3> QED
      BY <3>1, <3>2, <3>3, QuietStep
  <2> QED
    BY <2>1, <2>2
<1>4. CASE FeatureTick
  <2>0. /\ step = "feature" /\ step' = "phase"
        /\ UNCHANGED <<clock, now, interval, lastHost, ordinal, inDeep, nextDump, drained>>
    BY <1>4 DEF FeatureTick, episodeVars
  <2>1. CASE now >= next.feature
    <3> DEFINE rows == {Row("anomaly", lastHost, NoName, 0)} \cup RowsOf("anomaly_tid", lastHost)
    <3>1. /\ took' = [took EXCEPT !.feature = interval.feature]
          /\ next' = [next EXCEPT !.feature = now + interval.feature]
          /\ InsertRows(rows, {})
      BY <1>4, <2>1 DEF FeatureTick
    <3>2. \A r \in rows : r.table \in AnomalyTables /\ r.ts = lastHost /\ r.ordinal = ordinal
      BY StampedRows DEF Row, AnomalyTables
    <3> HIDE DEF rows
    <3>t. took' \in [host : Intervals, feature : Intervals] /\ took'.host = took.host
          /\ took'.feature = interval.feature
      BY <1>0, <3>1 DEF ClocksTyped
    <3>n. next' \in [host : Nat, overhead : Nat, feature : Nat] /\ next'.host = next.host
          /\ next'.feature = now + interval.feature
      BY <1>0, <1>s, <3>1 DEF ClocksTyped
    <3>3. ClockInv'
      BY <1>0, <2>0, <3>t, <3>n DEF ClockInv, ClocksTyped, ClocksOrdered, Steps
    <3>b. next'.host - took'.host + took'.feature <= next'.feature
      BY <1>0, <1>s, <3>t, <3>n DEF ClocksTyped, ClocksOrdered
    <3>4. ASSUME NEW r \in stored PROVE RowBehind(r)'
      <4>1. RowBehind(r)
        BY <1>0
      <4> QED
        BY <2>0, <3>b, <4>1 DEF RowBehind
    <3>5. ASSUME NEW r \in rows PROVE RowBehind(r)'
      <4>1. lastHost \in Nat /\ ordinal \in Nat
        BY <1>0 DEF ClocksTyped
      <4> QED
        BY <2>0, <3>2, <3>b, <4>1
           DEF RowBehind, HostTables, OverheadTables, AnomalyTables, DumpTables, EpisodeTables, AllTables
    \* A second row under the time of a snapshot: the next one is not due yet, but
    \* the features are.
    <3>6. ASSUME NEW r \in rows, NEW q \in stored, SameKey(r, q)
          PROVE  r.table \in AnomalyTables /\ took.feature < took.host
      <4>1. r.table \in AnomalyTables /\ r.ts = lastHost
        BY <3>2
      <4>2. q.table = r.table /\ q.ts = r.ts
        BY <3>6, <4>1, KeyParts DEF AllTables
      <4>3. next.host - took.host + took.feature <= next.feature /\ now < next.host
        BY <1>0, <2>0, <4>1, <4>2 DEF RowBehind
      <4> QED
        BY <1>0, <1>s, <2>1, <4>1, <4>3 DEF ClocksTyped
    <3>7. RefusalsExplained'
      BY <1>0, <3>1, <3>6, InsertionExplained
    <3> QED
      BY <3>1, <3>3, <3>4, <3>5, <3>7, InsertionAdds DEF DbInv
  <2>2. CASE ~(now >= next.feature)
    <3>1. UNCHANGED <<took, next, tables>>
      BY <1>4, <2>2 DEF FeatureTick
    <3>2. ClockInv'
      BY <1>0, <2>0, <3>1 DEF ClockInv, ClocksTyped, ClocksOrdered, Steps
    <3>3. \A r \in stored : RowBehind(r) => RowBehind(r)'
      BY <2>0, <3>1 DEF RowBehind
    <3> QED
      BY <3>1, <3>2, <3>3, QuietStep
  <2> QED
    BY <2>1, <2>2
<1>5. CASE EnterDeep
  <2> DEFINE open == [Row("deep_episodes", 0, NoName, 0) EXCEPT !.ordinal = ordinal']
             rows == {open} \cup (IF inDeep' THEN Series(0, 1, clock') ELSE {})
  <2>0. /\ step \in {"phase", "requests"} /\ ordinal' = ordinal + 1
        /\ clock' = clock + 1 /\ drained' = clock
        /\ UNCHANGED <<step, now, interval, next, lastHost, took>>
        /\ inDeep' = ~\E r \in stored : SameKey(open, r)
        /\ InsertRows(rows, {})
    BY <1>5 DEF EnterDeep, Later
  <2>1. clock' \in Nat /\ ordinal \in Nat /\ ordinal' \in Nat
    BY <1>0, <2>0 DEF ClocksTyped
  <2>2. \A r \in rows :
          /\ r.table \in {"deep_episodes", "deep_series"} /\ r.ts \in Nat
          /\ r.ordinal = ordinal + 1
          /\ r.table = "deep_series" => r.phase = 0
    <3>1. open = [table |-> "deep_episodes", ts |-> 0, sub |-> NoName, phase |-> 0, ordinal |-> ordinal']
      BY DEF Row
    <3>2. \A r \in Series(0, 1, clock') :
             r.table = "deep_series" /\ r.phase = 0 /\ r.ordinal = ordinal' /\ r.ts \in Nat
      BY <2>1, SeriesRows
    <3> QED
      BY <2>0, <3>1, <3>2
  <2> HIDE DEF rows, open
  <2>3. ClockInv'
    <3>1. inDeep' \in BOOLEAN
      BY <2>0
    <3> QED
      BY <1>0, <2>0, <2>1, <3>1 DEF ClockInv, ClocksTyped, ClocksOrdered
  <2>4. ASSUME NEW r \in stored PROVE RowBehind(r)'
    <3>1. RowBehind(r)
      BY <1>0
    <3>2. r.table \in EpisodeTables => r.ordinal < ordinal'
      BY <2>0, <2>1, <3>1 DEF RowBehind
    <3>3. r.ordinal = ordinal' => r.table \notin EpisodeTables
      BY <2>1, <3>1, <3>2 DEF RowBehind
    <3> QED
      BY <2>0, <2>1, <3>1, <3>2, <3>3 DEF RowBehind, EpisodeTables
  <2>5. ASSUME NEW r \in rows PROVE RowBehind(r)'
    BY <2>0, <2>1, <2>2
       DEF RowBehind, HostTables, OverheadTables, AnomalyTables, DumpTables, EpisodeTables, AllTables
  \* The ordinal is new.
  <2>6. ASSUME NEW r \in rows, NEW q \in stored, SameKey(r, q)
        PROVE  FALSE
    <3>1. r.table \in EpisodeTables /\ r.ordinal = ordinal + 1
      BY <2>2 DEF EpisodeTables
    <3>2. q.table = r.table /\ q.ordinal = r.ordinal
      BY <2>6, <3>1, KeyParts DEF AllTables
    <3>3. q.ordinal <= ordinal
      BY <1>0, <3>1, <3>2 DEF RowBehind
    <3> QED
      BY <2>1, <3>1, <3>2, <3>3
  <2>7. RefusalsExplained'
    BY <1>0, <2>0, <2>6, InsertionExplained
  <2> QED
    BY <2>0, <2>3, <2>4, <2>5, <2>7, InsertionAdds DEF DbInv
<1>6. CASE ToTick
  <2>0. /\ step = "phase" /\ step' = "tick" /\ UNCHANGED <<stored, refused>>
        /\ UNCHANGED <<clock, now, interval, next, lastHost, took, ordinal, inDeep, drained>>
    BY <1>6 DEF ToTick, schedule, episodeVars, tables
  <2>1. ClockInv'
    BY <1>0, <2>0 DEF ClockInv, ClocksTyped, ClocksOrdered, Steps
  <2>2. \A r \in stored : RowBehind(r) => RowBehind(r)'
    BY <2>0 DEF RowBehind
  <2> QED
    BY <2>0, <2>1, <2>2, QuietStep DEF tables
<1>7. CASE DeepTick
  <2>0. /\ step = "tick" /\ step' = "requests"
        /\ UNCHANGED <<clock, now, interval, next, lastHost, took, ordinal, inDeep>>
    BY <1>7 DEF DeepTick
  <2>1. CASE inDeep
    <3> DEFINE rows == Series(1, drained + 1, clock) \cup (IF now >= nextDump THEN Drains(now) ELSE {})
    <3>1. drained' = clock /\ InsertRows(rows, {})
      BY <1>7, <2>1 DEF DeepTick
    <3>0. clock \in Nat /\ now \in Nat /\ drained \in Nat /\ drained <= clock /\ ordinal \in Nat
      BY <1>0 DEF ClocksTyped, ClocksOrdered
    <3>2. ASSUME NEW r \in rows
          PROVE  /\ r.ordinal = ordinal /\ r.ts \in Nat
                 /\ \/ r.table = "deep_series" /\ r.ts <= clock
                    \/ r.table \in DumpTables /\ r.ts = now
                 /\ \A q \in stored : RowBehind(q) => ~SameKey(r, q)
      <4>1. CASE r \in Series(1, drained + 1, clock)
        BY <1>0, <2>0, <2>1, <4>1, SeriesNew
      <4>2. CASE r \in Drains(now)
        BY <1>0, <2>0, <2>1, <3>0, <4>2, DumpsNew
      <4> QED
        BY <3>2, <4>1, <4>2
    <3> HIDE DEF rows
    <3>3. ClockInv'
      BY <1>0, <2>0, <3>1 DEF ClockInv, ClocksTyped, ClocksOrdered, Steps
    <3>4. ASSUME NEW r \in stored PROVE RowBehind(r)'
      <4>1. RowBehind(r)
        BY <1>0
      <4> QED
        BY <2>0, <3>0, <3>1, <4>1 DEF RowBehind
    <3>5. ASSUME NEW r \in rows PROVE RowBehind(r)'
      BY <2>0, <3>0, <3>1, <3>2
         DEF RowBehind, HostTables, OverheadTables, AnomalyTables, DumpTables, EpisodeTables, AllTables
    <3>6. \A r \in rows : \A q \in stored : ~SameKey(r, q)
      BY <1>0, <3>2
    <3>7. RefusalsExplained'
      BY <1>0, <3>1, <3>6, InsertionExplained
    <3> QED
      BY <3>1, <3>3, <3>4, <3>5, <3>7, InsertionAdds DEF DbInv
  <2>2. CASE ~inDeep
    <3>1. UNCHANGED <<drained, tables>>
      BY <1>7, <2>2 DEF DeepTick
    <3>2. ClockInv'
      BY <1>0, <2>0, <3>1 DEF ClockInv, ClocksTyped, ClocksOrdered, Steps
    <3>3. \A r \in stored : RowBehind(r) => RowBehind(r)'
      BY <2>0, <2>2, <3>1 DEF RowBehind
    <3> QED
      BY <3>1, <3>2, <3>3, QuietStep
  <2> QED
    BY <2>1, <2>2
<1>8. CASE Finalize
  <2> DEFINE flows == RowsOf("deep_net_flow", 0)
             rows == Series(1, drained + 1, clock) \cup Drains(clock') \cup flows
                       \cup RowsOf("deep_offcpu", 0)
  <2>0. /\ inDeep /\ inDeep' = FALSE /\ clock' = clock + 1 /\ drained' = clock
        /\ UNCHANGED <<step, now, interval, next, lastHost, took, ordinal>>
    BY <1>8 DEF Finalize, Later
  <2>1. PICK twice \in {{}, flows} : InsertRows(rows, twice)
    BY <1>8 DEF Finalize
  <2>2. clock \in Nat /\ clock' \in Nat /\ now \in Nat /\ ordinal \in Nat /\ now < clock'
    BY <1>0, <2>0 DEF ClocksTyped, ClocksOrdered
  <2>3. ASSUME NEW r \in rows
        PROVE  /\ r.table \in EpisodeTables /\ r.ordinal = ordinal /\ r.ts \in Nat
               /\ r.table # "deep_net_flow" =>
                    \A q \in stored : RowBehind(q) => ~SameKey(r, q)
    <3>1. CASE r \in Series(1, drained + 1, clock)
      BY <1>0, <2>0, <3>1, SeriesNew DEF EpisodeTables
    <3>2. CASE r \in Drains(clock')
      BY <1>0, <2>0, <2>2, <3>2, DumpsNew DEF EpisodeTables
    <3>3. CASE r \in flows
      BY <3>3, StampedRows DEF EpisodeTables
    <3>4. CASE r \in RowsOf("deep_offcpu", 0)
      <4>1. r.table = "deep_offcpu" /\ r.ts = 0 /\ r.ordinal = ordinal
        BY <3>4, StampedRows
      <4>2. r.table \in AllTables /\ r.table \in EpisodeTables
        BY <4>1 DEF AllTables, EpisodeTables
      <4>3. ASSUME NEW q \in stored, RowBehind(q), SameKey(r, q)
            PROVE  FALSE
        <5>1. q.table = "deep_offcpu" /\ q.ordinal = ordinal
          BY <4>1, <4>2, <4>3, KeyParts
        <5> QED
          BY <2>0, <4>3, <5>1 DEF RowBehind
      <4> QED
        BY <4>1, <4>2, <4>3
    <3> QED
      BY <2>3, <3>1, <3>2, <3>3, <3>4
  <2>4. \A r \in twice : r.table = "deep_net_flow"
    <3>1. \A r \in flows : r.table = "deep_net_flow"
      BY StampedRows
    <3> QED
      BY <2>1, <3>1
  <2> HIDE DEF rows, flows
  <2>5. ClockInv'
    <3>1. ClocksTyped'
      BY <1>0, <2>0, <2>2 DEF ClocksTyped
    <3>2. ClocksOrdered'
      BY <1>0, <2>0, <2>2 DEF ClocksTyped, ClocksOrdered
    <3> QED
      BY <3>1, <3>2 DEF ClockInv
  <2>6. ASSUME NEW r \in stored PROVE RowBehind(r)'
    <3>1. RowBehind(r)
      BY <1>0
    <3> QED
      BY <2>0, <3>1 DEF RowBehind
  <2>7. ASSUME NEW r \in rows PROVE RowBehind(r)'
    BY <2>0, <2>2, <2>3
       DEF RowBehind, HostTables, OverheadTables, AnomalyTables, DumpTables, EpisodeTables, AllTables
  <2>8. RefusalsExplained'
    <3>1. \A r \in rows : \A q \in stored : SameKey(r, q) => r.table = "deep_net_flow"
      BY <1>0, <2>3
    <3> QED
      BY <1>0, <2>1, <2>4, <3>1, InsertionExplained
  <2> QED
    BY <2>1, <2>5, <2>6, <2>7, <2>8, InsertionAdds DEF DbInv
<1>9. CASE Sleep
  <2>0. /\ step = "requests" /\ step' = "top" /\ UNCHANGED <<stored, refused>>
        /\ UNCHANGED <<clock, now, interval, next, lastHost, took, ordinal, inDeep, drained>>
    BY <1>9 DEF Sleep, schedule, episodeVars, tables
  <2>1. ClockInv'
    BY <1>0, <2>0 DEF ClockInv, ClocksTyped, ClocksOrdered, Steps
  <2>2. \A r \in stored : RowBehind(r) => RowBehind(r)'
    BY <2>0 DEF RowBehind
  <2> QED
    BY <2>0, <2>1, <2>2, QuietStep DEF tables
<1>10. CASE UNCHANGED dbVars
  BY <1>0, <1>10 DEF DbInv, ClockInv, ClocksTyped, ClocksOrdered, RowBehind, RefusalsExplained,
    dbVars, schedule, episodeVars, tables
<1> QED
  BY <1>1, <1>2, <1>3, <1>4, <1>5, <1>6, <1>7, <1>8, <1>9, <1>10 DEF DbNext

\* Rows are refused for three reasons only, whatever the intervals, however they are
\* reloaded and however many episodes there are: features taken more often than
\* snapshots, interfaces or GPUs without a name, a flow met twice.
THEOREM RefusalsKnown == DbSpec => []RefusalsExplained
<1>1. DbInit => DbInv
  BY DbStarts
<1>2. DbInv /\ [DbNext]_dbVars => DbInv'
  BY DbStep
<1>3. DbInv => RefusalsExplained
  BY DEF DbInv
<1> QED
  BY <1>1, <1>2, <1>3, PTL DEF DbSpec

\* The bound on the time: an iteration begins below it, and reads the clock once for
\* the snapshot and twice for an episode.
TimeBounded ==
  /\ clock <= MaxTime + 1 + 2 * ordinal
  /\ inDeep => clock <= MaxTime + 2 * ordinal /\ ordinal > 0
  /\ step = "host" => clock <= MaxTime
  /\ ordinal \in 0..MaxOrdinal /\ nextDump \in Nat

\* The bound holds after a step of the loop.
LEMMA TimeStep == DbInv /\ TimeBounded /\ [DbNext]_dbVars => TimeBounded'
<1> SUFFICES ASSUME DbInv, TimeBounded, [DbNext]_dbVars PROVE TimeBounded'
  OBVIOUS
<1>0. /\ clock \in Nat /\ now \in Nat /\ ordinal \in Nat /\ inDeep \in BOOLEAN
      /\ interval.host \in Nat /\ nextDump \in Nat /\ ordinal <= MaxOrdinal
      /\ MaxTime \in Nat /\ MaxOrdinal \in Nat
      /\ clock <= MaxTime + 1 + 2 * ordinal
      /\ inDeep => clock <= MaxTime + 2 * ordinal /\ ordinal > 0
      /\ step = "host" => clock <= MaxTime
  BY Spans, DbConstants DEF DbInv, ClockInv, ClocksTyped, TimeBounded
<1>1. CASE Iterate
  <2>1. /\ step' = "host" /\ clock < MaxTime /\ clock' = clock + 1
        /\ UNCHANGED <<ordinal, inDeep, nextDump>>
    BY <1>1 DEF Iterate, Later, episodeVars
  <2> QED
    BY <1>0, <2>1 DEF TimeBounded
<1>2. CASE HostTick
  <2>1. /\ step = "host" /\ step' = "overhead" /\ UNCHANGED <<ordinal, inDeep, nextDump>>
        /\ clock' = clock \/ clock' = clock + 1
    BY <1>2 DEF HostTick, Later, episodeVars
  <2> QED
    BY <1>0, <2>1 DEF TimeBounded
<1>3. CASE OverheadTick \/ FeatureTick \/ ToTick \/ Sleep
  <2>1. step' # "host" /\ UNCHANGED <<clock, ordinal, inDeep, nextDump>>
    BY <1>3 DEF OverheadTick, FeatureTick, ToTick, Sleep, episodeVars
  <2> QED
    BY <1>0, <2>1 DEF TimeBounded
<1>4. CASE EnterDeep
  <2>1. /\ ~inDeep /\ ordinal < MaxOrdinal /\ clock' = clock + 1 /\ ordinal' = ordinal + 1
        /\ nextDump' = 0 /\ step' # "host"
    BY <1>4 DEF EnterDeep, Later
  <2> QED
    BY <1>0, <2>1 DEF TimeBounded
<1>5. CASE DeepTick
  <2>1. /\ step' = "requests" /\ UNCHANGED <<clock, ordinal, inDeep>>
        /\ nextDump' = nextDump \/ nextDump' = now + interval.host
    BY <1>5 DEF DeepTick
  <2> QED
    BY <1>0, <2>1 DEF TimeBounded
<1>6. CASE Finalize
  <2>1. /\ inDeep /\ ~inDeep' /\ clock' = clock + 1 /\ step' # "host"
        /\ UNCHANGED <<ordinal, nextDump>>
    BY <1>6 DEF Finalize, Later
  <2> QED
    BY <1>0, <2>1 DEF TimeBounded
<1>7. CASE UNCHANGED dbVars
  BY <1>0, <1>7 DEF dbVars, TimeBounded
<1> QED
  BY <1>1, <1>2, <1>3, <1>4, <1>5, <1>6, <1>7 DEF DbNext

\* The clocks, intervals and ordinals of the loop keep the shape the tables rely on.
THEOREM DbTypeCorrect == DbSpec => []DbTypeOK
<1>1. DbInit => DbInv /\ TimeBounded
  BY DbStarts, DbConstants DEF DbInit, TimeBounded
<1>2. DbInv /\ TimeBounded /\ [DbNext]_dbVars => DbInv' /\ TimeBounded'
  BY DbStep, TimeStep
<1>3. DbInv /\ TimeBounded => DbTypeOK
  <2> SUFFICES ASSUME DbInv, TimeBounded PROVE DbTypeOK
    OBVIOUS
  <2>1. clock <= MaxTime + 2 * MaxOrdinal + 1
    BY DbConstants DEF DbInv, ClockInv, ClocksTyped, TimeBounded
  <2> QED
    BY <2>1, DbConstants
       DEF DbInv, ClockInv, ClocksTyped, ClocksOrdered, TimeBounded, DbTypeOK, Times
<1> QED
  BY <1>1, <1>2, <1>3, PTL DEF DbSpec

---------------------------------------------------------------------------
(* Snapshots: what was not read is not shown. *)

\* The groups whose fields are read together or not at all.
Whole == {"states", "status", "io", "sched"}

\* The struct, the row and the document are those of what the last tick read.
SnapshotInv ==
  /\ group \in DOMAIN Groups
  /\ group \in Whole => read \in {{}, All(The.fields)}
  /\ group \in {"cpu", "memory"} => read \subseteq All(The.fields)
  /\ snapshot = Filled(read, tick) /\ row = Written(snapshot) /\ document = ToJson(snapshot)

\* The lists of the groups.
LEMMA Layouts ==
  /\ DOMAIN Groups = {"totals", "load", "activity", "psi", "mem", "vm", "disk", "gpu", "tcp", "udp",
                      "states", "cpu", "memory", "status", "io", "sched"}
  /\ Groups["psi"] = Masked(Pressure) /\ Groups["mem"] = Masked(Mem) /\ Groups["vm"] = Masked(Vm)
  /\ Groups["gpu"] = GpuGroup /\ Groups["disk"] = DiskGroup
  /\ Groups["totals"] = Unmasked(Totals) /\ Groups["load"] = Unmasked(LoadAverage)
  /\ Groups["activity"] = Unmasked(Activity) /\ Groups["tcp"] = Unmasked(Tcp)
  /\ Groups["udp"] = Unmasked(UdpAndMem)
  /\ Groups["states"] = Flagged(TcpStates) /\ Groups["cpu"] = Flagged(CgroupCpu)
  /\ Groups["memory"] = Flagged(CgroupMemory) /\ Groups["status"] = Flagged(ProcStatus)
  /\ Groups["io"] = Flagged(ProcIo) /\ Groups["sched"] = Flagged(ProcSched)
  BY DEF Groups

\* A list that names no field twice.
Distinct(fields) ==
  /\ DOMAIN fields \subseteq Nat \ {0}
  /\ \A i, j \in DOMAIN fields : fields[i] = fields[j] => i = j

\* The lists whose bits are counted do not.
LEMMA NamedOnce ==
  Distinct(Pressure) /\ Distinct(Mem) /\ Distinct(Vm) /\ Distinct(Disk) /\ Distinct(Gpu)
<1>1. Distinct(Pressure)
  BY DEF Distinct, Pressure
<1>2. Distinct(Mem)
  BY DEF Distinct, Mem
<1>3. Distinct(Vm)
  BY DEF Distinct, Vm
<1>4. Distinct(Gpu)
  BY DEF Distinct, Gpu
<1>5. Distinct(Disk)
  BY DEF Distinct, Disk
<1> QED
  BY <1>1, <1>2, <1>3, <1>4, <1>5

\* What a source answers is some of the fields, or none.
LEMMA PartsOf ==
  ASSUME NEW fields, NEW answer \in Found(Each(fields))
  PROVE  answer \subseteq All(fields)
<1>1. ASSUME NEW out
      PROVE  UNION (Each(fields) \ out) \subseteq All(fields)
  BY DEF Each
<1> QED
  BY <1>1 DEF Found

\* The invariant holds at first and after every tick.
LEMMA SnapshotStep ==
  /\ SnapshotsInit => SnapshotInv
  /\ SnapshotInv /\ [SnapshotsNext]_snapshotVars => SnapshotInv'
<1>1. ASSUME SnapshotsInit PROVE SnapshotInv
  BY <1>1 DEF SnapshotsInit, SnapshotInv
<1>2. ASSUME SnapshotInv, InitGpu PROVE SnapshotInv'
  <2>1. UNCHANGED <<group, tick, read, snapshot, row, document>>
    BY <1>2 DEF InitGpu
  <2> QED
    BY <1>2, <2>1 DEF SnapshotInv, The, Filled, Written, ToJson
<1>3. ASSUME SnapshotInv, HostTickOf PROVE SnapshotInv'
  <2>1. /\ read' \in FoundIn(group) /\ group' = group /\ group \in DOMAIN Groups
        /\ snapshot' = Filled(read', tick') /\ row' = Written(snapshot')
        /\ document' = ToJson(snapshot')
    BY <1>3 DEF HostTickOf, SnapshotInv
  <2>2. group \in Whole => read' \in {{}, All(Groups[group].fields)}
    <3>1. CASE group \in Whole
      BY <2>1, <3>1 DEF FoundIn, Whole
    <3> QED
      BY <3>1
  <2>3. group \in {"cpu", "memory"} => read' \subseteq All(Groups[group].fields)
    <3>1. CASE group \in {"cpu", "memory"}
      <4>1. read' \in Found(Each(Groups[group].fields))
        BY <2>1, <3>1 DEF FoundIn
      <4> QED
        BY <4>1, PartsOf
    <3> QED
      BY <3>1
  <2>4. The' = The /\ The = Groups[group]
    BY <2>1 DEF The
  <2>5. Filled(read', tick') = Filled(read, tick)' /\ Written(snapshot') = Written(snapshot)'
    BY <2>4 DEF Filled, Written
  <2> QED
    BY <2>1, <2>2, <2>3, <2>4, <2>5 DEF SnapshotInv
<1>4. ASSUME SnapshotInv, UNCHANGED snapshotVars PROVE SnapshotInv'
  BY <1>4 DEF SnapshotInv, snapshotVars, The, Filled, Written, ToJson
<1> QED
  BY <1>1, <1>2, <1>3, <1>4 DEF SnapshotsNext

\* The bits and the columns of a group whose lists agree.
LEMMA MaskOf ==
  ASSUME SnapshotInv, NEW fields, NEW sets, NEW asks, The = Straight(fields, sets, asks), NEW b
  PROVE  b \in snapshot.mask <=> \E j \in DOMAIN fields : fields[j] \in read /\ b = sets[j]
<1>1. The.fields = fields /\ The.sets = sets
  BY DEF Straight
<1>2. snapshot.mask = {sets[j] : j \in {k \in DOMAIN fields : fields[k] \in read}}
  BY <1>1 DEF SnapshotInv, Filled
<1> QED
  BY <1>2

LEMMA ColumnOf ==
  ASSUME SnapshotInv, NEW fields, NEW sets, NEW asks, The = Straight(fields, sets, asks),
         NEW i \in DOMAIN fields
  PROVE  /\ row[i] = IF asks[i] \in snapshot.mask \cup {Plain}
                     THEN snapshot.value[fields[i]] ELSE SqlNull
         /\ snapshot.value[fields[i]] =
              IF fields[i] \in read THEN <<LineOf(fields[i], read), tick>> ELSE Zero
<1>1. /\ The.fields = fields /\ The.columns = fields /\ The.bound = fields
      /\ The.asks = asks
  BY DEF Straight
<1>2. row = Written(snapshot) /\ snapshot = Filled(read, tick)
  BY DEF SnapshotInv
<1>3. row[i] = IF asks[i] \in snapshot.mask \cup {Plain}
               THEN snapshot.value[fields[i]] ELSE SqlNull
  BY <1>1, <1>2 DEF Written
<1>4. fields[i] \in All(fields)
  BY DEF All
<1> QED
  BY <1>1, <1>2, <1>3, <1>4 DEF Filled

\* A bit of its own is set exactly if the field was read.
LEMMA BitOfField ==
  ASSUME SnapshotInv, NEW fields, Distinct(fields), NEW asks,
         The = Straight(fields, OwnBit(fields), asks), NEW i \in DOMAIN fields
  PROVE  i - 1 \in snapshot.mask \cup {Plain} <=> fields[i] \in read
<1>1. i - 1 \in snapshot.mask <=> \E j \in DOMAIN fields : fields[j] \in read /\ i - 1 = OwnBit(fields)[j]
  BY MaskOf
<1>2. \A j \in DOMAIN fields : OwnBit(fields)[j] = j - 1
  BY DEF OwnBit
<1>3. \A j \in DOMAIN fields : j \in Nat \ {0}
  BY DEF Distinct
<1>4. ASSUME NEW j \in DOMAIN fields, fields[j] \in read, i - 1 = j - 1
      PROVE  fields[i] \in read
  <2>1. i = j
    BY <1>3, <1>4
  <2> QED
    BY <1>4, <2>1
<1>5. i - 1 # Plain
  BY <1>3 DEF Plain
<1> QED
  BY <1>1, <1>2, <1>4, <1>5

\* A bit a field: pressure, memory and vmstat.
LEMMA MaskedShown ==
  ASSUME SnapshotInv, group \in {"psi", "mem", "vm"},
         NEW fields, Distinct(fields), The = Masked(fields), NEW i \in DOMAIN fields
  PROVE  OwnColumn(i)
<1>1. The = Straight(fields, OwnBit(fields), OwnBit(fields)) /\ The.columns = fields
  BY DEF Masked, Straight
<1>2. OwnBit(fields)[i] = i - 1
  BY DEF OwnBit
<1>3. OwnBit(fields)[i] \in snapshot.mask \cup {Plain} <=> fields[i] \in read
  BY <1>1, <1>2, BitOfField
<1>4. /\ row[i] = IF OwnBit(fields)[i] \in snapshot.mask \cup {Plain}
                  THEN snapshot.value[fields[i]] ELSE SqlNull
      /\ snapshot.value[fields[i]] =
           IF fields[i] \in read THEN <<LineOf(fields[i], read), tick>> ELSE Zero
  BY <1>1, ColumnOf
<1>5. ~ZeroIfUnread(fields[i])
  BY DEF ZeroIfUnread
<1> QED
  BY <1>1, <1>3, <1>4, <1>5 DEF OwnColumn

\* The columns of host_disk before the one its INSERT is out of step at.
LEMMA DiskShown ==
  ASSUME SnapshotInv, group = "disk", The = DiskGroup, NEW i \in 1..4
  PROVE  OwnColumn(i)
<1>1. PICK p \in DOMAIN Disk :
        /\ i \in DOMAIN The.columns /\ i \in DOMAIN The.bound
        /\ The.columns[i] = Disk[p] /\ The.bound[i] = Disk[p] /\ The.asks[i] = p - 1
  <2>1. CASE i = 1
    BY <2>1 DEF DiskGroup, Disk
  <2>2. CASE i = 2
    BY <2>2 DEF DiskGroup, Disk
  <2>3. CASE i = 3
    BY <2>3 DEF DiskGroup, Disk
  <2>4. CASE i = 4
    BY <2>4 DEF DiskGroup, Disk
  <2> QED
    BY <2>1, <2>2, <2>3, <2>4
<1>2. The.fields = Disk /\ The.sets = OwnBit(Disk)
  BY DEF DiskGroup
<1>3. row = Written(snapshot) /\ snapshot = Filled(read, tick)
  BY DEF SnapshotInv
<1>4. p - 1 \in snapshot.mask <=> Disk[p] \in read
  <2>1. snapshot.mask = {OwnBit(Disk)[j] : j \in {k \in DOMAIN Disk : Disk[k] \in read}}
    BY <1>2, <1>3 DEF Filled
  <2>2. \A j \in DOMAIN Disk : OwnBit(Disk)[j] = j - 1
    BY DEF OwnBit
  <2>3. \A j \in DOMAIN Disk : j \in Nat \ {0}
    BY NamedOnce DEF Distinct
  <2>4. ASSUME NEW j \in DOMAIN Disk, p - 1 = j - 1  PROVE j = p
    BY <2>3, <2>4
  <2> QED
    BY <2>1, <2>2, <2>4
<1>5. p - 1 # Plain
  <2>1. p \in Nat \ {0}
    BY NamedOnce DEF Distinct
  <2> QED
    BY <2>1 DEF Plain
<1>6. row[i] = IF p - 1 \in snapshot.mask \cup {Plain} THEN snapshot.value[Disk[p]] ELSE SqlNull
  BY <1>1, <1>3 DEF Written
<1>7. snapshot.value[Disk[p]] = IF Disk[p] \in read THEN <<LineOf(Disk[p], read), tick>> ELSE Zero
  <2>1. Disk[p] \in All(The.fields)
    BY <1>2 DEF All
  <2> QED
    BY <1>3, <2>1 DEF Filled
<1>8. ~ZeroIfUnread(The.columns[i])
  BY DEF ZeroIfUnread
<1> QED
  BY <1>1, <1>4, <1>5, <1>6, <1>7, <1>8 DEF OwnColumn

\* A bit a field, which only some columns ask for: a GPU.
LEMMA GpuShown ==
  ASSUME SnapshotInv, group = "gpu", The = GpuGroup, NEW i \in DOMAIN Gpu
  PROVE  OwnColumn(i)
<1> DEFINE asks == [j \in DOMAIN Gpu |-> IF j - 1 \in GpuAsks THEN j - 1 ELSE Plain]
<1>1. The = Straight(Gpu, OwnBit(Gpu), asks) /\ The.columns = Gpu
  BY DEF GpuGroup, Straight
<1>2. asks[i] = IF i - 1 \in GpuAsks THEN i - 1 ELSE Plain
  OBVIOUS
<1> HIDE DEF asks
<1>3. i - 1 \in snapshot.mask \cup {Plain} <=> Gpu[i] \in read
  BY <1>1, BitOfField, NamedOnce
<1>4. /\ row[i] = IF asks[i] \in snapshot.mask \cup {Plain}
                  THEN snapshot.value[Gpu[i]] ELSE SqlNull
      /\ snapshot.value[Gpu[i]] = IF Gpu[i] \in read THEN <<LineOf(Gpu[i], read), tick>> ELSE Zero
  BY <1>1, ColumnOf
<1>5. ZeroIfUnread(Gpu[i]) <=> i - 1 \notin GpuAsks
  <2>1. \A j \in DOMAIN Gpu : Gpu[j] = Gpu[i] => j = i
    BY NamedOnce DEF Distinct
  <2> QED
    BY <2>1 DEF ZeroIfUnread
<1>6. CASE i - 1 \in GpuAsks
  BY <1>1, <1>2, <1>3, <1>4, <1>5, <1>6 DEF OwnColumn
<1>7. CASE i - 1 \notin GpuAsks
  <2>1. asks[i] \in snapshot.mask \cup {Plain}
    BY <1>2, <1>7
  <2> QED
    BY <1>1, <1>4, <1>5, <1>7, <2>1 DEF OwnColumn
<1> QED
  BY <1>6, <1>7

\* No bit at all: what was not read is zero.
LEMMA UnmaskedShown ==
  ASSUME SnapshotInv, group \in {"totals", "load", "activity", "tcp", "udp"},
         NEW fields, The = Unmasked(fields), NEW i \in DOMAIN fields
  PROVE  OwnColumn(i)
<1>1. The = Straight(fields, NoBit(fields), NoBit(fields)) /\ The.columns = fields
  BY DEF Unmasked, Straight
<1>2. NoBit(fields)[i] = Plain
  BY DEF NoBit
<1>3. /\ row[i] = snapshot.value[fields[i]]
      /\ snapshot.value[fields[i]] =
           IF fields[i] \in read THEN <<LineOf(fields[i], read), tick>> ELSE Zero
  BY <1>1, <1>2, ColumnOf
<1>4. ZeroIfUnread(fields[i])
  BY DEF ZeroIfUnread
<1> QED
  BY <1>1, <1>3, <1>4 DEF OwnColumn

\* One bit for all the fields: the states of sockets, a cgroup and a process.
LEMMA FlaggedShown ==
  ASSUME SnapshotInv, group \in Whole \cup {"cpu", "memory"},
         NEW fields, The = Flagged(fields), NEW i \in DOMAIN fields
  PROVE  OwnColumn(i)
<1>1. /\ The = Straight(fields, OneBit(fields), OneBit(fields))
      /\ The.columns = fields /\ The.fields = fields
  BY DEF Flagged, Straight
<1>2. \A j \in DOMAIN fields : OneBit(fields)[j] = 0
  BY DEF OneBit
<1>3. 0 \in snapshot.mask <=> \E j \in DOMAIN fields : fields[j] \in read /\ 0 = OneBit(fields)[j]
  BY <1>1, MaskOf
<1>4. OneBit(fields)[i] \in snapshot.mask \cup {Plain} <=> \E j \in DOMAIN fields : fields[j] \in read
  BY <1>2, <1>3 DEF Plain
<1>5. /\ row[i] = IF OneBit(fields)[i] \in snapshot.mask \cup {Plain}
                  THEN snapshot.value[fields[i]] ELSE SqlNull
      /\ snapshot.value[fields[i]] =
           IF fields[i] \in read THEN <<LineOf(fields[i], read), tick>> ELSE Zero
  BY <1>1, ColumnOf
<1>6. CASE group \in Whole
  <2>1. ~ZeroIfUnread(fields[i])
    BY <1>6 DEF ZeroIfUnread, Whole
  <2>2. (\E j \in DOMAIN fields : fields[j] \in read) <=> fields[i] \in read
    BY <1>1, <1>6 DEF SnapshotInv, All
  <2> QED
    BY <1>1, <1>4, <1>5, <2>1, <2>2 DEF OwnColumn
<1>7. CASE group \in {"cpu", "memory"}
  <2>1. ZeroIfUnread(fields[i]) <=> read # {}
    BY <1>7 DEF ZeroIfUnread
  <2>2. (\E j \in DOMAIN fields : fields[j] \in read) <=> read # {}
    BY <1>1, <1>7 DEF SnapshotInv, All
  <2> QED
    BY <1>1, <1>4, <1>5, <2>1, <2>2 DEF OwnColumn
<1> QED
  BY <1>6, <1>7

\* Every column of every group but host_disk holds what this tick read for it, however
\* many sources fail at a tick and however often the monitoring of GPUs is set up anew.
THEOREM ColumnsOwn == SnapshotsSpec => []ShownIffRead
<1>1. ASSUME SnapshotInv PROVE ShownIffRead
  <2>1. ASSUME NEW f \in All(The.fields)
        PROVE  document.fields[f] = IF f \in read THEN <<LineOf(f, read), tick>> ELSE Zero
    BY <1>1 DEF SnapshotInv, Filled, ToJson
  <2>2. ASSUME NEW i \in DOMAIN The.columns, group = "disk" => i <= 4
        PROVE  OwnColumn(i)
    <3>1. The = Groups[group]
      BY DEF The
    <3>2. CASE group \in {"psi", "mem", "vm"}
      <4>1. PICK fields : Distinct(fields) /\ The = Masked(fields)
        BY <3>1, <3>2, Layouts, NamedOnce
      <4>2. i \in DOMAIN fields
        BY <2>2, <4>1 DEF Masked, Straight
      <4> QED
        BY <1>1, <3>2, <4>1, <4>2, MaskedShown
    <3>3. CASE group = "gpu"
      <4>1. The = GpuGroup
        BY <3>1, <3>3, Layouts
      <4>2. i \in DOMAIN Gpu
        BY <2>2, <4>1 DEF GpuGroup, Straight
      <4> QED
        BY <1>1, <3>3, <4>1, <4>2, GpuShown
    <3>4. CASE group \in {"totals", "load", "activity", "tcp", "udp"}
      <4>1. PICK fields : The = Unmasked(fields)
        BY <3>1, <3>4, Layouts
      <4>2. i \in DOMAIN fields
        BY <2>2, <4>1 DEF Unmasked, Straight
      <4> QED
        BY <1>1, <3>4, <4>1, <4>2, UnmaskedShown
    <3>5. CASE group \in Whole \cup {"cpu", "memory"}
      <4>1. PICK fields : The = Flagged(fields)
        BY <3>1, <3>5, Layouts DEF Whole
      <4>2. i \in DOMAIN fields
        BY <2>2, <4>1 DEF Flagged, Straight
      <4> QED
        BY <1>1, <3>5, <4>1, <4>2, FlaggedShown
    <3>6. CASE group = "disk"
      <4>1. The = DiskGroup
        BY <3>1, <3>6, Layouts
      <4>2. i \in 1..11
        BY <4>1 DEF DiskGroup
      <4>3. i \in 1..4
        BY <2>2, <3>6, <4>2
      <4> QED
        BY <1>1, <3>6, <4>1, <4>3, DiskShown
    <3> QED
      BY <1>1, <3>2, <3>3, <3>4, <3>5, <3>6, Layouts DEF SnapshotInv, Whole
  <2> QED
    BY <2>1, <2>2 DEF ShownIffRead
<1> QED
  BY <1>1, SnapshotStep, PTL DEF SnapshotsSpec

---------------------------------------------------------------------------
(* The four parts together, as the run Session explores them. *)

\* The run explores the parts by themselves: each behaviour of the whole is one of
\* every part, so that all theorems about the parts hold of what the run checks.
THEOREM PartsOfSession == MCSpec => Spec /\ SessionSpec /\ DbSpec /\ SnapshotsSpec
<1>1. MCInit => Init /\ SessionInit /\ DbInit /\ SnapshotsInit
  BY DEF MCInit
<1>2. [MCNext]_mcVars =>
        [Next]_vars /\ [SessionNext]_sessionVars /\ [DbNext]_dbVars /\ [SnapshotsNext]_snapshotVars
  BY DEF MCNext, mcVars
<1> QED
  BY <1>1, <1>2, PTL DEF MCSpec, Spec, SessionSpec, DbSpec, SnapshotsSpec

\* The transaction, the configuration in use and the loop's times keep the shape the
\* code relies on.
THEOREM WholeTypeCorrect == MCSpec => []MCTypeOK
<1>1. WriterInv => TypeOK
  BY DEF WriterInv
<1> QED
  BY PartsOfSession, SessionTypeCorrect, WriterInvariant, DbTypeCorrect, <1>1, PTL DEF MCTypeOK

=============================================================================
