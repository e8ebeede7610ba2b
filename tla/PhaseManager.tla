---------------------------- MODULE PhaseManager ----------------------------
(***************************************************************************)
(* The BASE/DEEP phase machine: every public operation of PhaseManager as  *)
(* one action, composed with the entry and exit of the DeepCollector.      *)
(*                                                                         *)
(* Three clocks matter.  clock is CLOCK_MONOTONIC.  now is the reading the *)
(* main loop takes once per iteration and passes to TickDeep and to the    *)
(* manual requests.  hostTs is the time of the last host snapshot; it      *)
(* stamps the anomaly features and is the time TickAnomaly works with, and *)
(* it is only as fresh as the host sampling interval.  Neither of the last *)
(* two is ordered against the other.                                       *)
(*                                                                         *)
(* A configuration reload may fall between any two calls, so each call     *)
(* takes its window length and debounce count from a set.                  *)
(***************************************************************************)
EXTENDS DeepCollector

CONSTANTS
  PostWindows,     \* values of window.post_anomaly_seconds, in clock units
  EndDebounces,    \* values of window.end_debounce_samples
  ManualRequests,  \* whether SIGUSR1 and SIGUSR2 are used
  MaxClock,        \* bound: the clock stops here
  MaxQuiet         \* bound: quiet results counted in a row

ASSUME PhaseConstants ==
  /\ PostWindows \in SUBSET (Nat \ {0})
  /\ EndDebounces \in SUBSET (Nat \ {0})
  /\ ManualRequests \in BOOLEAN
  /\ MaxClock \in Nat \ {0}
  /\ MaxQuiet \in Nat

VARIABLES
  phase,           \* phase_
  deepOrdinal,     \* deep_ordinal_
  anomalyStart,    \* anomaly_start_ts_
  anomalyEnd,      \* anomaly_end_ts_, 0 while the window is open
  postDeadline,    \* post_deadline_ns_
  firstFalse,      \* first_false_ts_
  debounce,        \* debounce_
  lastIndicator,   \* time of the newest member of indicators_, 0 if empty
  lastSummary,     \* last_summary_, a sequence of at most one summary
  diagnosis,       \* the episode diagnosis.json describes, 0 if there is none
  clock, now, hostTs,
  running          \* the main loop has not ended

phaseVars == <<phase, deepOrdinal, anomalyStart, anomalyEnd, postDeadline,
               firstFalse, debounce, lastIndicator, lastSummary, diagnosis>>
timeVars == <<clock, now, hostTs, running>>
vars == <<deepVars, phaseVars, timeVars>>

Times == 1..MaxClock

Summaries == [ordinal : Ordinals, start : Times, end : Times,
              deadline : Nat, indicator : Nat]

TypeOK ==
  /\ DeepTypeOK
  /\ phase \in {"BASE", "DEEP"}
  /\ deepOrdinal \in 0..MaxOrdinal
  /\ anomalyStart \in Nat
  /\ anomalyEnd \in Nat
  /\ postDeadline \in Nat
  /\ firstFalse \in Nat
  /\ debounce \in Nat
  /\ lastIndicator \in Nat
  /\ lastSummary \in Seq(Summaries) /\ Len(lastSummary) <= 1
  /\ diagnosis \in 0..MaxOrdinal
  /\ clock \in Times
  /\ now \in 1..clock
  /\ hostTs \in 1..clock
  /\ running \in BOOLEAN

\* The loop samples the host before it runs the first feature tick.
Init ==
  /\ DeepInit
  /\ phase = "BASE"
  /\ deepOrdinal = 0
  /\ anomalyStart = 0 /\ anomalyEnd = 0 /\ postDeadline = 0
  /\ firstFalse = 0 /\ debounce = 0 /\ lastIndicator = 0
  /\ lastSummary = <<>>
  /\ diagnosis = 0
  /\ clock = 1 /\ now = 1 /\ hostTs = 1
  /\ running = TRUE

---------------------------------------------------------------------------
(* The private operations.  Operators named Fault... are seeded faults: each *)
(* is the operator after it with one plausible bug, and the property named   *)
(* in its comment must reject it.                                            *)

\* What EnterDeep sets whether or not the collector then enters.
OpenWindow(post, t) ==
  /\ deepOrdinal < MaxOrdinal
  /\ deepOrdinal' = deepOrdinal + 1
  /\ anomalyStart' = t
  /\ anomalyEnd' = 0
  /\ postDeadline' = t + post
  /\ firstFalse' = 0
  /\ debounce' = 0
  /\ lastIndicator' = 0
  /\ UNCHANGED <<lastSummary, diagnosis>>

\* Fault: a refused entry leaves the phase in DEEP (CollectorFollowsPhase).
FaultEnterDeep(post, t) ==
  /\ OpenWindow(post, t)
  /\ \E ok \in SUBSET Programs :
       /\ \/ \E prof \in BOOLEAN : DeepEnter(deepOrdinal + 1, ok, prof)
          \/ DeepEnterUncovered(ok)
          \/ DeepEnterNoRow(deepOrdinal + 1, ok)
       /\ phase' = "DEEP"

EnterDeep(post, t) ==
  /\ OpenWindow(post, t)
  /\ \E ok \in SUBSET Programs :
       \/ /\ \E prof \in BOOLEAN : DeepEnter(deepOrdinal + 1, ok, prof)
          /\ phase' = "DEEP"
       \/ /\ DeepEnterUncovered(ok) \/ DeepEnterNoRow(deepOrdinal + 1, ok)
          /\ phase' = "BASE"

\* Fault: the collector exits before the summary is written (EpisodesSummarised,
\* ImplementsEpisodeLog).
FaultFinalizeAndExit(t) ==
  LET end == IF anomalyEnd = 0 THEN t ELSE anomalyEnd
  IN  /\ anomalyEnd' = end
      /\ lastSummary' = <<[ordinal |-> deepOrdinal, start |-> anomalyStart,
                           end |-> end, deadline |-> postDeadline,
                           indicator |-> lastIndicator]>>
      /\ diagnosis' \in {diagnosis, deepOrdinal}
      /\ DeepExit
      /\ UNCHANGED episodeRow
      /\ phase' = "BASE"
      /\ UNCHANGED <<deepOrdinal, anomalyStart, postDeadline, firstFalse,
                     debounce, lastIndicator>>

\* Fault: a window the debounce did not close has no end (CollectorTypeOK,
\* WindowOrdered).
FaultNoWindowEnd(t) ==
  /\ lastSummary' = <<[ordinal |-> deepOrdinal, start |-> anomalyStart,
                       end |-> anomalyEnd, deadline |-> postDeadline,
                       indicator |-> lastIndicator]>>
  /\ diagnosis' \in {diagnosis, deepOrdinal}
  /\ SummariseRow
  /\ DeepExit
  /\ phase' = "BASE"
  /\ UNCHANGED <<deepOrdinal, anomalyStart, anomalyEnd, postDeadline, firstFalse,
                 debounce, lastIndicator>>

\* FinalizeDeep followed by ExitDeep; the two never run apart.  The causal
\* model may answer or not, and an answer replaces diagnosis.json.
FinalizeAndExit(t) ==
  LET end == IF anomalyEnd = 0 THEN t ELSE anomalyEnd
  IN  /\ anomalyEnd' = end
      /\ lastSummary' = <<[ordinal |-> deepOrdinal, start |-> anomalyStart,
                           end |-> end, deadline |-> postDeadline,
                           indicator |-> lastIndicator]>>
      /\ diagnosis' \in {diagnosis, deepOrdinal}
      /\ SummariseRow
      /\ DeepExit
      /\ phase' = "BASE"
      /\ UNCHANGED <<deepOrdinal, anomalyStart, postDeadline, firstFalse,
                     debounce, lastIndicator>>

---------------------------------------------------------------------------
(* The public operations. *)

\* A result in BASE: an anomaly opens an episode.
TickAnomalyBase(post) ==
  /\ running
  /\ phase = "BASE"
  /\ EnterDeep(post, hostTs)
  /\ UNCHANGED timeVars

\* Fault: an anomaly in DEEP extends the episode (DeadlineFixed).
FaultExtendDeadline ==
  /\ running
  /\ phase = "DEEP"
  /\ lastIndicator' = hostTs
  /\ debounce' = 0
  /\ firstFalse' = 0
  /\ \E post \in PostWindows : postDeadline' = hostTs + post
  /\ UNCHANGED <<deepVars, phase, deepOrdinal, anomalyStart, anomalyEnd,
                 lastSummary, diagnosis, timeVars>>

\* Fault: an anomaly in DEEP does not restart the debounce (ClosedWindowIsQuiet).
FaultKeepDebounce ==
  /\ running
  /\ phase = "DEEP"
  /\ lastIndicator' = hostTs
  /\ UNCHANGED <<deepVars, phase, deepOrdinal, anomalyStart, anomalyEnd,
                 postDeadline, firstFalse, debounce, lastSummary, diagnosis,
                 timeVars>>

\* An anomalous result in DEEP is recorded and restarts the debounce.
TickAnomalyDeepTrue ==
  /\ running
  /\ phase = "DEEP"
  /\ lastIndicator' = hostTs
  /\ debounce' = 0
  /\ firstFalse' = 0
  /\ UNCHANGED <<deepVars, phase, deepOrdinal, anomalyStart, anomalyEnd,
                 postDeadline, lastSummary, diagnosis, timeVars>>

\* A quiet result, or a model that failed to answer, advances the debounce and
\* closes the window once the count is reached.
TickAnomalyDeepFalse(limit) ==
  /\ running
  /\ phase = "DEEP"
  /\ debounce < MaxQuiet
  /\ firstFalse' = IF debounce = 0 THEN hostTs ELSE firstFalse
  /\ debounce' = debounce + 1
  /\ anomalyEnd' = IF debounce + 1 >= limit /\ anomalyEnd = 0
                   THEN firstFalse' ELSE anomalyEnd
  /\ UNCHANGED <<deepVars, phase, deepOrdinal, anomalyStart, postDeadline,
                 lastIndicator, lastSummary, diagnosis, timeVars>>

TickDeep ==
  /\ running
  /\ phase = "DEEP"
  /\ now >= postDeadline
  /\ FinalizeAndExit(now)
  /\ UNCHANGED timeVars

RequestDeep(post) ==
  /\ running
  /\ ManualRequests
  /\ phase = "BASE"
  /\ EnterDeep(post, now)
  /\ UNCHANGED timeVars

RequestBase ==
  /\ running
  /\ ManualRequests
  /\ phase = "DEEP"
  /\ FinalizeAndExit(now)
  /\ UNCHANGED timeVars

\* Fault: the loop ends without a final sweep (StopServed).
FaultShutdown ==
  /\ running
  /\ running' = FALSE
  /\ UNCHANGED <<deepVars, phaseVars, clock, now, hostTs>>

\* The loop ended: an open episode is closed at a fresh clock reading.
Shutdown ==
  /\ running
  /\ running' = FALSE
  /\ IF phase = "DEEP" THEN FinalizeAndExit(clock)
                       ELSE UNCHANGED <<deepVars, phaseVars>>
  /\ UNCHANGED <<clock, now, hostTs>>

---------------------------------------------------------------------------
(* The caller: time passes, and the loop refreshes its two readings. *)

Advance ==
  /\ running
  /\ clock < MaxClock
  /\ clock' = clock + 1
  /\ UNCHANGED <<deepVars, phaseVars, now, hostTs, running>>

ReadClock ==
  /\ running
  /\ now' = clock
  /\ UNCHANGED <<deepVars, phaseVars, clock, hostTs, running>>

HostSnapshot ==
  /\ running
  /\ hostTs' = clock
  /\ UNCHANGED <<deepVars, phaseVars, clock, now, running>>

Next ==
  \/ \E post \in PostWindows : TickAnomalyBase(post)
  \/ TickAnomalyDeepTrue
  \/ \E limit \in EndDebounces : TickAnomalyDeepFalse(limit)
  \/ TickDeep
  \/ \E post \in PostWindows : RequestDeep(post)
  \/ RequestBase
  \/ Shutdown
  \/ Advance
  \/ ReadClock
  \/ HostSnapshot

Spec == Init /\ [][Next]_vars

---------------------------------------------------------------------------
(* Properties. *)

\* While the machine is in DEEP the kernel side records, a complete pair of
\* system call hooks is attached, and the writer is keyed to the row of this
\* very episode; in BASE nothing records.  EnterDeep, ExitDeep and the two
\* failure paths of DeepCollector::Enter keep the three owners in step.
CollectorFollowsPhase ==
  /\ active <=> phase = "DEEP"
  /\ deepEnabled <=> phase = "DEEP"
  /\ phase = "BASE" => ~profiling
  /\ phase = "DEEP" =>
       /\ \E pair \in {SysPrimary, SysFallback} : Range1(pair) \subseteq deepLinks
       /\ writerOrdinal = deepOrdinal
       /\ episodeRow[deepOrdinal] = "inserted"

\* Every episode row that was inserted is summarised by the time the machine is
\* back in BASE, whichever of deadline, request or shutdown ended the episode,
\* and diagnosis.json only ever describes an episode with a summary.
EpisodesSummarised ==
  /\ \A n \in Ordinals :
       episodeRow[n] = "inserted" => phase = "DEEP" /\ n = deepOrdinal
  /\ diagnosis # 0 => episodeRow[diagnosis] = "summarised"

\* The window handed to the causal model is not inverted; the model abstains on
\* an inverted one.
WindowOrdered ==
  \A i \in 1..Len(lastSummary) : lastSummary[i].start <= lastSummary[i].end

\* "Anomaly results only feed indicators; they never re-time the window": for
\* the whole episode the start and the deadline are those of its entry.
DeadlineFixed ==
  [][phase = "DEEP" /\ phase' = "DEEP" =>
       /\ postDeadline' = postDeadline
       /\ anomalyStart' = anomalyStart
       /\ deepOrdinal' = deepOrdinal]_vars

\* When the debounce closes the window, no anomaly was reported after the time it
\* closes it at, and a closed window is not closed again.
ClosedWindowIsQuiet ==
  [][phase = "DEEP" /\ phase' = "DEEP" /\ anomalyEnd' # anomalyEnd =>
       /\ anomalyEnd = 0
       /\ lastIndicator <= anomalyEnd']_vars

---------------------------------------------------------------------------
\* The abstract log as the database shows it: the open episode is the one the
\* writer is keyed to while the collector is active, whatever phase says.
Log == INSTANCE EpisodeLog WITH
  attempted  <- deepOrdinal,
  current    <- IF active THEN writerOrdinal ELSE 0,
  summarised <- {n \in Ordinals : episodeRow[n] = "summarised"}

\* The phase machine and the writer together implement EpisodeLog: episodes do
\* not overlap, are not reopened, and each opened one is summarised exactly once.
ImplementsEpisodeLog == Log!Spec

=============================================================================
