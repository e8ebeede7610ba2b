------------------------- MODULE PhaseManagerProofs -------------------------
(***************************************************************************)
(* Proofs about PhaseManager: type correctness, the agreement of phase,    *)
(* collector and database, the order of the anomaly window, and the        *)
(* refinement of EpisodeLog.                                               *)
(***************************************************************************)
EXTENDS PhaseManager, TLAPS

\* The times of an open episode are past clock readings, and the end of the
\* window and the first quiet result are real times once they are set.
OpenTimes ==
  phase = "DEEP" =>
    /\ anomalyStart \in 1..clock
    /\ anomalyEnd \in 0..clock
    /\ debounce > 0 => firstFalse \in 1..clock

\* Rows of ordinals not used yet are not in the table.
FreshRows == \A n \in Ordinals : n > deepOrdinal => episodeRow[n] = "absent"

IInv == TypeOK /\ CollectorFollowsPhase /\ EpisodesSummarised /\ OpenTimes /\ FreshRows

---------------------------------------------------------------------------
\* A sequence of programs the kernel accepts throughout is attached throughout.
LEMMA CompleteAttach ==
  ASSUME NEW s, NEW ok, AllAttach(s, ok)
  PROVE  Range1(s) \subseteq AttachedPrefix(s, ok)
<1> SUFFICES ASSUME NEW i \in 1..Len(s) PROVE s[i] \in AttachedPrefix(s, ok)
  BY DEF Range1
<1>1. ASSUME NEW k \in 1..i PROVE s[k] \in ok
  BY <1>1 DEF AllAttach, Range1
<1> QED
  BY <1>1 DEF AttachedPrefix

\* What an attempt attaches are programs of the collector.
LEMMA LinksArePrograms ==
  ASSUME NEW ok \in SUBSET Programs
  PROVE  /\ SyscallLinks(ok) \subseteq Programs
         /\ DeepLinks(ok) \subseteq Programs
<1>1. \A s : AttachedPrefix(s, ok) \subseteq Range1(s)
  BY DEF AttachedPrefix, Range1
<1>2. SyscallLinks(ok) \subseteq Programs
  BY <1>1 DEF SyscallLinks, Programs
<1>3. VfsLinks(ok) \subseteq Programs
  BY <1>1 DEF VfsLinks, Programs
<1> QED
  BY <1>2, <1>3 DEF DeepLinks, Programs

\* A covered attempt leaves a complete pair of system call hooks attached.
LEMMA CoveredPair ==
  ASSUME NEW ok \in SUBSET Programs, SyscallCovered(ok)
  PROVE  \E pair \in {SysPrimary, SysFallback} : Range1(pair) \subseteq DeepLinks(ok)
<1>1. CASE AllAttach(SysPrimary, ok)
  BY <1>1, CompleteAttach DEF DeepLinks, SyscallLinks
<1>2. CASE ~AllAttach(SysPrimary, ok)
  <2>1. AllAttach(SysFallback, ok)
    BY <1>2 DEF SyscallCovered
  <2> QED
    BY <1>2, <2>1, CompleteAttach DEF DeepLinks, SyscallLinks
<1> QED
  BY <1>1, <1>2

---------------------------------------------------------------------------
LEMMA InitInv == Init => IInv
<1> SUFFICES ASSUME Init PROVE IInv
  OBVIOUS
<1>1. TypeOK
  <2>1. DeepTypeOK
    BY DeepConstants DEF Init, DeepInit, DeepTypeOK, Ordinals
  <2>2. lastSummary \in Seq(Summaries) /\ Len(lastSummary) <= 1
    BY DEF Init
  <2>3. /\ clock \in Times /\ now \in 1..clock /\ hostTs \in 1..clock
        /\ deepOrdinal \in 0..MaxOrdinal /\ diagnosis \in 0..MaxOrdinal
    BY PhaseConstants, DeepConstants DEF Init, Times
  <2> QED
    BY <2>1, <2>2, <2>3 DEF Init, TypeOK
<1>2. CollectorFollowsPhase /\ EpisodesSummarised /\ OpenTimes /\ FreshRows
  BY DEF Init, DeepInit, CollectorFollowsPhase, EpisodesSummarised, OpenTimes, FreshRows
<1> QED
  BY <1>1, <1>2 DEF IInv

\* EnterDeep, from BASE and at a past clock reading, keeps the invariant whether
\* the entry succeeds or is refused at either point.
LEMMA EnterDeepInv ==
  ASSUME IInv, phase = "BASE", NEW post \in PostWindows, NEW t \in 1..clock,
         EnterDeep(post, t), UNCHANGED timeVars
  PROVE  IInv'
<1> USE DEF IInv
<1>w. OpenWindow(post, t)
  BY DEF EnterDeep
<1>o. /\ deepOrdinal' = deepOrdinal + 1 /\ deepOrdinal' \in Ordinals
      /\ deepOrdinal \in Nat
  BY <1>w, DeepConstants DEF OpenWindow, TypeOK, Ordinals
<1>t. /\ anomalyStart' = t /\ anomalyEnd' = 0 /\ debounce' = 0
      /\ clock' = clock /\ clock \in Nat
  BY <1>w, PhaseConstants DEF OpenWindow, timeVars, TypeOK, Times
<1>p. ASSUME DeepTypeOK', phase' \in {"BASE", "DEEP"} PROVE TypeOK'
  <2>1. postDeadline' \in Nat
    BY <1>w, PhaseConstants DEF OpenWindow, TypeOK, Times
  <2> QED
    BY <1>p, <1>w, <1>o, <1>t, <2>1, PhaseConstants, DeepConstants
    DEF OpenWindow, timeVars, TypeOK, Times, Ordinals, Summaries
<1>1. ASSUME NEW ok \in SUBSET Programs, NEW prof \in BOOLEAN,
             DeepEnter(deepOrdinal + 1, ok, prof), phase' = "DEEP"
      PROVE  IInv'
  <2> USE DEF DeepEnter
  <2>1. episodeRow' = [episodeRow EXCEPT ![deepOrdinal'] = "inserted"]
    BY <1>1, <1>o
  <2>2. TypeOK'
    <3>1. DeepTypeOK'
      BY <1>1, <1>o, <2>1, LinksArePrograms DEF TypeOK, DeepTypeOK
    <3> QED BY <3>1, <1>1, <1>p
  <2>3. CollectorFollowsPhase'
    <3>1. \E pair \in {SysPrimary, SysFallback} : Range1(pair) \subseteq deepLinks'
      BY <1>1, CoveredPair
    <3>2. episodeRow'[deepOrdinal'] = "inserted"
      BY <2>1, <1>o DEF TypeOK, DeepTypeOK
    <3>3. writerOrdinal' = deepOrdinal' /\ active' /\ deepEnabled'
      BY <1>1, <1>o
    <3> QED BY <1>1, <3>1, <3>2, <3>3 DEF CollectorFollowsPhase
  <2>4. EpisodesSummarised'
    <3>1. \A n \in Ordinals : episodeRow'[n] = "inserted" => n = deepOrdinal'
      BY <2>1, <1>o DEF EpisodesSummarised, TypeOK, DeepTypeOK
    <3>2. diagnosis' = diagnosis
      BY <1>w DEF OpenWindow
    <3>3. diagnosis # 0 => diagnosis # deepOrdinal'
      BY <1>o DEF EpisodesSummarised, FreshRows, TypeOK, Ordinals
    <3> QED
      BY <1>1, <2>1, <3>1, <3>2, <3>3, <1>o DEF EpisodesSummarised, TypeOK, DeepTypeOK, Ordinals
  <2>5. OpenTimes'
    BY <1>t DEF OpenTimes
  <2>6. FreshRows'
    BY <2>1, <1>o, DeepConstants DEF FreshRows, TypeOK, DeepTypeOK, Ordinals
  <2> QED BY <2>2, <2>3, <2>4, <2>5, <2>6
<1>2. ASSUME NEW ok \in SUBSET Programs, phase' = "BASE",
             DeepEnterUncovered(ok) \/ DeepEnterNoRow(deepOrdinal + 1, ok)
      PROVE  IInv'
  <2> USE DEF DeepEnterUncovered, DeepEnterNoRow
  <2>b. ~active /\ ~profiling /\ active \in BOOLEAN /\ profiling \in BOOLEAN
        /\ offcpuFallback \in BOOLEAN
    BY Zenon DEF CollectorFollowsPhase, TypeOK, DeepTypeOK
  <2>c. /\ episodeRow' = episodeRow /\ deepEnabled' = FALSE
        /\ active' = FALSE /\ profiling' = FALSE
        /\ offcpuFallback' \in BOOLEAN
    BY <1>2, <2>b
  <2>d. deepLinks' \subseteq Programs
    BY <1>2, LinksArePrograms DEF TypeOK, DeepTypeOK
  <2>e. writerOrdinal' \in {writerOrdinal, deepOrdinal'}
    BY <1>2, <1>o, <2>b
  <2>1. /\ episodeRow' = episodeRow /\ ~deepEnabled' /\ ~active' /\ ~profiling'
    BY <2>c
  <2>2. TypeOK'
    <3>1. DeepTypeOK'
      <4>1. writerOrdinal' \in Ordinals \cup {-1}
        BY <2>e, <1>o DEF TypeOK, DeepTypeOK
      <4> QED BY <4>1, <2>c, <2>d DEF TypeOK, DeepTypeOK
    <3> QED BY <3>1, <1>2, <1>p
  <2>3. CollectorFollowsPhase'
    BY <1>2, <2>1 DEF CollectorFollowsPhase
  <2>4. EpisodesSummarised' /\ FreshRows'
    BY <1>w, <1>o, <2>1 DEF EpisodesSummarised, FreshRows, OpenWindow, Ordinals
  <2>5. OpenTimes'
    BY <1>2 DEF OpenTimes
  <2> QED BY <2>2, <2>3, <2>4, <2>5
<1> QED
  BY <1>1, <1>2 DEF EnterDeep

---------------------------------------------------------------------------
\* FinalizeDeep and ExitDeep at a past clock reading keep the invariant: the row
\* of the episode is the writer's, so the summary lands in it.
LEMMA FinalizeInv ==
  ASSUME IInv, phase = "DEEP", NEW t \in 1..clock, FinalizeAndExit(t),
         clock' = clock, now' = now, hostTs' = hostTs, running' \in BOOLEAN
  PROVE  IInv'
<1> USE DEF IInv
<1>1. /\ writerOrdinal = deepOrdinal /\ deepOrdinal \in Ordinals
      /\ episodeRow[deepOrdinal] = "inserted"
  <2>1. writerOrdinal = deepOrdinal /\ episodeRow[deepOrdinal] = "inserted"
    BY DEF CollectorFollowsPhase
  <2>2. deepOrdinal \in Ordinals
    BY <2>1, DeepConstants DEF TypeOK, DeepTypeOK, Ordinals
  <2> QED BY <2>1, <2>2
<1>2. episodeRow' = [episodeRow EXCEPT ![deepOrdinal] = "summarised"]
  BY <1>1 DEF FinalizeAndExit, SummariseRow
<1>3. /\ phase' = "BASE" /\ deepOrdinal' = deepOrdinal
      /\ diagnosis' \in {diagnosis, deepOrdinal}
      /\ deepEnabled' = FALSE /\ active' = FALSE /\ profiling' = FALSE
  BY DEF FinalizeAndExit, DeepExit
<1>4. TypeOK'
  <2>1. DeepTypeOK'
    <3>1. deepLinks' \subseteq Programs /\ offcpuFallback' \in BOOLEAN
      BY DEF FinalizeAndExit, DeepExit, TypeOK, DeepTypeOK
    <3>2. writerOrdinal' \in Ordinals \cup {-1}
      BY <1>1 DEF FinalizeAndExit, DeepExit
    <3>3. episodeRow' \in [Ordinals -> {"absent", "inserted", "summarised"}]
      BY <1>2 DEF TypeOK, DeepTypeOK
    <3> QED BY <1>3, <3>1, <3>2, <3>3 DEF DeepTypeOK
  <2>2. clock \in Times /\ Times \subseteq Nat /\ 1..clock \subseteq Times
    BY PhaseConstants DEF TypeOK, Times
  <2>3. anomalyEnd' \in Times
    BY <2>2 DEF FinalizeAndExit, OpenTimes, TypeOK
  <2>4. lastSummary' \in Seq(Summaries) /\ Len(lastSummary') <= 1
    <3>1. [ordinal |-> deepOrdinal, start |-> anomalyStart, end |-> anomalyEnd',
           deadline |-> postDeadline, indicator |-> lastIndicator] \in Summaries
      BY <1>1, <2>2, <2>3 DEF Summaries, OpenTimes, TypeOK
    <3>2. lastSummary' = <<[ordinal |-> deepOrdinal, start |-> anomalyStart,
             end |-> anomalyEnd', deadline |-> postDeadline,
             indicator |-> lastIndicator]>>
      BY DEF FinalizeAndExit
    <3> QED BY <3>1, <3>2
  <2> QED
    BY <1>1, <1>3, <2>1, <2>2, <2>3, <2>4, DeepConstants
    DEF FinalizeAndExit, TypeOK, Ordinals
<1>5. CollectorFollowsPhase'
  BY <1>3 DEF CollectorFollowsPhase
<1>6. EpisodesSummarised'
  BY <1>1, <1>2, <1>3 DEF EpisodesSummarised, TypeOK, DeepTypeOK
<1>7. OpenTimes'
  BY <1>3 DEF OpenTimes
<1>8. FreshRows'
  BY <1>1, <1>2, <1>3, DeepConstants DEF FreshRows, TypeOK, DeepTypeOK, Ordinals
<1> QED
  BY <1>4, <1>5, <1>6, <1>7, <1>8

\* The bookkeeping of a result in DEEP and the passing of time disturb only the
\* times.
LEMMA QuietStepInv ==
  ASSUME IInv, Next,
         UNCHANGED <<deepVars, phase, deepOrdinal, anomalyStart, postDeadline,
                     lastSummary, diagnosis>>,
         TypeOK', OpenTimes'
  PROVE  IInv'
<1> USE DEF IInv
<1>1. /\ phase' = phase /\ deepOrdinal' = deepOrdinal /\ diagnosis' = diagnosis
      /\ deepEnabled' = deepEnabled /\ deepLinks' = deepLinks
      /\ profiling' = profiling /\ active' = active
      /\ writerOrdinal' = writerOrdinal /\ episodeRow' = episodeRow
  BY DEF deepVars
<1>2. CollectorFollowsPhase'
  BY <1>1 DEF CollectorFollowsPhase
<1>3. EpisodesSummarised' /\ FreshRows'
  BY <1>1 DEF EpisodesSummarised, FreshRows
<1> QED
  BY <1>2, <1>3

LEMMA StepInv == IInv /\ [Next]_vars => IInv'
<1> SUFFICES ASSUME IInv, [Next]_vars PROVE IInv'
  OBVIOUS
<1> USE DEF IInv
<1>t. /\ clock \in Nat /\ now \in 1..clock /\ hostTs \in 1..clock
      /\ running \in BOOLEAN /\ clock <= MaxClock /\ debounce \in Nat
  BY PhaseConstants DEF TypeOK, Times
<1>1. ASSUME NEW post \in PostWindows, TickAnomalyBase(post) PROVE IInv'
  BY <1>1, <1>t, EnterDeepInv DEF TickAnomalyBase
<1>2. ASSUME NEW post \in PostWindows, RequestDeep(post) PROVE IInv'
  BY <1>2, <1>t, EnterDeepInv DEF RequestDeep
<1>3. CASE TickDeep
  BY <1>3, <1>t, FinalizeInv DEF TickDeep, timeVars
<1>4. CASE RequestBase
  BY <1>4, <1>t, FinalizeInv DEF RequestBase, timeVars
<1>5. CASE Shutdown
  <2>1. CASE phase = "DEEP"
    <3>1. clock \in 1..clock
      BY <1>t
    <3> QED BY <1>5, <2>1, <3>1, FinalizeInv DEF Shutdown
  <2>2. CASE phase # "DEEP"
    <3>1. UNCHANGED <<deepVars, phaseVars, clock, now, hostTs>> /\ running' = FALSE
      BY <1>5, <2>2 DEF Shutdown
    <3>2. TypeOK' /\ OpenTimes'
      BY <3>1 DEF TypeOK, DeepTypeOK, OpenTimes, deepVars, phaseVars
    <3> QED BY <1>5, <3>1, <3>2, QuietStepInv DEF Next, deepVars, phaseVars
  <2> QED BY <2>1, <2>2
<1>6. CASE TickAnomalyDeepTrue
  <2>1. TypeOK' /\ OpenTimes'
    BY <1>6, <1>t DEF TickAnomalyDeepTrue, TypeOK, DeepTypeOK, OpenTimes, deepVars, timeVars
  <2> QED BY <1>6, <2>1, QuietStepInv DEF TickAnomalyDeepTrue, Next
<1>7. ASSUME NEW limit \in EndDebounces, TickAnomalyDeepFalse(limit) PROVE IInv'
  <2>1. firstFalse' \in 1..clock
    BY <1>7, <1>t DEF TickAnomalyDeepFalse, OpenTimes
  <2>2. anomalyEnd' \in {anomalyEnd, firstFalse'} /\ debounce' = debounce + 1
    BY <1>7 DEF TickAnomalyDeepFalse
  <2>3. TypeOK' /\ OpenTimes'
    BY <1>7, <1>t, <2>1, <2>2
    DEF TickAnomalyDeepFalse, TypeOK, DeepTypeOK, OpenTimes, deepVars, timeVars
  <2> QED BY <1>7, <2>3, QuietStepInv DEF TickAnomalyDeepFalse, Next
<1>8. CASE Advance \/ ReadClock \/ HostSnapshot
  <2>1. /\ UNCHANGED <<deepVars, phaseVars, running>>
        /\ clock' \in {clock, clock + 1} /\ clock' <= MaxClock
        /\ now' \in 1..clock' /\ hostTs' \in 1..clock'
    BY <1>8, <1>t, PhaseConstants DEF Advance, ReadClock, HostSnapshot
  <2>2. TypeOK'
    BY <2>1, <1>t, PhaseConstants DEF TypeOK, DeepTypeOK, deepVars, phaseVars, Times
  <2>3. OpenTimes'
    BY <2>1, <1>t DEF OpenTimes, phaseVars
  <2> QED BY <1>8, <2>1, <2>2, <2>3, QuietStepInv DEF Next, phaseVars
<1>9. CASE UNCHANGED vars
  BY <1>9 DEF vars, deepVars, phaseVars, timeVars, TypeOK, DeepTypeOK,
    CollectorFollowsPhase, EpisodesSummarised, OpenTimes, FreshRows
<1> QED
  BY <1>1, <1>2, <1>3, <1>4, <1>5, <1>6, <1>7, <1>8, <1>9 DEF Next

\* Every reachable state satisfies the inductive invariant.
THEOREM Invariance == Spec => []IInv
BY InitInv, StepInv, PTL DEF Spec

\* Type correctness of the phase machine, its collector and its episode table.
THEOREM TypeCorrect == Spec => []TypeOK
BY Invariance, PTL DEF IInv

\* Phase, kernel flag, hooks and database row agree in every reachable state,
\* whichever programs the kernel refuses and however many episodes there are.
THEOREM PhaseAgreement == Spec => []CollectorFollowsPhase
BY Invariance, PTL DEF IInv

\* No episode is left without its summary by any way of leaving DEEP.
THEOREM NoLostEpisode == Spec => []EpisodesSummarised
BY Invariance, PTL DEF IInv

---------------------------------------------------------------------------
(* The order of the window.  It rests on automatic episodes starting at a   *)
(* host time: host times only grow, so every later one, the first quiet one *)
(* included, is at or after the start, and so is the deadline.              *)

WindowInv ==
  /\ WindowOrdered
  /\ phase = "DEEP" =>
       /\ anomalyStart <= hostTs
       /\ anomalyStart <= postDeadline
       /\ debounce > 0 => anomalyStart <= firstFalse
       /\ anomalyEnd # 0 => anomalyStart <= anomalyEnd

LEMMA FinalizeWindow ==
  ASSUME IInv, WindowInv, phase = "DEEP", NEW t \in 1..clock, anomalyStart <= t,
         FinalizeAndExit(t)
  PROVE  WindowInv'
<1>1. /\ phase' = "BASE"
      /\ lastSummary' = <<[ordinal |-> deepOrdinal, start |-> anomalyStart,
            end |-> IF anomalyEnd = 0 THEN t ELSE anomalyEnd,
            deadline |-> postDeadline, indicator |-> lastIndicator]>>
  BY DEF FinalizeAndExit
<1>2. anomalyStart <= (IF anomalyEnd = 0 THEN t ELSE anomalyEnd)
  BY DEF WindowInv
<1> QED
  BY <1>1, <1>2 DEF WindowInv, WindowOrdered

LEMMA WindowStep ==
  ASSUME ~ManualRequests, IInv, WindowInv, [Next]_vars
  PROVE  WindowInv'
<1>t. /\ clock \in Nat /\ now \in 1..clock /\ hostTs \in 1..clock
      /\ anomalyStart \in Nat /\ postDeadline \in Nat /\ debounce \in Nat
      /\ firstFalse \in Nat /\ anomalyEnd \in Nat
      /\ phase = "DEEP" => anomalyStart \in 1..clock
  BY PhaseConstants DEF IInv, TypeOK, Times, OpenTimes
<1>1. ASSUME NEW post \in PostWindows, TickAnomalyBase(post) PROVE WindowInv'
  <2>1. /\ anomalyStart' = hostTs /\ postDeadline' = hostTs + post
        /\ debounce' = 0 /\ anomalyEnd' = 0 /\ hostTs' = hostTs
        /\ lastSummary' = lastSummary
    BY <1>1 DEF TickAnomalyBase, EnterDeep, OpenWindow, timeVars
  <2> QED BY <1>t, <2>1, PhaseConstants DEF WindowInv, WindowOrdered
<1>2. CASE TickDeep
  <2>1. anomalyStart <= now
    BY <1>2, <1>t DEF TickDeep, WindowInv
  <2> QED BY <1>2, <1>t, <2>1, FinalizeWindow DEF TickDeep
<1>3. CASE Shutdown
  <2>1. CASE phase = "DEEP"
    BY <1>3, <1>t, <2>1, FinalizeWindow DEF Shutdown
  <2>2. CASE phase # "DEEP"
    BY <1>3, <2>2 DEF Shutdown, WindowInv, WindowOrdered, phaseVars
  <2> QED BY <2>1, <2>2
<1>4. CASE TickAnomalyDeepTrue
  BY <1>4, <1>t DEF TickAnomalyDeepTrue, timeVars, WindowInv, WindowOrdered
<1>5. ASSUME NEW limit \in EndDebounces, TickAnomalyDeepFalse(limit) PROVE WindowInv'
  <2>1. /\ firstFalse' = (IF debounce = 0 THEN hostTs ELSE firstFalse)
        /\ anomalyEnd' \in {anomalyEnd, firstFalse'}
        /\ debounce' = debounce + 1
        /\ UNCHANGED <<phase, anomalyStart, postDeadline, lastSummary, hostTs>>
    BY <1>5 DEF TickAnomalyDeepFalse, timeVars
  <2>2. phase = "DEEP" => anomalyStart <= firstFalse'
    BY <1>t, <2>1 DEF WindowInv
  <2> QED BY <1>t, <2>1, <2>2 DEF WindowInv, WindowOrdered
<1>6. CASE Advance \/ ReadClock \/ HostSnapshot
  <2>1. UNCHANGED phaseVars /\ hostTs' \in {hostTs, clock}
    BY <1>6 DEF Advance, ReadClock, HostSnapshot
  <2> QED BY <1>t, <2>1 DEF phaseVars, WindowInv, WindowOrdered
<1>7. CASE UNCHANGED vars
  BY <1>7 DEF vars, phaseVars, timeVars, WindowInv, WindowOrdered
<1>8. ~RequestBase /\ \A post : ~RequestDeep(post)
  BY DEF RequestBase, RequestDeep
<1> QED
  BY <1>1, <1>2, <1>3, <1>4, <1>5, <1>6, <1>7, <1>8 DEF Next

\* Without manual requests the window handed to the causal model is never
\* inverted, at any sampling cadence and across reloads.
THEOREM AutomaticWindowOrdered ==
  ASSUME ~ManualRequests PROVE Spec => []WindowOrdered
<1>1. Init => WindowInv
  BY DEF Init, WindowInv, WindowOrdered
<1>2. IInv /\ WindowInv /\ [Next]_vars => WindowInv'
  BY WindowStep
<1>3. WindowInv => WindowOrdered
  BY DEF WindowInv
<1> QED
  BY <1>1, <1>2, <1>3, Invariance, PTL DEF Spec

---------------------------------------------------------------------------
(* What a result of the anomaly model may do to an open episode. *)

\* An anomaly in DEEP, a quiet result and the passing of time leave the episode's
\* start, deadline and ordinal alone, under any sequence of results and reloads.
THEOREM EpisodeNotRetimed == Spec => DeadlineFixed
<1>1. [Next]_vars =>
        [phase = "DEEP" /\ phase' = "DEEP" =>
           /\ postDeadline' = postDeadline
           /\ anomalyStart' = anomalyStart
           /\ deepOrdinal' = deepOrdinal]_vars
  <2> SUFFICES ASSUME Next, phase = "DEEP", phase' = "DEEP"
               PROVE  UNCHANGED <<postDeadline, anomalyStart, deepOrdinal>>
    OBVIOUS
  <2>1. /\ ~TickDeep /\ ~RequestBase /\ ~Shutdown
        /\ \A post : ~TickAnomalyBase(post) /\ ~RequestDeep(post)
    BY DEF TickDeep, RequestBase, Shutdown, FinalizeAndExit, TickAnomalyBase, RequestDeep
  <2>2. CASE TickAnomalyDeepTrue
    BY <2>2 DEF TickAnomalyDeepTrue
  <2>3. ASSUME NEW limit, TickAnomalyDeepFalse(limit)
        PROVE  UNCHANGED <<postDeadline, anomalyStart, deepOrdinal>>
    BY <2>3 DEF TickAnomalyDeepFalse
  <2>4. CASE Advance \/ ReadClock \/ HostSnapshot
    BY <2>4 DEF Advance, ReadClock, HostSnapshot, phaseVars
  <2> QED
    BY <2>1, <2>2, <2>3, <2>4 DEF Next
<1> QED
  BY <1>1, PTL DEF Spec, DeadlineFixed

\* The newest anomaly is no later than the host time in force, nor than the first
\* quiet result of the run of quiet results after it.
QuietInv ==
  phase = "DEEP" =>
    /\ lastIndicator <= hostTs
    /\ debounce > 0 => lastIndicator <= firstFalse

LEMMA QuietStep ==
  ASSUME IInv, QuietInv, [Next]_vars
  PROVE  QuietInv'
<1>t. /\ clock \in Nat /\ hostTs \in 1..clock /\ lastIndicator \in Nat
      /\ debounce \in Nat /\ firstFalse \in Nat
  BY PhaseConstants DEF IInv, TypeOK, Times
<1>1. ASSUME NEW post, NEW t, EnterDeep(post, t), UNCHANGED timeVars
      PROVE  QuietInv'
  BY <1>1, <1>t DEF EnterDeep, OpenWindow, timeVars, QuietInv
<1>2. ASSUME NEW t, FinalizeAndExit(t)
      PROVE  QuietInv'
  BY <1>2 DEF FinalizeAndExit, QuietInv
<1>3. CASE Shutdown /\ phase # "DEEP"
  BY <1>3 DEF Shutdown, phaseVars, QuietInv
<1>4. CASE TickAnomalyDeepTrue
  BY <1>4, <1>t DEF TickAnomalyDeepTrue, timeVars, QuietInv
<1>5. ASSUME NEW limit, TickAnomalyDeepFalse(limit)
      PROVE  QuietInv'
  BY <1>5, <1>t DEF TickAnomalyDeepFalse, timeVars, QuietInv
<1>6. CASE Advance \/ ReadClock \/ HostSnapshot
  <2>1. UNCHANGED phaseVars /\ hostTs' \in {hostTs, clock}
    BY <1>6 DEF Advance, ReadClock, HostSnapshot
  <2> QED
    BY <1>t, <2>1 DEF phaseVars, QuietInv
<1>7. CASE UNCHANGED vars
  BY <1>7 DEF vars, phaseVars, timeVars, QuietInv
<1> QED
  BY <1>1, <1>2, <1>3, <1>4, <1>5, <1>6, <1>7
  DEF Next, TickAnomalyBase, TickDeep, RequestDeep, RequestBase, Shutdown

\* TickAnomaly closes the window once, and at a time no anomaly was reported after,
\* however results, snapshots and reloads alternate.
THEOREM DebounceSound == Spec => ClosedWindowIsQuiet
<1>1. Init => QuietInv
  BY DEF Init, QuietInv
<1>2. IInv /\ QuietInv /\ [Next]_vars => QuietInv'
  BY QuietStep
<1>3. IInv /\ QuietInv /\ [Next]_vars =>
        [phase = "DEEP" /\ phase' = "DEEP" /\ anomalyEnd' # anomalyEnd =>
           /\ anomalyEnd = 0
           /\ lastIndicator <= anomalyEnd']_vars
  <2> SUFFICES ASSUME IInv, QuietInv, Next,
                      phase = "DEEP", phase' = "DEEP", anomalyEnd' # anomalyEnd
               PROVE  anomalyEnd = 0 /\ lastIndicator <= anomalyEnd'
    OBVIOUS
  <2>1. /\ ~TickDeep /\ ~RequestBase /\ ~Shutdown
        /\ \A post : ~TickAnomalyBase(post) /\ ~RequestDeep(post)
    BY DEF TickDeep, RequestBase, Shutdown, FinalizeAndExit, TickAnomalyBase, RequestDeep
  <2>2. ~TickAnomalyDeepTrue /\ ~Advance /\ ~ReadClock /\ ~HostSnapshot
    BY DEF TickAnomalyDeepTrue, Advance, ReadClock, HostSnapshot, phaseVars
  <2>3. PICK limit \in EndDebounces : TickAnomalyDeepFalse(limit)
    BY <2>1, <2>2 DEF Next
  <2>4. /\ anomalyEnd = 0 /\ anomalyEnd' = firstFalse'
        /\ firstFalse' = IF debounce = 0 THEN hostTs ELSE firstFalse
    BY <2>3 DEF TickAnomalyDeepFalse
  <2>5. debounce \in Nat
    BY DEF IInv, TypeOK
  <2> QED
    BY <2>4, <2>5 DEF QuietInv
<1> QED
  BY <1>1, <1>2, <1>3, Invariance, PTL DEF Spec, ClosedWindowIsQuiet

---------------------------------------------------------------------------
(* The refinement of EpisodeLog. *)

Summarised == {n \in Ordinals : episodeRow[n] = "summarised"}
Current == IF active THEN writerOrdinal ELSE 0

LEMMA FinalizeRefines ==
  ASSUME IInv, phase = "DEEP", NEW t, FinalizeAndExit(t)
  PROVE  Log!Summarise
<1>1. /\ active /\ writerOrdinal = deepOrdinal
      /\ episodeRow[deepOrdinal] = "inserted"
  BY DEF IInv, CollectorFollowsPhase
<1>2. deepOrdinal \in Ordinals /\ deepOrdinal # 0
  BY <1>1, DeepConstants DEF IInv, TypeOK, DeepTypeOK, Ordinals
<1>3. episodeRow' = [episodeRow EXCEPT ![deepOrdinal] = "summarised"]
  BY <1>1, <1>2 DEF FinalizeAndExit, SummariseRow
<1>4. Summarised' = Summarised \cup {deepOrdinal}
  BY <1>2, <1>3 DEF Summarised, IInv, TypeOK, DeepTypeOK
<1>5. ~active' /\ deepOrdinal' = deepOrdinal
  BY DEF FinalizeAndExit, DeepExit
<1> QED
  BY <1>1, <1>2, <1>4, <1>5 DEF Log!Summarise, Summarised

LEMMA EnterRefines ==
  ASSUME IInv, phase = "BASE", NEW post, NEW t, EnterDeep(post, t)
  PROVE  Log!Attempt
<1>1. /\ deepOrdinal' = deepOrdinal + 1 /\ deepOrdinal' \in Ordinals
      /\ deepOrdinal \in Nat
  BY DeepConstants DEF EnterDeep, OpenWindow, IInv, TypeOK, Ordinals
<1>2. ~active
  BY Zenon DEF IInv, CollectorFollowsPhase
<1>3. Summarised' = Summarised /\ Current' \in {0, deepOrdinal'}
  <2>1. ASSUME NEW ok, NEW prof, DeepEnter(deepOrdinal + 1, ok, prof)
        PROVE  Summarised' = Summarised /\ Current' \in {0, deepOrdinal'}
    <3>1. episodeRow' = [episodeRow EXCEPT ![deepOrdinal'] = "inserted"]
      BY <1>1, <2>1 DEF DeepEnter
    <3>2. episodeRow[deepOrdinal'] = "absent"
      BY <1>1 DEF IInv, FreshRows
    <3> QED
      BY <1>1, <2>1, <3>1, <3>2 DEF DeepEnter, Summarised, Current, IInv, TypeOK, DeepTypeOK
  <2>2. ASSUME NEW ok, DeepEnterUncovered(ok) \/ DeepEnterNoRow(deepOrdinal + 1, ok)
        PROVE  Summarised' = Summarised /\ Current' \in {0, deepOrdinal'}
    BY <1>2, <2>2 DEF DeepEnterUncovered, DeepEnterNoRow, Summarised, Current
  <2> QED
    BY <2>1, <2>2 DEF EnterDeep
<1> QED
  BY <1>1, <1>2, <1>3 DEF Log!Attempt, Summarised, Current

LEMMA StepRefines == IInv /\ [Next]_vars => [Log!Next]_Log!logVars
<1> SUFFICES ASSUME IInv, [Next]_vars PROVE [Log!Next]_Log!logVars
  OBVIOUS
<1>1. ASSUME NEW post \in PostWindows, TickAnomalyBase(post) \/ RequestDeep(post)
      PROVE  Log!Next
  BY <1>1, EnterRefines DEF TickAnomalyBase, RequestDeep, Log!Next
<1>2. ASSUME TickDeep \/ RequestBase \/ (Shutdown /\ phase = "DEEP") PROVE Log!Next
  BY <1>2, FinalizeRefines DEF TickDeep, RequestBase, Shutdown, Log!Next
<1>3. ASSUME UNCHANGED <<deepVars, deepOrdinal>> PROVE UNCHANGED Log!logVars
  BY <1>3 DEF Log!logVars, deepVars
<1>4. ASSUME \/ Shutdown /\ phase # "DEEP"
             \/ TickAnomalyDeepTrue
             \/ \E limit \in EndDebounces : TickAnomalyDeepFalse(limit)
             \/ Advance \/ ReadClock \/ HostSnapshot \/ UNCHANGED vars
      PROVE  UNCHANGED <<deepVars, deepOrdinal>>
  BY <1>4 DEF Shutdown, TickAnomalyDeepTrue, TickAnomalyDeepFalse, Advance,
    ReadClock, HostSnapshot, vars, phaseVars
<1> QED
  BY <1>1, <1>2, <1>3, <1>4 DEF Next

\* The phase machine, its collector and its writer implement the episode log.
THEOREM Refinement == Spec => ImplementsEpisodeLog
<1>1. Init => Log!Init
  BY DEF Init, DeepInit, Log!Init
<1> QED
  BY <1>1, StepRefines, Invariance, PTL DEF Spec, ImplementsEpisodeLog, Log!Spec

=============================================================================
