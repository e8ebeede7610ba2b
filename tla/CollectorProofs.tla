---------------------------- MODULE CollectorProofs ----------------------------
(***************************************************************************)
(* Proofs about the main loop: it drives PhaseManager as that module       *)
(* allows, so that everything proved there holds of the loop, and what the *)
(* loop itself promises about requests, the interval and the episodes.     *)
(***************************************************************************)
EXTENDS Collector, PhaseManagerProofs

\* The configuration in force takes the values the phase machine allows.
LEMMA ConfigInForce ==
  ASSUME CollectorTypeOK
  PROVE  /\ cfg.post \in PostWindows /\ cfg.debounce \in EndDebounces
         /\ cfg.host \in Nat \ {0} /\ cfg.feature \in Nat \ {0}
  BY ConfigsAssumption DEF CollectorTypeOK

---------------------------------------------------------------------------
\* Every step of the loop is a step of the phase machine, or none.

\* A step of the loop, a signal and the passing of time are each a step of PhaseManager
\* or leave it alone.
LEMMA StepIsPhaseStep ==
  ASSUME CollectorTypeOK, [CollectorNext]_allVars
  PROVE  [Next]_vars
<1>c. cfg.post \in PostWindows /\ cfg.debounce \in EndDebounces
  BY ConfigInForce
<1>1. CASE Stop
  BY <1>1 DEF Stop, Next
<1>2. CASE Top
  BY <1>2 DEF Top, Next
<1>3. CASE Host
  BY <1>3 DEF Host, Next
<1>4. CASE Feature
  <2>1. TickAnomaly \/ UNCHANGED vars
    BY <1>4 DEF Feature
  <2> QED
    BY <1>c, <2>1 DEF TickAnomaly, Next
<1>5. CASE Deep
  BY <1>5 DEF Deep, Next
<1>6. CASE ReqDeep
  BY <1>6, <1>c DEF ReqDeep, Next
<1>7. CASE ReqBase
  BY <1>7 DEF ReqBase, Next
<1>8. CASE Sync \/ Signal
  BY <1>8 DEF Sync, Signal
<1>9. CASE Tick
  BY <1>9 DEF Tick, Next
<1>10. CASE UNCHANGED allVars
  BY <1>10 DEF allVars
<1> QED
  BY <1>1, <1>2, <1>3, <1>4, <1>5, <1>6, <1>7, <1>8, <1>9, <1>10 DEF CollectorNext, Step

LoopInv == IInv /\ CollectorTypeOK /\ IntervalFollowsPhase

\* The strengthening is inductive.
LEMMA LoopStep ==
  ASSUME LoopInv, [CollectorNext]_allVars
  PROVE  LoopInv'
<1> USE DEF LoopInv
<1>1. IInv'
  BY StepIsPhaseStep, StepInv
<1>2. cfg' \in Configs
  BY DEF CollectorTypeOK, CollectorNext, Step, Stop, Top, Host, Feature, Deep, ReqDeep,
         ReqBase, Sync, Tick, Signal, allVars, loopVars
<1>3. now \in Nat /\ cfg.host \in Nat /\ cfg.feature \in Nat
  BY ConfigInForce, PhaseConstants DEF IInv, TypeOK, Times
<1>4. nextHost' \in Nat /\ nextFeature' \in Nat
  BY <1>3 DEF CollectorTypeOK, CollectorNext, Step, Stop, Top, Host, Feature, Deep, ReqDeep,
              ReqBase, Sync, Tick, Signal, allVars, loopVars
<1>5. curInterval' \in {c.fine : c \in Configs} \cup {c.deepFine : c \in Configs}
  BY DEF CollectorTypeOK, CollectorNext, Step, Stop, Top, Host, Feature, Deep, ReqDeep,
         ReqBase, Sync, WantedInterval, Tick, Signal, allVars, loopVars
<1>6. signals' \subseteq Signals
  BY DEF CollectorTypeOK, CollectorNext, Step, Stop, Top, Host, Feature, Deep, ReqDeep,
         ReqBase, Sync, Tick, Signal, allVars, loopVars
<1>7. pc' \in {"top", "host", "feature", "deep", "reqdeep", "reqbase", "sync", "done"}
  BY DEF CollectorTypeOK, CollectorNext, Step, Stop, Top, Host, Feature, Deep, ReqDeep,
         ReqBase, Sync, Goto, Tick, Signal, allVars, loopVars
<1>8. CollectorTypeOK'
  BY <1>1, <1>2, <1>4, <1>5, <1>6, <1>7 DEF IInv, CollectorTypeOK
<1>9. IntervalFollowsPhase'
  <2>1. CASE Sync
    <3>1. /\ curInterval' = WantedInterval
          /\ phase' = phase /\ cfg' = cfg
      BY <2>1 DEF Sync, vars, phaseVars
    <3> QED
      BY <3>1 DEF IntervalFollowsPhase, WantedInterval
  <2>2. CASE Stop \/ Top \/ Host \/ Feature \/ Deep \/ ReqDeep \/ ReqBase
    <3>1. pc' # "top"
      BY <2>2 DEF Stop, Top, Host, Feature, Deep, ReqDeep, ReqBase, Goto
    <3> QED
      BY <3>1 DEF IntervalFollowsPhase
  <2>3. CASE Tick \/ Signal \/ UNCHANGED allVars
    <3>1. UNCHANGED <<phase, pc, cfg, curInterval>>
      BY <2>3 DEF Tick, Signal, Advance, allVars, vars, phaseVars, loopVars
    <3> QED
      BY <3>1 DEF IntervalFollowsPhase, WantedInterval
  <2> QED
    BY <2>1, <2>2, <2>3 DEF CollectorNext, Step
<1> QED
  BY <1>1, <1>8, <1>9

LEMMA LoopInit == CollectorInit => LoopInv
<1> SUFFICES ASSUME CollectorInit PROVE LoopInv
  OBVIOUS
<1>1. IInv
  BY InitInv DEF CollectorInit
<1>2. CollectorTypeOK
  BY <1>1 DEF IInv, CollectorInit, CollectorTypeOK
<1>3. IntervalFollowsPhase
  BY DEF CollectorInit, Init, IntervalFollowsPhase, WantedInterval
<1> QED
  BY <1>1, <1>2, <1>3 DEF LoopInv

\* Every reachable state of the loop satisfies the inductive invariant.
THEOREM LoopInvariance == CollectorSpec => []LoopInv
BY LoopInit, LoopStep, PTL DEF CollectorSpec

\* The main loop calls PhaseManager only as Spec allows, whatever signals, reloads and
\* delays it meets; what is proved of Spec holds of the running collector.
THEOREM LoopDrivesPhases == CollectorSpec => Spec
<1>1. CollectorInit => Init
  BY DEF CollectorInit
<1>2. LoopInv /\ [CollectorNext]_allVars => [Next]_vars
  BY StepIsPhaseStep DEF LoopInv
<1> QED
  BY <1>1, <1>2, LoopInvariance, PTL DEF CollectorSpec, Spec

\* Type correctness of the loop and of the phase machine under it.
THEOREM CollectorTypeCorrect == CollectorSpec => []CollectorTypeOK
<1>1. LoopInv => CollectorTypeOK
  BY DEF LoopInv
<1> QED
  BY <1>1, LoopInvariance, PTL

\* The recorder's interval is that of the phase and of the configuration in force when
\* an iteration begins, whatever changed during the one before.
THEOREM IntervalSynchronised == CollectorSpec => []IntervalFollowsPhase
<1>1. LoopInv => IntervalFollowsPhase
  BY DEF LoopInv
<1> QED
  BY <1>1, LoopInvariance, PTL

\* The phase machine run by the loop implements the episode log.
THEOREM LoopKeepsLog == CollectorSpec => ImplementsEpisodeLog
BY LoopDrivesPhases, Refinement

---------------------------------------------------------------------------
\* Manual requests

\* The one step that takes a request serves it.
LEMMA RequestServed ==
  ASSUME LoopInv, CollectorNext
  PROVE  /\ "base" \in signals \ signals' => phase' = "BASE"
         /\ "deep" \in signals \ signals' =>
              phase = "DEEP" \/ deepOrdinal' = deepOrdinal + 1 \/ ~CanOpen(now)
<1>1. phase \in {"BASE", "DEEP"}
  BY DEF LoopInv, IInv, TypeOK
<1>2. CASE ReqDeep
  <2>1. "base" \notin signals \ signals'
    BY <1>2 DEF ReqDeep
  <2>2. ASSUME "deep" \in signals, phase = "BASE", CanOpen(now)
        PROVE  deepOrdinal' = deepOrdinal + 1
    BY <1>2, <2>2 DEF ReqDeep, RequestDeep, EnterDeep, OpenWindow
  <2> QED
    BY <1>1, <2>1, <2>2
<1>3. CASE ReqBase
  <2>1. "deep" \notin signals \ signals'
    BY <1>3 DEF ReqBase
  <2>2. ASSUME "base" \in signals
        PROVE  phase' = "BASE"
    <3>1. CASE phase = "DEEP"
      BY <1>3, <2>2, <3>1 DEF ReqBase, RequestBase, FinalizeAndExit
    <3>2. CASE phase = "BASE"
      BY <1>3, <3>2 DEF ReqBase, vars, phaseVars
    <3> QED
      BY <1>1, <3>1, <3>2
  <2> QED
    BY <2>1, <2>2
<1>4. ASSUME ~ReqDeep, ~ReqBase
      PROVE  "base" \notin signals \ signals' /\ "deep" \notin signals \ signals'
  BY <1>4 DEF CollectorNext, Step, Stop, Top, Host, Feature, Deep, Sync, Tick, Signal, loopVars
<1> QED
  BY <1>2, <1>3, <1>4

\* A SIGUSR1 or SIGUSR2 is taken only by the step that serves it, in every interleaving
\* with reloads, anomalies and deadlines.
THEOREM RequestsServed == CollectorSpec => RequestsNotLost
<1>1. LoopInv /\ [CollectorNext]_allVars =>
        [/\ "base" \in signals \ signals' => phase' = "BASE"
         /\ "deep" \in signals \ signals' =>
              phase = "DEEP" \/ deepOrdinal' = deepOrdinal + 1 \/ ~CanOpen(now)]_allVars
  BY RequestServed
<1> QED
  BY <1>1, LoopInvariance, PTL DEF CollectorSpec, RequestsNotLost

---------------------------------------------------------------------------
(* Episodes do not overlap.  It rests on the two cadences: while the host  *)
(* and the features are due together, an anomaly is judged on a snapshot   *)
(* of the same iteration, taken after the clock reading at which the last  *)
(* episode can have ended.                                                 *)

InLockstep == \A c \in Configs : c.host = c.feature

\* The step after the host step finds the snapshot taken if the features are due.
CadenceInv ==
  /\ pc # "feature" => nextHost = nextFeature
  /\ pc = "feature" => \/ nextHost = nextFeature /\ now < nextFeature
                       \/ /\ nextHost = now + cfg.host /\ nextFeature <= now
                          /\ now <= hostTs

\* An ended episode ended before the clock reading of any later iteration.
EndsInv ==
  \A i \in 1..Len(lastSummary) :
    /\ lastSummary[i].end <= clock
    /\ pc \in {"host", "feature"} => lastSummary[i].end <= now

DisjointInv == CadenceInv /\ EndsInv /\ EpisodesDisjoint

\* Snapshots and features stay in step as long as their intervals are alike.
LEMMA CadenceStep ==
  ASSUME InLockstep, LoopInv, CadenceInv, [CollectorNext]_allVars
  PROVE  CadenceInv'
<1>1. /\ now \in Nat /\ clock \in Nat /\ now <= clock /\ hostTs \in Nat
      /\ nextHost \in Nat /\ nextFeature \in Nat
      /\ cfg.host = cfg.feature /\ cfg.host \in Nat \ {0}
  BY ConfigInForce, PhaseConstants
  DEF LoopInv, IInv, TypeOK, Times, CollectorTypeOK, InLockstep
<1>2. CASE Host
  <2>1. pc = "host" /\ pc' = "feature" /\ nextFeature' = nextFeature /\ cfg' = cfg
    BY <1>2 DEF Host, Goto
  <2>2. CASE now >= nextHost
    <3>1. hostTs' = clock /\ now' = now /\ nextHost' = now + cfg.host
      BY <1>1, <1>2, <2>2 DEF Host, HostSnapshot
    <3>2. nextHost = nextFeature /\ nextFeature' <= now'
      BY <1>1, <2>1, <2>2, <3>1 DEF CadenceInv
    <3>3. nextHost' = now' + cfg'.host /\ now' <= hostTs'
      BY <1>1, <2>1, <3>1
    <3> QED
      BY <2>1, <3>2, <3>3 DEF CadenceInv
  <2>3. CASE now < nextHost
    <3>1. now' = now /\ nextHost' = nextHost
      BY <1>1, <1>2, <2>3 DEF Host, vars, timeVars
    <3> QED
      BY <1>1, <2>1, <2>3, <3>1 DEF CadenceInv
  <2> QED
    BY <1>1, <2>2, <2>3
<1>3. CASE Feature
  <2>1. pc = "feature" /\ pc' = "deep" /\ nextHost' = nextHost
    BY <1>3 DEF Feature, Goto
  <2>2. nextFeature' = IF now >= nextFeature THEN now + cfg.feature ELSE nextFeature
    BY <1>1, <1>3 DEF Feature
  <2> QED
    BY <1>1, <2>1, <2>2 DEF CadenceInv
<1>4. CASE Stop \/ Top \/ Deep \/ ReqDeep \/ ReqBase \/ Sync
  <2>1. pc # "feature" /\ pc' # "feature" /\ nextHost' = nextHost /\ nextFeature' = nextFeature
    BY <1>4 DEF Stop, Top, Deep, ReqDeep, ReqBase, Sync, Goto
  <2> QED
    BY <2>1 DEF CadenceInv
<1>5. CASE Tick \/ Signal \/ UNCHANGED allVars
  <2>1. UNCHANGED <<pc, nextHost, nextFeature, now, hostTs, cfg>>
    BY <1>5 DEF Tick, Advance, Signal, allVars, vars, timeVars, loopVars
  <2> QED
    BY <2>1 DEF CadenceInv
<1> QED
  BY <1>2, <1>3, <1>4, <1>5 DEF CollectorNext, Step

\* What ending an episode at t, or not ending one, makes of the ended episodes.
LEMMA EndedBy ==
  ASSUME LoopInv, phase = "DEEP", NEW t \in 1..clock, FinalizeAndExit(t)
  PROVE  \A i \in 1..Len(lastSummary') : lastSummary'[i].end \in 1..clock
<1>1. (IF anomalyEnd = 0 THEN t ELSE anomalyEnd) \in 1..clock
  BY DEF LoopInv, IInv, OpenTimes
<1>2. lastSummary' = <<[ordinal |-> deepOrdinal, start |-> anomalyStart,
                        end |-> IF anomalyEnd = 0 THEN t ELSE anomalyEnd,
                        deadline |-> postDeadline, indicator |-> lastIndicator]>>
  BY DEF FinalizeAndExit
<1>3. Len(lastSummary') = 1
        /\ lastSummary'[1].end = IF anomalyEnd = 0 THEN t ELSE anomalyEnd
  BY <1>2
<1> QED
  BY <1>1, <1>3

\* No step lets an episode reach back into the one before it.
LEMMA DisjointStep ==
  ASSUME InLockstep, ~ManualRequests, LoopInv, DisjointInv, [CollectorNext]_allVars
  PROVE  DisjointInv'
<1>1. CadenceInv'
  BY CadenceStep DEF DisjointInv
<1>2. /\ clock \in Nat /\ now \in 1..clock /\ hostTs \in 1..clock
      /\ phase \in {"BASE", "DEEP"}
      /\ \A i \in 1..Len(lastSummary) : lastSummary[i].end \in Nat
  <2>1. lastSummary \in Seq(Summaries) /\ clock \in Times
    BY DEF LoopInv, IInv, TypeOK
  <2>2. \A i \in 1..Len(lastSummary) : lastSummary[i] \in Summaries
    BY <2>1
  <2> QED
    BY <2>1, <2>2, PhaseConstants DEF LoopInv, IInv, TypeOK, Times, Summaries
<1>3. ASSUME NEW t \in 1..clock, phase = "DEEP", FinalizeAndExit(t), clock' = clock,
             pc' \notin {"host", "feature"}
      PROVE  DisjointInv'
  <2>1. phase' = "BASE"
    BY <1>3 DEF FinalizeAndExit
  <2>2. \A i \in 1..Len(lastSummary') : lastSummary'[i].end \in 1..clock
    BY <1>3, EndedBy
  <2> QED
    BY <1>1, <1>2, <1>3, <2>1, <2>2 DEF DisjointInv, EndsInv, EpisodesDisjoint
<1>4. ASSUME lastSummary' = lastSummary, clock' \in {clock, clock + 1},
             pc' \in {"host", "feature"} =>
               \/ now' = clock
               \/ now' = now /\ pc \in {"host", "feature"},
             phase' = "DEEP" => phase = "DEEP" /\ anomalyStart' = anomalyStart
      PROVE  DisjointInv'
  <2>1. ASSUME NEW i \in 1..Len(lastSummary)
        PROVE  /\ lastSummary[i].end <= clock'
               /\ pc' \in {"host", "feature"} => lastSummary[i].end <= now'
               /\ phase' = "DEEP" => lastSummary[i].end <= anomalyStart'
    <3>1. /\ lastSummary[i].end \in Nat /\ lastSummary[i].end <= clock
          /\ pc \in {"host", "feature"} => lastSummary[i].end <= now
          /\ phase = "DEEP" => lastSummary[i].end <= anomalyStart
      BY <1>2 DEF DisjointInv, EndsInv, EpisodesDisjoint
    <3> QED
      BY <1>2, <1>4, <3>1
  <2> QED
    BY <1>1, <1>4, <2>1 DEF DisjointInv, EndsInv, EpisodesDisjoint
<1>5. CASE Feature
  <2>1. pc = "feature" /\ pc' = "deep"
    BY <1>5 DEF Feature, Goto
  <2>2. CASE now >= nextFeature /\ TickAnomalyBase(cfg.post)
    <3>1. /\ anomalyStart' = hostTs /\ lastSummary' = lastSummary /\ clock' = clock
      BY <2>2 DEF TickAnomalyBase, EnterDeep, OpenWindow, timeVars
    <3>2. now <= hostTs
      BY <1>2, <2>1, <2>2 DEF DisjointInv, CadenceInv, LoopInv, CollectorTypeOK
    <3>3. \A i \in 1..Len(lastSummary) :
            /\ lastSummary[i].end \in Nat /\ lastSummary[i].end <= clock
            /\ lastSummary[i].end <= now
      BY <1>2, <2>1 DEF DisjointInv, EndsInv
    <3>4. \A i \in 1..Len(lastSummary) : lastSummary[i].end <= hostTs
      BY <1>2, <3>2, <3>3
    <3> QED
      BY <1>1, <2>1, <3>1, <3>3, <3>4 DEF DisjointInv, EndsInv, EpisodesDisjoint
  <2>3. CASE ~(now >= nextFeature /\ TickAnomalyBase(cfg.post))
    <3>1. /\ lastSummary' = lastSummary /\ clock' = clock /\ phase' = phase
          /\ anomalyStart' = anomalyStart
      BY <1>5, <2>3 DEF Feature, TickAnomaly, TickAnomalyDeepTrue, TickAnomalyDeepFalse,
                        vars, phaseVars, timeVars
    <3> QED
      BY <1>4, <2>1, <3>1
  <2> QED
    BY <2>2, <2>3
<1>6. CASE Deep
  <2>1. pc' = "reqdeep"
    BY <1>6 DEF Deep, Goto
  <2>2. CASE phase = "DEEP" /\ now >= postDeadline
    <3>1. FinalizeAndExit(now) /\ clock' = clock
      BY <1>6, <2>2 DEF Deep, TickDeep, timeVars
    <3> QED
      BY <1>2, <1>3, <2>1, <2>2, <3>1
  <2>3. CASE ~(phase = "DEEP" /\ now >= postDeadline)
    <3>1. UNCHANGED <<lastSummary, clock, phase, anomalyStart>>
      BY <1>6, <2>3 DEF Deep, vars, phaseVars, timeVars
    <3> QED
      BY <1>4, <2>1, <3>1
  <2> QED
    BY <2>2, <2>3
<1>7. CASE Stop
  <2>1. pc' = "done" /\ Shutdown
    BY <1>7 DEF Stop, Goto
  <2>2. CASE phase = "DEEP"
    <3>1. FinalizeAndExit(clock) /\ clock' = clock /\ clock \in 1..clock
      BY <1>2, <2>1, <2>2 DEF Shutdown
    <3> QED
      BY <1>3, <2>1, <2>2, <3>1
  <2>3. CASE phase # "DEEP"
    <3>1. UNCHANGED <<lastSummary, clock, phase, anomalyStart>>
      BY <2>1, <2>3 DEF Shutdown, phaseVars
    <3> QED
      BY <1>4, <2>1, <3>1
  <2> QED
    BY <2>2, <2>3
<1>8. CASE Top
  <2>1. /\ pc' = "host" /\ now' = clock
        /\ UNCHANGED <<lastSummary, clock, phase, anomalyStart>>
    BY <1>8 DEF Top, Goto, ReadClock, phaseVars
  <2> QED
    BY <1>4, <2>1
<1>9. CASE Host
  <2>1. /\ pc = "host" /\ pc' = "feature" /\ now' = now
        /\ UNCHANGED <<lastSummary, clock, phase, anomalyStart>>
    BY <1>9 DEF Host, Goto, HostSnapshot, vars, phaseVars, timeVars
  <2> QED
    BY <1>4, <2>1
<1>10. CASE ReqDeep \/ ReqBase \/ Sync
  <2>1. ~RequestBase /\ \A post : ~RequestDeep(post)
    BY DEF RequestBase, RequestDeep
  <2>2. /\ pc' \notin {"host", "feature"}
        /\ UNCHANGED <<lastSummary, clock, phase, anomalyStart>>
    BY <1>10, <2>1 DEF ReqDeep, ReqBase, Sync, Goto, vars, phaseVars, timeVars
  <2> QED
    BY <1>4, <2>2
<1>11. CASE Tick \/ Signal \/ UNCHANGED allVars
  <2>1. /\ UNCHANGED <<pc, now, lastSummary, phase, anomalyStart>>
        /\ clock' \in {clock, clock + 1}
    BY <1>11 DEF Tick, Advance, Signal, allVars, vars, phaseVars, timeVars, loopVars
  <2> QED
    BY <1>4, <2>1
<1> QED
  BY <1>5, <1>6, <1>7, <1>8, <1>9, <1>10, <1>11 DEF CollectorNext, Step

\* Without manual requests, and with the features built as often as the host is sampled,
\* which is the default, no episode opened by TickAnomaly reaches back into the one before
\* it, at any duration of the steps and across reloads that keep the two intervals equal.
THEOREM NoOverlap ==
  ASSUME InLockstep, ~ManualRequests PROVE CollectorSpec => []EpisodesDisjoint
<1>1. CollectorInit => DisjointInv
  BY DEF CollectorInit, Init, DisjointInv, CadenceInv, EndsInv, EpisodesDisjoint
<1>2. LoopInv /\ DisjointInv /\ [CollectorNext]_allVars => DisjointInv'
  BY DisjointStep
<1>3. DisjointInv => EpisodesDisjoint
  BY DEF DisjointInv
<1> QED
  BY <1>1, <1>2, <1>3, LoopInvariance, PTL DEF CollectorSpec

\* And then the window handed to the causal model is in order, in the running loop too.
THEOREM LoopWindowOrdered ==
  ASSUME ~ManualRequests PROVE CollectorSpec => []WindowOrdered
BY LoopDrivesPhases, AutomaticWindowOrdered

=============================================================================
