------------------------------ MODULE Collector ------------------------------
(***************************************************************************)
(* The main loop of RunCollector around the phase machine.  One thread     *)
(* runs the iteration below, step by step; between any two steps time may  *)
(* pass (a model call blocks the loop) and a signal handler may set one of *)
(* the four flags, each of which the loop consumes at one place only.      *)
(*                                                                         *)
(*   "top"   stop test, configuration reload, the iteration's clock reading *)
(*   "host"  host snapshot, if due                                         *)
(*   "feature"  anomaly features and PhaseManager::TickAnomaly, if due     *)
(*   "deep"  PhaseManager::TickDeep                                        *)
(*   "reqdeep", "reqbase"  the manual requests, in this order              *)
(*   "sync"  the flight recorder's interval follows the phase              *)
(***************************************************************************)
EXTENDS PhaseManager

CONSTANT Configs   \* the configurations a reload may produce

ASSUME ConfigsAssumption ==
  \A c \in Configs :
    /\ c.host \in Nat \ {0} /\ c.feature \in Nat \ {0}
    /\ c.post \in PostWindows /\ c.debounce \in EndDebounces
    /\ c.fine \in Nat \ {0} /\ c.deepFine \in Nat \ {0}

VARIABLES
  pc,            \* the next step of the iteration, "done" after the loop
  cfg,           \* the configuration in force
  nextHost,      \* next_host
  nextFeature,   \* next_feature
  curInterval,   \* cur_interval_ms, the interval last sent to the kernel
  signals        \* the set flags, of "stop", "reload", "deep", "base"

loopVars == <<pc, cfg, nextHost, nextFeature, curInterval, signals>>
allVars == <<vars, loopVars>>

Signals == {"stop", "reload"} \cup (IF ManualRequests THEN {"deep", "base"} ELSE {})

CollectorTypeOK ==
  /\ TypeOK
  /\ pc \in {"top", "host", "feature", "deep", "reqdeep", "reqbase", "sync", "done"}
  /\ cfg \in Configs
  /\ nextHost \in Nat
  /\ nextFeature \in Nat
  /\ curInterval \in {c.fine : c \in Configs} \cup {c.deepFine : c \in Configs}
  /\ signals \subseteq Signals

CollectorInit ==
  /\ Init
  /\ pc = "top"
  /\ cfg \in Configs
  /\ nextHost = 0
  /\ nextFeature = 0
  /\ curInterval = cfg.fine
  /\ signals = {}

Goto(from, to) == pc = from /\ pc' = to

\* Bound: an episode is opened only if an ordinal is left and its deadline can
\* still be reached by the clock.
CanOpen(t) == deepOrdinal < MaxOrdinal /\ t + cfg.post < MaxClock

---------------------------------------------------------------------------
Stop ==
  /\ Goto("top", "done")
  /\ "stop" \in signals
  /\ Shutdown
  /\ UNCHANGED <<cfg, nextHost, nextFeature, curInterval, signals>>

\* Fault: a reload clears every pending flag (RequestsNotLost).
FaultTop ==
  /\ Goto("top", "host")
  /\ "stop" \notin signals
  /\ IF "reload" \in signals THEN cfg' \in Configs ELSE UNCHANGED cfg
  /\ signals' = IF "reload" \in signals THEN {} ELSE signals
  /\ ReadClock
  /\ UNCHANGED <<nextHost, nextFeature, curInterval>>

Top ==
  /\ Goto("top", "host")
  /\ "stop" \notin signals
  /\ IF "reload" \in signals THEN cfg' \in Configs ELSE UNCHANGED cfg
  /\ signals' = signals \ {"reload"}
  /\ ReadClock
  /\ UNCHANGED <<nextHost, nextFeature, curInterval>>

\* Fault: the next snapshot is due relative to the time this one was taken, so the
\* host and the feature cadence drift apart (EpisodesDisjoint).
FaultHost ==
  /\ Goto("host", "feature")
  /\ \/ /\ now >= nextHost
        /\ HostSnapshot
        /\ nextHost' = clock + cfg.host
     \/ /\ now < nextHost
        /\ UNCHANGED <<vars, nextHost>>
  /\ UNCHANGED <<cfg, nextFeature, curInterval, signals>>

Host ==
  /\ Goto("host", "feature")
  /\ \/ /\ now >= nextHost
        /\ HostSnapshot
        /\ nextHost' = now + cfg.host
     \/ /\ now < nextHost
        /\ UNCHANGED <<vars, nextHost>>
  /\ UNCHANGED <<cfg, nextFeature, curInterval, signals>>

\* A quiet result in BASE changes nothing; one in DEEP at the bound of the count
\* is not counted.
TickAnomaly ==
  \/ CanOpen(hostTs) /\ TickAnomalyBase(cfg.post)
  \/ TickAnomalyDeepTrue
  \/ TickAnomalyDeepFalse(cfg.debounce)
  \/ (phase = "BASE" \/ debounce = MaxQuiet) /\ UNCHANGED vars

Feature ==
  /\ Goto("feature", "deep")
  /\ \/ /\ now >= nextFeature
        /\ TickAnomaly
        /\ nextFeature' = now + cfg.feature
     \/ /\ now < nextFeature
        /\ UNCHANGED <<vars, nextFeature>>
  /\ UNCHANGED <<cfg, nextHost, curInterval, signals>>

Deep ==
  /\ Goto("deep", "reqdeep")
  /\ IF phase = "DEEP" /\ now >= postDeadline THEN TickDeep ELSE UNCHANGED vars
  /\ UNCHANGED <<cfg, nextHost, nextFeature, curInterval, signals>>

ReqDeep ==
  /\ Goto("reqdeep", "reqbase")
  /\ signals' = signals \ {"deep"}
  /\ IF "deep" \in signals /\ phase = "BASE" /\ CanOpen(now)
     THEN RequestDeep(cfg.post) ELSE UNCHANGED vars
  /\ UNCHANGED <<cfg, nextHost, nextFeature, curInterval>>

ReqBase ==
  /\ Goto("reqbase", "sync")
  /\ signals' = signals \ {"base"}
  /\ IF "base" \in signals /\ phase = "DEEP" THEN RequestBase ELSE UNCHANGED vars
  /\ UNCHANGED <<cfg, nextHost, nextFeature, curInterval>>

WantedInterval == IF phase = "DEEP" THEN cfg.deepFine ELSE cfg.fine

\* Fault: the interval is only ever shortened (IntervalFollowsPhase).
FaultSync ==
  /\ Goto("sync", "top")
  /\ curInterval' = IF phase = "DEEP" THEN cfg.deepFine ELSE curInterval
  /\ UNCHANGED <<vars, cfg, nextHost, nextFeature, signals>>

Sync ==
  /\ Goto("sync", "top")
  /\ curInterval' = WantedInterval
  /\ UNCHANGED <<vars, cfg, nextHost, nextFeature, signals>>

Step == Stop \/ Top \/ Host \/ Feature \/ Deep \/ ReqDeep \/ ReqBase \/ Sync

---------------------------------------------------------------------------
(* The environment. *)

Tick == Advance /\ UNCHANGED loopVars

Signal ==
  /\ running
  /\ \E s \in Signals \ signals : signals' = signals \cup {s}
  /\ UNCHANGED <<vars, pc, cfg, nextHost, nextFeature, curInterval>>

CollectorNext == Step \/ Tick \/ Signal

\* The loop thread is scheduled, and time does not stop.  Signals, anomalies and
\* reloads are owed to nobody.
CollectorSpec ==
  /\ CollectorInit /\ [][CollectorNext]_allVars
  /\ WF_allVars(Step) /\ WF_allVars(Tick)

---------------------------------------------------------------------------
(* Properties. *)

\* At the top of every iteration the recorder samples at the interval the phase
\* and the configuration in force call for, also after a reload and after an
\* episode that opened and closed within one iteration.
IntervalFollowsPhase == pc = "top" => curInterval = WantedInterval

\* Successive episodes do not overlap in time: an anomaly that is part of the
\* last episode does not open another one that reaches back into it.
EpisodesDisjoint ==
  phase = "DEEP" => \A i \in 1..Len(lastSummary) : lastSummary[i].end <= anomalyStart

\* Every episode ends, by its deadline if nothing else: neither a run of
\* anomalies nor reloads keep the collector in DEEP.
DeepEnds == phase = "DEEP" ~> phase = "BASE"

\* A stop is served: the loop ends, and it leaves no episode without a summary.
StopServed == "stop" \in signals ~>
  (pc = "done" /\ \A n \in Ordinals : episodeRow[n] # "inserted")

\* A manual request is consumed only by being acted on: after a request for BASE
\* the machine is in BASE, and a request for DEEP opens an episode or at least
\* attempts one, unless the machine is in DEEP already.
RequestsNotLost ==
  [][/\ "base" \in signals \ signals' => phase' = "BASE"
     /\ "deep" \in signals \ signals' =>
          phase = "DEEP" \/ deepOrdinal' = deepOrdinal + 1 \/ ~CanOpen(now)]_allVars

=============================================================================
