----------------------------- MODULE SessionDb -----------------------------
(***************************************************************************)
(* Which rows the session database refuses.  The tables have primary keys  *)
(* and every row is a plain INSERT, so that a second row with the same key *)
(* is an error in the log and a row that is not there.  The keys are made  *)
(* of times, and the times come from three clocks of one loop: a host      *)
(* snapshot stamps its own time, the overhead row has the time the         *)
(* iteration began, and a feature row that of the last host snapshot.  The *)
(* intervals are configured, and reloaded, apart from each other.          *)
(*                                                                         *)
(* Tables whose rows have keys of the same kind and are written together   *)
(* are one table here:                                                     *)
(*   host         net_stack, cgroup, memory_events                         *)
(*   host_cpu     host_disk, host_proc, net_softnet, cgroup_io             *)
(*   net_iface    gpu_device, whose uuid is then the name                  *)
(*   deep_offcpu  deep_io_device, deep_net_drop, deep_net_softirq          *)
(* A row is what its key is made of: ts, the name sub among its siblings,  *)
(* the episode and the series.  oom_events is in OomRing; logs,            *)
(* targets_log and the deep tables without a key refuse nothing.            *)
(*                                                                         *)
(* Every reading of the clock is later than the one before it.             *)
(***************************************************************************)
EXTENDS Integers

CONSTANTS
  Subs,         \* names of CPUs, disks, processes, interfaces, GPUs, sockets
  Intervals,    \* intervals the configuration may have
  MaxTime,      \* bound: when the session is stopped
  MaxOrdinal    \* bound: episodes

NoName == 0     \* the ifindex and the uuid that are not known

ASSUME DbConstants ==
  /\ Subs \subseteq Nat \ {NoName}
  /\ Intervals \subseteq Nat \ {0} /\ MaxTime \in Nat /\ MaxOrdinal \in Nat

VARIABLES
  clock,
  step,         \* where in the iteration the loop is
  now,
  interval,     \* the intervals of the configuration: of host and of features
  next,         \* next_host, next_overhead, next_feature
  lastHost,     \* last_host.ts_ns
  took,         \* the intervals at the last host snapshot and the last features
  ordinal, inDeep,
  nextDump,
  drained,      \* prev_head_, as the time of the record
  stored,       \* the rows of the tables
  refused       \* the rows refused, and took

dbVars == <<clock, step, now, interval, next, lastHost, took, ordinal, inDeep,
            nextDump, drained, stored, refused>>
schedule == <<interval, next, lastHost, took>>
episodeVars == <<ordinal, inDeep, nextDump, drained>>
tables == <<stored, refused>>

Steps == {"top", "host", "overhead", "feature", "phase", "tick", "requests"}
Times == 0..(MaxTime + 2 * MaxOrdinal + 1)     \* an iteration that has begun is finished

DbTypeOK ==
  /\ clock \in Times /\ now \in Times /\ lastHost \in Times
  /\ step \in Steps
  /\ interval \in [host : Intervals, feature : Intervals]
  /\ took \in [host : Intervals, feature : Intervals]
  /\ next \in [host : Nat, overhead : Nat, feature : Nat] /\ nextDump \in Nat
  /\ ordinal \in 0..MaxOrdinal /\ inDeep \in BOOLEAN /\ drained \in Times

DbInit ==
  /\ clock = 0 /\ step = "top" /\ now = 0 /\ lastHost = 0
  /\ interval \in [host : Intervals, feature : Intervals] /\ took = interval
  /\ next = [host |-> 0, overhead |-> 0, feature |-> 0]
  /\ ordinal = 0 /\ inDeep = FALSE /\ nextDump = 0 /\ drained = 0
  /\ stored = {} /\ refused = {}

----------------------------------------------------------------------------
\* Tables and rows

\* Fault: the primary key of deep_series is without its phase.
FaultPrimaryKey(table) ==
  CASE table \in {"host", "proc_overhead", "anomaly"} -> {"ts"}
    [] table \in {"host_cpu", "net_iface", "bpf_stats", "anomaly_tid"} -> {"ts", "sub"}
    [] table = "deep_episodes" -> {"ordinal"}
    [] table \in {"deep_series", "deep_proc", "deep_gpu_process"} -> {"ordinal", "ts", "sub"}
    [] table \in {"deep_net_flow", "deep_offcpu"} -> {"ordinal", "sub"}
PrimaryKey(table) ==
  CASE table \in {"host", "proc_overhead", "anomaly"} -> {"ts"}
    [] table \in {"host_cpu", "net_iface", "bpf_stats", "anomaly_tid"} -> {"ts", "sub"}
    [] table = "deep_episodes" -> {"ordinal"}
    [] table = "deep_series" -> {"ordinal", "phase", "ts", "sub"}
    [] table \in {"deep_proc", "deep_gpu_process"} -> {"ordinal", "ts", "sub"}
    [] table \in {"deep_net_flow", "deep_offcpu"} -> {"ordinal", "sub"}

Row(table, ts, sub, phase) ==
  [table |-> table, ts |-> ts, sub |-> sub, phase |-> phase, ordinal |-> ordinal]
RowsOf(table, ts) == {Row(table, ts, s, 0) : s \in Subs}

SameKey(r, q) == r.table = q.table /\ \A c \in PrimaryKey(r.table) : r[c] = q[c]

\* Rows written one after another, each of them once but those in twice: a row is
\* refused if one with its key is there.
InsertRows(rows, twice) ==
  LET again == {r \in rows : \E q \in stored : SameKey(r, q)} IN
  /\ stored' = stored \cup (rows \ again)
  /\ refused' = refused \cup {[row |-> r, took |-> took] : r \in again \cup twice}

----------------------------------------------------------------------------
\* The loop

Later(d) == clock' = clock + d

\* The top of an iteration, with the intervals of a reload if one was asked for.
Iterate ==
  /\ step = "top" /\ clock < MaxTime
  /\ Later(1)
  /\ now' = clock' /\ step' = "host"
  /\ interval' \in {interval} \cup [host : Intervals, feature : Intervals]
  /\ UNCHANGED <<next, lastHost, took, episodeVars, tables>>

\* if_nametoindex finds no index for an interface of /proc/net/dev that is gone by
\* then, and a GPU whose handle cannot be had has an empty uuid; the others have
\* keys of their own.
Interfaces(ts, lost) == {Row("net_iface", ts, IF s \in lost THEN NoName ELSE s, 0) : s \in Subs}
Repeated(ts, lost) ==
  IF \E s, t \in lost : s # t THEN {Row("net_iface", ts, NoName, 0)} ELSE {}

\* A snapshot and its rows, in the order of WriteHostRow and the loop.
HostRows(ts, lost) ==
  {Row("host", ts, NoName, 0)} \cup RowsOf("host_cpu", ts) \cup Interfaces(ts, lost)

\* Fault: the next snapshot is due an interval after this one ended, which
\* is after the features of the same iteration.
FaultNextHost == lastHost' + interval.host
NextHost == now + interval.host

HostTick ==
  /\ step = "host" /\ step' = "overhead"
  /\ IF now >= next.host
     THEN /\ Later(1) /\ lastHost' = clock'
          /\ took' = [took EXCEPT !.host = interval.host]
          /\ next' = [next EXCEPT !.host = NextHost]
          /\ \E lost \in SUBSET Subs : InsertRows(HostRows(lastHost', lost), Repeated(lastHost', lost))
     ELSE UNCHANGED <<clock, lastHost, took, next, tables>>
  /\ UNCHANGED <<now, interval, episodeVars>>

\* Self-overhead; its interval is the host's here, and it is never behind.
OverheadTick ==
  /\ step = "overhead" /\ step' = "feature"
  /\ IF now >= next.overhead
     THEN /\ next' = [next EXCEPT !.overhead = now + interval.host] /\ UNCHANGED took
          /\ InsertRows({Row("proc_overhead", now, NoName, 0)} \cup RowsOf("bpf_stats", now), {})
     ELSE UNCHANGED <<next, took, tables>>
  /\ UNCHANGED <<clock, now, interval, lastHost, episodeVars>>

\* BuildFeatures and WriteAnomalyFeatures: a row under the time of the snapshot.
FeatureTick ==
  /\ step = "feature" /\ step' = "phase"
  /\ IF now >= next.feature
     THEN /\ InsertRows({Row("anomaly", lastHost, NoName, 0)} \cup RowsOf("anomaly_tid", lastHost), {})
          /\ took' = [took EXCEPT !.feature = interval.feature]
          /\ next' = [next EXCEPT !.feature = now + interval.feature]
     ELSE UNCHANGED <<took, next, tables>>
  /\ UNCHANGED <<clock, now, interval, lastHost, episodeVars>>

----------------------------------------------------------------------------
\* Episodes

\* Records of the flight recorder, one a thread at each time.
Series(phase, from, to) ==
  {[Row("deep_series", t, s, phase) EXCEPT !.ordinal = ordinal'] : t \in from..to, s \in Subs}

\* TickAnomaly, or RequestDeep: OpenDeep, ring_head, and, with ring_head read
\* again, the series before the anomaly.  A refused row of the episode ends it.
EnterDeep ==
  /\ step \in {"phase", "requests"} /\ ~inDeep /\ ordinal < MaxOrdinal
  /\ Later(1) /\ ordinal' = ordinal + 1 /\ nextDump' = 0 /\ drained' = clock
  /\ UNCHANGED took
  /\ LET open == [Row("deep_episodes", 0, NoName, 0) EXCEPT !.ordinal = ordinal'] IN
     /\ inDeep' = ~\E r \in stored : SameKey(open, r)
     /\ InsertRows({open} \cup (IF inDeep' THEN Series(0, 1, clock') ELSE {}), {})
  /\ UNCHANGED <<step, now, interval, next, lastHost>>
ToTick ==
  /\ step = "phase" /\ step' = "tick"
  /\ UNCHANGED <<clock, now, schedule, episodeVars, tables>>

Drains(ts) == RowsOf("deep_proc", ts) \cup RowsOf("deep_gpu_process", ts)

\* Tick: the series since the last drain, and, when they are due, the processes.
DeepTick ==
  /\ step = "tick" /\ step' = "requests" /\ UNCHANGED <<ordinal, took>>
  /\ IF inDeep
     THEN /\ InsertRows(Series(1, drained + 1, clock) \cup (IF now >= nextDump THEN Drains(now) ELSE {}), {})
          /\ drained' = clock
          /\ nextDump' = IF now >= nextDump THEN now + interval.host ELSE nextDump
     ELSE UNCHANGED <<drained, nextDump, tables>>
  /\ UNCHANGED <<clock, now, interval, next, lastHost, inDeep>>

\* TickDeep, RequestBase or Shutdown: Finalize at a time of its own.  net_flow is
\* of the LRU kind, and ForEach may find a key of it twice.
Finalize ==
  /\ step = "requests" /\ inDeep /\ inDeep' = FALSE
  /\ Later(1) /\ drained' = clock /\ UNCHANGED <<ordinal, nextDump, took>>
  /\ LET flows == RowsOf("deep_net_flow", 0) IN
     \E twice \in {{}, flows} :
       InsertRows(Series(1, drained + 1, clock) \cup Drains(clock') \cup flows
                \cup RowsOf("deep_offcpu", 0), twice)
  /\ UNCHANGED <<step, now, interval, next, lastHost>>

Sleep ==
  /\ step = "requests" /\ step' = "top"
  /\ UNCHANGED <<clock, now, schedule, episodeVars, tables>>

DbNext ==
  \/ Iterate \/ HostTick \/ OverheadTick \/ FeatureTick
  \/ EnterDeep \/ ToTick \/ DeepTick \/ Finalize \/ Sleep

DbSpec == DbInit /\ [][DbNext]_dbVars

----------------------------------------------------------------------------
\* Properties

\* Rows are refused for three reasons only: features taken more often than
\* snapshots, which the configuration allows, want a second row under the time of one
\* snapshot; two interfaces, or two GPUs, whose index or handle could not be had at
\* one snapshot; a flow met twice.
Explained(r) ==
  \/ r.row.table \in {"anomaly", "anomaly_tid"} /\ r.took.feature < r.took.host
  \/ r.row.table = "net_iface" /\ r.row.sub = NoName
  \/ r.row.table = "deep_net_flow"
RefusalsExplained == \A r \in refused : Explained(r)
=============================================================================
