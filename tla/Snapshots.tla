----------------------------- MODULE Snapshots -----------------------------
(***************************************************************************)
(* What a host tick reads and what the session database says of it.  Each  *)
(* source (a file of /proc, a netlink dump, an NVML call) may be there or  *)
(* not, and answer in part, from one tick to the next.  A reader fills in  *)
(* a fresh struct and a mask of what it found; a writer binds the fields   *)
(* by position to the columns of an INSERT, and binds NULL where its copy  *)
(* of the mask's layout says that nothing was read; a serialiser writes    *)
(* the same struct for the model.  Reader, INSERT and writer are three     *)
(* lists of the same fields which nothing but care keeps in step.          *)
(*                                                                         *)
(* A value is the field it was read into and the tick, so that a value in  *)
(* a wrong column or of an earlier tick shows.  One group of fields is     *)
(* followed through its ticks; groups share nothing.                       *)
(***************************************************************************)
EXTENDS Integers, Sequences, FiniteSets, FiniteSetsExt

CONSTANT MaxMissing   \* bound: sources of a group that fail at one tick, unless all do

ASSUME SnapshotConstants == MaxMissing \in Nat

VARIABLES
  group,    \* the group that is followed
  active,   \* active_ of GpuMetrics
  tick,     \* the parity of the tick
  read,     \* the fields this tick has read
  snapshot, \* the struct: the value of each field, and valid_mask
  row,      \* what the columns of the database hold
  document  \* what the serialiser wrote

snapshotVars == <<group, active, tick, read, snapshot, row, document>>

Zero == <<"zero", 0>>     \* the initialiser of every field of the structs
SqlNull == <<"null", 0>>     \* a column that is NULL
Plain == -1               \* a field that no bit stands for

All(s) == {s[i] : i \in DOMAIN s}

----------------------------------------------------------------------------
\* The fields, in the order in which they are read

Totals == <<"user", "nice", "system", "idle", "iowait", "irq", "softirq", "steal",
            "guest", "guest_nice">>
LoadAverage == <<"load1", "load5", "load15", "nr_running", "nr_threads">>
Activity == <<"ctxt", "processes", "procs_running", "procs_blocked">>
Pressure == <<"some", "full">>   \* each three averages
Mem == <<"mem_total", "mem_available", "mem_free", "buffers", "cached", "swap_total",
         "swap_free", "anon_pages", "sreclaimable", "shmem", "dirty", "writeback",
         "commit_limit", "committed_as">>
Vm == <<"pgfault", "pgmajfault", "pswpin", "pswpout", "pgscan_kswapd", "pgscan_direct",
        "pgsteal_kswapd", "pgsteal_direct", "workingset_refault", "nr_dirty", "nr_writeback">>
Disk == <<"reads_completed", "reads_merged", "sectors_read", "read_ticks", "writes_completed",
          "writes_merged", "sectors_written", "write_ticks", "in_flight", "io_ticks", "weighted">>
Gpu == <<"util", "mem_util", "mem_used", "mem_total", "temperature", "power", "power_limit",
         "energy", "sm_clock", "mem_clock", "pcie_rx", "pcie_tx", "encoder", "decoder",
         "throttle", "ecc_sbe", "ecc_dbe", "retired_pages">>
Tcp == <<"active_opens", "passive_opens", "attempt_fails", "estab_resets", "curr_estab",
         "in_segs", "out_segs", "retrans_segs", "in_errs", "out_rsts", "listen_overflows",
         "listen_drops", "backlog_drop", "rcv_q_drop", "syn_retrans", "timeouts",
         "memory_pressures">>
UdpAndMem == <<"udp_in_datagrams", "udp_no_ports", "udp_in_errors", "udp_out_datagrams",
               "udp_rcvbuf_errors", "udp_sndbuf_errors", "tcp_sock_mem", "udp_sock_mem",
               "frag_sock_mem">>
TcpStates == <<"established", "syn_sent", "syn_recv", "fin_wait1", "fin_wait2", "time_wait",
               "close", "close_wait", "last_ack", "listen", "closing", "rqueue", "wqueue">>
CgroupCpu == <<"usage_usec", "user_usec", "system_usec", "nr_periods", "nr_throttled",
               "throttled_usec">>
CgroupMemory == <<"current", "max", "low", "high", "events_max", "oom", "oom_kill">>
ProcStatus == <<"vm_rss", "rss_anon", "rss_file", "rss_shmem", "vm_swap">>
ProcIo == <<"rchar", "wchar", "read_bytes", "write_bytes", "syscr", "syscw">>
ProcSched == <<"exec_runtime", "run_delay", "switch_count">>

----------------------------------------------------------------------------
\* The lists of each group: fields as they are read with the bit each sets, columns
\* of the INSERT, and the field bound to each position with the bit it asks for.

OwnBit(fields) == [i \in DOMAIN fields |-> i - 1]
OneBit(fields) == [i \in DOMAIN fields |-> 0]
NoBit(fields) == [i \in DOMAIN fields |-> Plain]

Straight(fields, sets, asks) ==
  [fields |-> fields, sets |-> sets, columns |-> fields, bound |-> fields, asks |-> asks]

\* Fault: the writer counts the bits from one.
FaultMasked(fields) == Straight(fields, OwnBit(fields), [i \in DOMAIN fields |-> i])
\* mem and vm: bit i of valid_mask is the i-th field.
Masked(fields) == Straight(fields, OwnBit(fields), OwnBit(fields))

\* host_disk: the INSERT has io_ticks where the writer goes on with read_ticks, so
\* that the columns from there on hold the field of their right neighbour.  For the
\* last column, which the code binds the mask to, none of the fields is left.
DiskGroup ==
  [fields |-> Disk, sets |-> OwnBit(Disk),
   columns |-> <<"reads_completed", "writes_completed", "sectors_read", "sectors_written",
                 "io_ticks", "read_ticks", "write_ticks", "reads_merged", "writes_merged",
                 "in_flight", "weighted">>,
   bound |-> <<"reads_completed", "writes_completed", "sectors_read", "sectors_written",
               "read_ticks", "write_ticks", "reads_merged", "writes_merged", "in_flight",
               "weighted">>,
   asks |-> <<0, 4, 2, 6, 3, 7, 1, 5, 8, 10>>]

\* gpu_device: the integers that have 64 bits ask for their bit, the others do not.
GpuAsks == {2, 3, 7, 10, 11, 15, 16, 17}
GpuGroup == Straight(Gpu, OwnBit(Gpu), [i \in DOMAIN Gpu |-> IF i - 1 \in GpuAsks THEN i - 1 ELSE Plain])

\* One flag for all the fields of a part: tcp_states_valid, cpu_valid, memory_valid,
\* status_valid, io_valid, sched_valid.
Flagged(fields) == Straight(fields, OneBit(fields), OneBit(fields))
\* Columns without a flag.
Unmasked(fields) == Straight(fields, NoBit(fields), NoBit(fields))

Groups ==
  [totals |-> Unmasked(Totals), load |-> Unmasked(LoadAverage), activity |-> Unmasked(Activity),
   psi |-> Masked(Pressure), mem |-> Masked(Mem), vm |-> Masked(Vm), disk |-> DiskGroup, gpu |-> GpuGroup,
   tcp |-> Unmasked(Tcp), udp |-> Unmasked(UdpAndMem), states |-> Flagged(TcpStates),
   cpu |-> Flagged(CgroupCpu), memory |-> Flagged(CgroupMemory),
   status |-> Flagged(ProcStatus), io |-> Flagged(ProcIo), sched |-> Flagged(ProcSched)]
The == Groups[group]

----------------------------------------------------------------------------
\* What a tick may find

\* All the parts but a few, or none.
Found(parts) ==
  {UNION (parts \ out) : out \in UNION {kSubset(n, parts) : n \in 0..MaxMissing}} \cup {{}}
Each(fields) == {{f} : f \in All(fields)}

\* Of a line of /proc/stat the first eight are read or none, and then what there is
\* of the two of the guests; loadavg has all or none.
FoundInStat == {{}} \cup {All(SubSeq(Totals, 1, n)) : n \in 8..10}
\* A line of diskstats ends early on an old kernel; with less than one counter it is
\* no row.
FoundInDiskstats == {All(SubSeq(Disk, 1, n)) : n \in 1..Len(Disk)}
\* NVML has one call for used and total, and mem_util if total is not zero.
FoundByNvml ==
  LET memory == {"mem_used", "mem_total"}
      others == {{f} : f \in All(Gpu) \ (memory \cup {"mem_util"})}
  IN  Found(others \cup {memory}) \cup Found(others \cup {memory \cup {"mem_util"}})
\* sysfs has fewer, the three of memory together.
FoundByDrm ==
  Found(Each(<<"util", "temperature", "power", "power_limit", "sm_clock">>)
          \cup {{"mem_used", "mem_total", "mem_util"}})

FoundIn(g) ==
  CASE g = "totals" -> FoundInStat
    [] g \in {"load", "states", "status", "io", "sched"} -> {{}, All(Groups[g].fields)}
    [] g = "disk" -> FoundInDiskstats
    [] g = "gpu" -> CASE active = "nvml" -> FoundByNvml
                      [] active = "drm" -> FoundByDrm
                      [] OTHER -> {{}}
    [] g \in {"activity", "psi", "mem", "vm", "tcp", "udp", "cpu", "memory"} -> Found(Each(Groups[g].fields))

----------------------------------------------------------------------------
\* A tick

\* ParsePsi has one set of averages: the line that comes later, full, is in both.
LineOf(f, found) == IF f = "some" /\ "full" \in found THEN "full" ELSE f

\* Each Snapshot fills in a new struct.
Filled(found, parity) ==
  LET g == The IN
  [value |-> [f \in All(g.fields) |-> IF f \in found THEN <<LineOf(f, found), parity>> ELSE Zero],
   mask |-> {g.sets[i] : i \in {j \in DOMAIN g.fields : g.fields[j] \in found}}]

\* The columns of a row, by position; a parameter that is not bound is NULL.
Written(s) ==
  LET g == The IN
  [i \in DOMAIN g.columns |->
     IF i \in DOMAIN g.bound /\ g.asks[i] \in s.mask \cup {Plain} THEN s.value[g.bound[i]] ELSE SqlNull]

\* to_json: every field under its name, read or not, and the mask or the flag.
ToJson(s) == [fields |-> s.value, valid_mask |-> s.mask]

SnapshotsInit ==
  /\ group \in DOMAIN Groups
  /\ active = "" /\ tick = 0 /\ read = {}
  /\ snapshot = Filled({}, 0) /\ row = Written(snapshot) /\ document = ToJson(snapshot)

\* GpuMetrics::Init closes what was active; auto tries NVML and then DRM, and if
\* what is tried fails nothing is active.
InitGpu ==
  /\ group = "gpu"
  /\ \E source \in {"auto", "off", "nvml", "drm"}, works \in SUBSET {"nvml", "drm"} :
       active' = CASE source = "off" -> "off"
                   [] source \in {"nvml", "drm"} -> IF source \in works THEN source ELSE ""
                   [] source = "auto" -> IF "nvml" \in works THEN "nvml"
                                         ELSE IF "drm" \in works THEN "drm" ELSE ""
  /\ UNCHANGED <<group, tick, read, snapshot, row, document>>

\* Snapshot, WriteHostRow and the serialisation of one group.
HostTickOf ==
  /\ tick' = 1 - tick
  /\ read' \in FoundIn(group)
  /\ snapshot' = Filled(read', tick') /\ row' = Written(snapshot') /\ document' = ToJson(snapshot')
  /\ UNCHANGED <<group, active>>

SnapshotsNext == InitGpu \/ HostTickOf

SnapshotsSpec == SnapshotsInit /\ [][SnapshotsNext]_snapshotVars

----------------------------------------------------------------------------
\* Properties

\* Groups in which a field that was not read is written as zero: those without a
\* mask, and of a GPU the columns whose writer does not ask.
ZeroIfUnread(f) ==
  \/ group \in {"totals", "load", "activity", "tcp", "udp"}
  \/ group = "gpu" /\ \E i \in DOMAIN Gpu : Gpu[i] = f /\ (i - 1) \notin GpuAsks
  \/ group \in {"cpu", "memory"} /\ read # {}

OwnColumn(i) ==
  LET f == The.columns[i] IN
  row[i] = IF f \in read THEN <<LineOf(f, read), tick>> ELSE IF ZeroIfUnread(f) THEN Zero ELSE SqlNull

\* A column holds what this tick read for it, and NULL if this tick did not read it:
\* never a neighbour's value, one of an earlier tick, or a zero nobody measured.  Exempt
\* are the groups that have no mask, or one for many fields, and of host_disk the
\* columns from io_ticks on; and the columns of some pressure, which show that of full
\* where there is one.  What the model is sent is the same, with zeros that only the
\* mask tells from measured ones.
ShownIffRead ==
  /\ \A i \in DOMAIN The.columns : (group = "disk" => i <= 4) => OwnColumn(i)
  /\ \A f \in All(The.fields) : document.fields[f] = IF f \in read THEN <<LineOf(f, read), tick>> ELSE Zero
=============================================================================
