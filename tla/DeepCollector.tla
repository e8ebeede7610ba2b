--------------------------- MODULE DeepCollector ---------------------------
(***************************************************************************)
(* Entry into and exit from deep collection: DeepCollector::Enter, ::Exit, *)
(* ::AttachDeepLinks and the OutputWriter calls they make, which key the   *)
(* rows of an episode by its ordinal.                                      *)
(*                                                                         *)
(* Attaching is a negotiation with the kernel: every program may be        *)
(* refused.  System calls have a primary pair and a fallback pair, one of  *)
(* which must attach completely; VFS reads and writes have the same but    *)
(* may end up with neither; every other hook is optional.  Which programs  *)
(* the kernel accepts is the parameter ok of an attempt.                   *)
(*                                                                         *)
(* The module only defines operators; PhaseManager calls them.             *)
(***************************************************************************)
EXTENDS Integers, Sequences

CONSTANTS
  SysPrimary,     \* fentry_sys, fexit_sys, in attach order
  SysFallback,    \* on_sys_enter, on_sys_exit
  VfsPrimary,     \* fentry/fexit_vfs_read, fentry/fexit_vfs_write
  VfsFallback,    \* kprobe/kretprobe_vfs_read, kprobe/kretprobe_vfs_write
  OptionalHooks,  \* offcpu_schedule, on_process_exit and the network hooks
  OffCpuHook,     \* offcpu_schedule
  MaxOrdinal      \* bound: episodes attempted in one session

Range1(s) == {s[i] : i \in 1..Len(s)}

Programs == Range1(SysPrimary) \cup Range1(SysFallback) \cup Range1(VfsPrimary)
              \cup Range1(VfsFallback) \cup OptionalHooks

ASSUME DeepConstants ==
  /\ SysPrimary \in Seq(Programs) /\ SysFallback \in Seq(Programs)
  /\ VfsPrimary \in Seq(Programs) /\ VfsFallback \in Seq(Programs)
  /\ OffCpuHook \in OptionalHooks
  /\ MaxOrdinal \in Nat

VARIABLES
  deepEnabled,     \* the deep_enabled flag the in-kernel programs test
  offcpuFallback,  \* the offcpu_fallback flag on_switch tests
  deepLinks,       \* deep_links_: the programs with a live bpf_link
  profiling,       \* perf_fds_ is not empty
  active,          \* active_
  writerOrdinal,   \* OutputWriter::ordinal_, -1 for none
  episodeRow       \* the deep_episodes table: state of each ordinal's row

deepVars == <<deepEnabled, offcpuFallback, deepLinks, profiling, active,
              writerOrdinal, episodeRow>>

Ordinals == 1..MaxOrdinal

DeepTypeOK ==
  /\ deepEnabled \in BOOLEAN
  /\ offcpuFallback \in BOOLEAN
  /\ deepLinks \in SUBSET Programs
  /\ profiling \in BOOLEAN
  /\ active \in BOOLEAN
  /\ writerOrdinal \in Ordinals \cup {-1}
  /\ episodeRow \in [Ordinals -> {"absent", "inserted", "summarised"}]

DeepInit ==
  /\ deepEnabled = FALSE
  /\ offcpuFallback = FALSE
  /\ deepLinks = {}
  /\ profiling = FALSE
  /\ active = FALSE
  /\ writerOrdinal = -1
  /\ episodeRow = [n \in Ordinals |-> "absent"]

---------------------------------------------------------------------------
(* What AttachDeepLinks leaves attached. *)

AllAttach(s, ok) == Range1(s) \subseteq ok

\* The programs of s attached before the first refusal stops the loop.
AttachedPrefix(s, ok) ==
  {s[i] : i \in {j \in 1..Len(s) : \A k \in 1..j : s[k] \in ok}}

SyscallLinks(ok) ==
  AttachedPrefix(SysPrimary, ok)
    \cup (IF AllAttach(SysPrimary, ok) THEN {} ELSE AttachedPrefix(SysFallback, ok))

SyscallCovered(ok) == AllAttach(SysPrimary, ok) \/ AllAttach(SysFallback, ok)

\* A refused VFS fallback program is skipped, not the end of the loop.
VfsLinks(ok) ==
  AttachedPrefix(VfsPrimary, ok)
    \cup (IF AllAttach(VfsPrimary, ok) THEN {} ELSE Range1(VfsFallback) \cap ok)

DeepLinks(ok) == SyscallLinks(ok) \cup (OptionalHooks \cap ok) \cup VfsLinks(ok)

---------------------------------------------------------------------------
\* Enter, when every mandatory step succeeds.
DeepEnter(ordinal, ok, prof) ==
  /\ SyscallCovered(ok)
  /\ deepEnabled' = TRUE
  /\ offcpuFallback' = (OffCpuHook \notin ok)
  /\ deepLinks' = deepLinks \cup DeepLinks(ok)
  /\ profiling' = prof
  /\ active' = TRUE
  /\ writerOrdinal' = ordinal
  /\ episodeRow' = [episodeRow EXCEPT ![ordinal] = "inserted"]

\* Enter, when neither system call pair attaches: the flag is cleared, what was
\* attached so far keeps its link.
DeepEnterUncovered(ok) ==
  /\ ~SyscallCovered(ok)
  /\ deepEnabled' = FALSE
  /\ deepLinks' = deepLinks \cup SyscallLinks(ok)
  /\ UNCHANGED <<offcpuFallback, profiling, active, writerOrdinal, episodeRow>>

\* Enter, when the episode row cannot be inserted: Exit runs before active_ is
\* set, so the writer keeps the ordinal.
DeepEnterNoRow(ordinal, ok) ==
  /\ SyscallCovered(ok)
  /\ deepEnabled' = FALSE
  /\ offcpuFallback' = (OffCpuHook \notin ok)
  /\ deepLinks' = {}
  /\ profiling' = FALSE
  /\ active' = FALSE
  /\ writerOrdinal' = IF active THEN -1 ELSE ordinal
  /\ UNCHANGED episodeRow

DeepExit ==
  /\ deepEnabled' = FALSE
  /\ deepLinks' = {}
  /\ profiling' = FALSE
  /\ active' = FALSE
  /\ writerOrdinal' = IF active THEN -1 ELSE writerOrdinal
  /\ UNCHANGED offcpuFallback

\* WriteMeta and WriteSummary: an UPDATE of the row the writer is keyed to.
SummariseRow ==
  episodeRow' = IF writerOrdinal \in Ordinals /\ episodeRow[writerOrdinal] # "absent"
                THEN [episodeRow EXCEPT ![writerOrdinal] = "summarised"]
                ELSE episodeRow

=============================================================================
