--------------------------- MODULE MCPhaseManager ---------------------------
(***************************************************************************)
(* Instances of PhaseManager for TLC.                                      *)
(*                                                                         *)
(* One optional hook stands for all fourteen, and one VFS entry/exit pair  *)
(* for the read and the write pair; both keep their order of attachment.   *)
(***************************************************************************)
EXTENDS PhaseManager

MCSysPrimary == <<"fentry_sys", "fexit_sys">>
MCSysFallback == <<"on_sys_enter", "on_sys_exit">>
MCVfsPrimary == <<"fentry_vfs_read", "fexit_vfs_read">>
MCVfsFallback == <<"kprobe_vfs_read", "kretprobe_vfs_read">>
MCNoHooks == <<>>

=============================================================================
