----------------------------- MODULE MCCollector -----------------------------
(***************************************************************************)
(* Instances of Collector for TLC.  The system call hooks are reduced to   *)
(* their primary entry, which the kernel may refuse like any other, and    *)
(* the empty fallback to a pair that always attaches.                      *)
(***************************************************************************)
EXTENDS Collector

MCNoHooks == <<>>

MCConfig(host, feature, post, deb, fine, deepFine) ==
  [host |-> host, feature |-> feature, post |-> post, debounce |-> deb,
   fine |-> fine, deepFine |-> deepFine]

\* The host is sampled as often as the features are built, which is the default.
MCLockstep == {MCConfig(1, 1, 2, 1, 100, 20), MCConfig(3, 3, 1, 1, 50, 20)}

\* The same with different intervals of the recorder, which a reload may change.
MCTwoConfigs == {MCConfig(1, 1, 2, 1, 100, 20), MCConfig(1, 1, 1, 1, 50, 20)}

\* One configuration, so that a reload changes nothing.
MCOneConfig == {MCConfig(1, 1, 2, 1, 100, 20)}

=============================================================================
