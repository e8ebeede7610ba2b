-------------------------- MODULE MCTargetSelector --------------------------
(***************************************************************************)
(* An instance of TargetSelector for TLC: a process with two threads and   *)
(* two with one each.                                                      *)
(***************************************************************************)
EXTENDS TargetSelector

MCProcOf == [t \in {"a1", "a2", "b1", "c1"} |->
               CASE t \in {"a1", "a2"} -> "a" [] t = "b1" -> "b" [] t = "c1" -> "c"]

MCConfig(auto, max, min, perProc, enter, leave, hold, residency) ==
  [autoScale |-> auto, maxTargets |-> max, minTargets |-> min, perProc |-> perProc,
   factor |-> 2, ringTicks |-> 0, enterRank |-> enter, leaveRank |-> leave,
   hold |-> hold, residency |-> residency]

\* Budgets of three (the ring's share), and of one, as the ring is too small for
\* the backlog; streaks of two and of one.
MCConfigs == {[MCConfig(TRUE, 8, 1, 2, 1, 2, 2, 2) EXCEPT !.ringTicks = 3],
              [MCConfig(TRUE, 8, 1, 2, 2, 2, 1, 1) EXCEPT !.ringTicks = 10]}

=============================================================================
