--------------------------- MODULE TargetSelector ---------------------------
(***************************************************************************)
(* Which threads the kernel records: TargetSelector ranks the processes of *)
(* the table the host tick has read, lets processes in and out with        *)
(* hysteresis, gives each selected process its most active threads within  *)
(* a thread budget, and applies the difference to the kernel's targets map.*)
(*                                                                         *)
(* Scores are abstracted to what they are used for: an evaluation chooses  *)
(* an order of the processes and, for each, an order of its threads.  The  *)
(* table is any set of threads, since threads and processes come and go    *)
(* and process ids are used again.                                         *)
(***************************************************************************)
EXTENDS SequencesExt, Integers

CONSTANTS
  Procs,       \* process ids
  Tids,        \* thread ids
  ProcOf,      \* the process of each thread
  PinnedSets,  \* values of targets.pinned at start-up
  Configs,     \* configurations a reload may produce
  EffCpus,     \* HardwareProbe::eff_cpus
  RingSlots,   \* HardwareProbe::ring_slots
  MaxEvals     \* bound: evaluations in one session

ASSUME SelectorConstants ==
  /\ IsFiniteSet(Tids) /\ IsFiniteSet(Procs)
  /\ ProcOf \in [Tids -> Procs]
  /\ PinnedSets \subseteq SUBSET Tids
  /\ EffCpus \in Nat \ {0} /\ RingSlots \in Nat \ {0}
  /\ MaxEvals \in Nat
  /\ \A c \in Configs :
       /\ c.autoScale \in BOOLEAN
       /\ c.maxTargets \in 1..1024 /\ c.minTargets \in 1..c.maxTargets
       /\ c.perProc \in 1..256 /\ c.factor \in 1..64 /\ c.ringTicks \in Nat
       /\ c.enterRank \in 1..1024 /\ c.leaveRank \in c.enterRank..4096
       /\ c.hold \in 1..1000 /\ c.residency \in Nat

VARIABLES
  cfg,       \* the configuration in force
  budget,    \* thread_budget_
  pinned,    \* pinned_
  state,     \* pstate_, for every process id; see Unknown
  members,   \* members_
  targets,   \* the keys of the kernel's targets map
  evals,     \* evaluations so far: history_.size(), and the time of the last one
  scored,    \* history: the budget and the table of the last scored evaluation
  badRun     \* history: for how many evaluations each process has ranked badly

vars == <<cfg, budget, pinned, state, members, targets, evals, scored, badRun>>

Unknown == [known |-> FALSE, member |-> FALSE, pinnedProc |-> FALSE,
            good |-> 0, bad |-> 0, joined |-> 0]

TypeOK ==
  /\ cfg \in Configs
  /\ budget \in 1..1024
  /\ pinned \subseteq Tids /\ members \subseteq Tids /\ targets \subseteq Tids
  /\ evals \in 0..MaxEvals
  /\ state \in [Procs -> [known : BOOLEAN, member : BOOLEAN, pinnedProc : BOOLEAN,
                        good : 0..evals, bad : 0..evals, joined : 0..evals]]
  /\ \A p \in Procs : /\ state[p].member => state[p].known
                      /\ state[p].pinnedProc => state[p].member
  /\ scored.table \subseteq Tids /\ badRun \in [Procs -> 0..evals]

Least(a, b) == IF a <= b THEN a ELSE b

\* Probe.  ringTicks is the number of recorder ticks of the backlog to be kept.
ScaledBudget(c) ==
  Least(Least(EffCpus * c.factor, RingSlots \div (IF c.ringTicks = 0 THEN 1 ELSE c.ringTicks)),
        c.maxTargets)

\* Fault: a backlog longer than the ring leaves no budget at all (TypeOK).
FaultThreadBudget(c) == IF c.autoScale THEN ScaledBudget(c) ELSE c.maxTargets

ThreadBudget(c) ==
  CASE ~c.autoScale                   -> c.maxTargets
    [] ScaledBudget(c) < c.minTargets -> c.minTargets
    [] OTHER                          -> ScaledBudget(c)

\* ApplyPinned and Probe, before the loop starts.
Init ==
  /\ cfg \in Configs
  /\ budget = ThreadBudget(cfg)
  /\ pinned \in PinnedSets
  /\ state = [p \in Procs |->
       IF \E t \in pinned : ProcOf[t] = p
       THEN [Unknown EXCEPT !.known = TRUE, !.member = TRUE, !.pinnedProc = TRUE]
       ELSE Unknown]
  /\ members = pinned
  /\ targets = pinned
  /\ evals = 0
  /\ scored = [budget |-> 0, table |-> {}]
  /\ badRun = [p \in Procs |-> 0]

---------------------------------------------------------------------------
(* One evaluation.  ranking lists the processes of the table by score.     *)

Observed(table) == {ProcOf[t] : t \in table}

ProcsBelow(ranking, rank) == {ranking[i] : i \in 1..Least(rank, Len(ranking))}

\* Steps 6 and 7: the streaks.
Counted(ranking) ==
  [p \in Procs |->
    LET s == [state[p] EXCEPT !.known = @ \/ p \in ToSet(ranking)]
    IN  IF s.pinnedProc \/ ~s.known THEN s
        ELSE IF s.member
        THEN [s EXCEPT !.bad = IF p \in ProcsBelow(ranking, cfg.leaveRank) THEN 0 ELSE @ + 1]
        ELSE [s EXCEPT !.good = IF p \in ProcsBelow(ranking, cfg.enterRank) THEN @ + 1 ELSE 0]]

\* Fault: one period too few (LeaveNeedsHold).
FaultLeaving(st, now) ==
  {p \in Procs : /\ st[p].member /\ ~st[p].pinnedProc
                 /\ st[p].bad + 1 >= cfg.hold
                 /\ now - st[p].joined >= cfg.residency}

Leaving(st, now) ==
  {p \in Procs : /\ st[p].member /\ ~st[p].pinnedProc
                 /\ st[p].bad >= cfg.hold
                 /\ now - st[p].joined >= cfg.residency}

Left(st, now) ==
  [p \in Procs |->
    IF p \in Leaving(st, now) THEN [st[p] EXCEPT !.member = FALSE, !.bad = 0] ELSE st[p]]

\* Step 8: those that waited long enough join by rank while there is room.
ProcBudget ==
  LET n == budget \div cfg.perProc IN IF n < 1 THEN 1 ELSE n

Joining(ranking, counted, left) ==
  LET waiting == {p \in Procs : /\ ~counted[p].member /\ counted[p].known
                                /\ counted[p].good >= cfg.hold}
      turn(i) == Cardinality({k \in 1..i : ranking[k] \in waiting})
      room    == ProcBudget - Cardinality({p \in Procs : left[p].member})
  IN  {ranking[i] : i \in {k \in 1..Len(ranking) : ranking[k] \in waiting /\ turn(k) <= room}}

Joined(ranking, counted, left, now) ==
  [p \in Procs |->
    IF p \in Joining(ranking, counted, left)
    THEN [left[p] EXCEPT !.member = TRUE, !.good = 0, !.joined = now] ELSE left[p]]

Leading(seq, n) == {seq[i] : i \in 1..Least(n, Len(seq))}

\* Step 9: the loop desires base and then, one process of order after the other, the
\* first perProc threads of each.  What it desires after the j-th of the i-th:
DesiredAt(base, threads, order, i, j) ==
  LET before == {Leading(threads[order[k]], cfg.perProc) : k \in 1..(i - 1)}
  IN  base \cup (UNION before) \cup Leading(threads[order[i]], j)
Stages(base, threads, order) ==
  {DesiredAt(base, threads, order, i, j) : i \in 1..Len(order), j \in 0..cfg.perProc}

\* Fault: the size is compared with > (BudgetRespected).
FaultFits(desired) == Cardinality(desired) <= budget + 1

\* The loop goes on to a thread that is not desired yet only below the budget.
Fits(desired) == Cardinality(desired) <= budget

\* What it has desired when it is over.
Selected(base, threads, order) ==
  base \cup (UNION {d \in Stages(base, threads, order) : Fits(d)})

\* Fault: a process that takes part in the fallback must be a new one, so a
\* member without threads keeps the recorder empty (RecorderNeverEmpty).
FaultNeedsFallback(desired, st) ==
  desired = {} /\ \A p \in Procs : ~st[p].member

NeedsFallback(desired, st) == desired = {}

\* Steps 9 and 10: the desired threads, the selected processes in the order of an
\* unordered_map, the fallback to the top process if there are none, and the
\* difference applied to the kernel's map.
Apply(table, ranking, st, now) ==
  \E threads \in {f \in [Observed(table) -> UNION {SetToSeqs({t \in table : ProcOf[t] = p}) : p \in Procs}] :
                    \A p \in Observed(table) : ToSet(f[p]) = {t \in table : ProcOf[t] = p}} :
  \E order \in SetToSeqs({p \in Observed(table) : st[p].member}) :
    LET desired == Selected(pinned, threads, order)
        top == ranking[1]
        new == IF NeedsFallback(desired, st) THEN Selected({}, threads, <<top>>) ELSE desired
    IN  /\ state' = IF NeedsFallback(desired, st)
                    THEN [st EXCEPT ![top].member = TRUE, ![top].joined = now]
                    ELSE st
        /\ members' = new
        /\ targets' = (targets \ (members \ new)) \cup (new \ members)

\* The whole of Evaluate.  The first one only records the base of the window.
Evaluate(table, ranking) ==
  LET now     == evals + 1
      counted == Counted(ranking)
      left    == Left(counted, now)
  IN  /\ evals < MaxEvals
      /\ evals' = now
      /\ IF evals = 0
         THEN UNCHANGED <<state, members, targets, scored, badRun>>
         ELSE /\ Apply(table, ranking, Joined(ranking, counted, left, now), now)
              /\ scored' = [budget |-> budget, table |-> table]
              /\ badRun' = [p \in Procs |->
                   IF p \in ProcsBelow(ranking, cfg.leaveRank) THEN 0 ELSE badRun[p] + 1]
      /\ UNCHANGED <<cfg, budget, pinned>>

\* A reload probes again; what is pinned stays as it was at start-up.
Reload ==
  /\ cfg' \in Configs \ {cfg}
  /\ budget' = ThreadBudget(cfg')
  /\ UNCHANGED <<pinned, state, members, targets, evals, scored, badRun>>

Next ==
  \/ \E table \in (SUBSET Tids) \ {{}} :
       \E ranking \in SetToSeqs(Observed(table)) : Evaluate(table, ranking)
  \/ Reload

Spec == Init /\ [][Next]_vars

---------------------------------------------------------------------------
(* Properties. *)

\* The kernel records no more threads than the budget of the last evaluation
\* allows, unless more are pinned, and the pinned ones always.
BudgetRespected ==
  /\ pinned \subseteq targets
  /\ scored.table # {} =>
       Cardinality(targets) <= scored.budget \/ targets = pinned

\* "Never leave the recorder empty when there is anything to watch": after a
\* scored evaluation the kernel records a thread of its table or a pinned one,
\* also when every selected process is gone.
RecorderNeverEmpty ==
  scored.table # {} => targets \cap (scored.table \cup pinned) # {}

\* A process leaves only after it ranked below leave_rank in hold_periods
\* evaluations in a row, all of them since it joined last, and a pinned one never:
\* no single spike of another process moves it out.
LeaveNeedsHold ==
  [][\A p \in Procs : state[p].member /\ ~state'[p].member =>
       /\ ~state[p].pinnedProc
       /\ badRun'[p] >= cfg.hold
       /\ evals' - state[p].joined >= cfg.hold]_vars

=============================================================================
