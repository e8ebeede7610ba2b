------------------------ MODULE TargetSelectorProofs ------------------------
(***************************************************************************)
(* What TargetSelector promises, for any processes and threads, budgets,   *)
(* configurations and pinned sets.                                         *)
(***************************************************************************)
EXTENDS TargetSelector, FiniteSetTheorems, WellFoundedInduction, TLAPS

\* members_ and the kernel's map hold the same threads.
MapFollows == members = targets

\* A streak is no longer than the run of bad ranks it stands for, and began after
\* the process joined.
Streaks(st, runs, now) ==
  \A p \in Procs :
    /\ st[p].bad <= runs[p]
    /\ ~st[p].member \/ st[p].pinnedProc => st[p].bad = 0
    /\ st[p].joined + st[p].bad <= now
StreakInv == Streaks(state, badRun, evals)

States(n) == [known : BOOLEAN, member : BOOLEAN, pinnedProc : BOOLEAN,
              good : 0..n, bad : 0..n, joined : 0..n]
Typed(st, n) ==
  /\ st \in [Procs -> States(n)]
  /\ \A p \in Procs : /\ st[p].member => st[p].known
                      /\ st[p].pinnedProc => st[p].member

IInv == TypeOK /\ MapFollows /\ StreakInv /\ BudgetRespected /\ RecorderNeverEmpty

---------------------------------------------------------------------------
\* Numbers and finite sets

\* A set of numbers that is not empty has a least element.
LEMMA LeastNatural ==
  ASSUME NEW S \in SUBSET Nat, S # {}
  PROVE  \E m \in S : \A k \in S : m <= k
<1> DEFINE R == {ss \in Nat \X Nat : ss[1] < ss[2]}
<1>1. IsWellFoundedOn(R, Nat)
  BY NatLessThanWellFounded DEF OpToRel
<1>2. PICK m \in S : \A k \in S : <<k, m>> \notin R
  BY <1>1, WFMin
<1>3. ASSUME NEW k \in S  PROVE m <= k
  <2>1. k \in Nat /\ m \in Nat /\ <<k, m>> \notin R
    BY <1>2
  <2> QED
    BY <2>1
<1> QED
  BY <1>3

\* A bounded set of numbers that is not empty has a greatest element.
LEMMA GreatestNatural ==
  ASSUME NEW S \in SUBSET Nat, S # {}, NEW n \in Nat, \A k \in S : k <= n
  PROVE  \E m \in S : \A k \in S : k <= m
<1> DEFINE T == {n - k : k \in S}
<1>1. T \in SUBSET Nat /\ T # {}
  <2>1. \A k \in S : n - k \in Nat
    OBVIOUS
  <2> QED
    BY <2>1
<1>2. PICK t \in T : \A u \in T : t <= u
  BY <1>1, LeastNatural
<1>3. PICK m \in S : t = n - m
  OBVIOUS
<1>4. ASSUME NEW k \in S  PROVE k <= m
  <2>1. n - k \in T /\ k \in Nat /\ m \in Nat
    OBVIOUS
  <2> QED
    BY <1>2, <1>3, <2>1
<1> QED
  BY <1>4

\* The union of a chain of finite sets with at most n elements has at most n.
LEMMA ChainUnion ==
  ASSUME NEW C, NEW n \in Nat, C # {},
         \A d \in C : IsFiniteSet(d) /\ Cardinality(d) <= n,
         \A d, e \in C : d \subseteq e \/ e \subseteq d
  PROVE  UNION C \in C
<1> DEFINE S == {Cardinality(d) : d \in C}
<1>1. S \in SUBSET Nat /\ S # {} /\ \A k \in S : k <= n
  BY FS_CardinalityType
<1>2. PICK m \in S : \A k \in S : k <= m
  BY <1>1, GreatestNatural
<1>3. PICK d \in C : m = Cardinality(d)
  OBVIOUS
<1>4. ASSUME NEW e \in C  PROVE e \subseteq d
  <2>1. CASE d \subseteq e
    <3>1. Cardinality(d) <= Cardinality(e) /\ (Cardinality(e) = Cardinality(d) => e = d)
      BY <2>1, FS_Subset
    <3>2. Cardinality(e) <= Cardinality(d) /\ Cardinality(e) \in Nat /\ Cardinality(d) \in Nat
      BY <1>1, <1>2, <1>3
    <3> QED
      BY <3>1, <3>2
  <2> QED
    BY <2>1
<1>5. UNION C = d
  BY <1>4
<1> QED
  BY <1>5

---------------------------------------------------------------------------
\* The selection of threads

LEMMA ConfigTyped ==
  ASSUME TypeOK
  PROVE  /\ cfg.perProc \in Nat /\ cfg.perProc >= 1 /\ cfg.hold \in Nat /\ cfg.hold >= 1
         /\ cfg.leaveRank \in Nat /\ cfg.leaveRank >= 1
         /\ budget \in Nat /\ budget >= 1
<1>1. cfg \in Configs /\ budget \in 1..1024
  BY DEF TypeOK
<1>2. /\ cfg.perProc \in 1..256 /\ cfg.hold \in 1..1000
      /\ cfg.enterRank \in 1..1024 /\ cfg.leaveRank \in cfg.enterRank..4096
  BY <1>1, SelectorConstants
<1>3. cfg.enterRank \in Nat /\ cfg.enterRank >= 1
  BY <1>2, SMTT(20)
<1>4. cfg.leaveRank \in Nat /\ cfg.leaveRank >= 1
  BY <1>2, <1>3
<1>5. cfg.perProc \in Nat /\ cfg.perProc >= 1
  <2>1. cfg.perProc \in 1..256
    BY <1>2
  <2> QED
    BY <2>1
<1>6. cfg.hold \in Nat /\ cfg.hold >= 1
  <2>1. cfg.hold \in 1..1000
    BY <1>2
  <2> QED
    BY <2>1, SMTT(20)
<1>7. budget \in Nat /\ budget >= 1
  BY <1>1
<1> QED
  BY <1>4, <1>5, <1>6, <1>7

\* More leading threads are a superset of fewer.
LEMMA LeadingGrows ==
  ASSUME NEW T, NEW seq \in Seq(T), NEW i \in Nat, NEW j \in Nat, i <= j
  PROVE  Leading(seq, i) \subseteq Leading(seq, j) /\ Leading(seq, j) \subseteq T
<1>1. /\ Len(seq) \in Nat /\ \A k \in 1..Len(seq) : seq[k] \in T
      /\ Least(i, Len(seq)) \in Nat /\ Least(j, Len(seq)) \in Nat
      /\ Least(i, Len(seq)) <= Least(j, Len(seq)) /\ Least(j, Len(seq)) <= Len(seq)
  BY DEF Least
<1> QED
  BY <1>1 DEF Leading

\* What the loop desires only grows.
LEMMA StagesChain ==
  ASSUME TypeOK, NEW T, NEW D, NEW threads \in [D -> Seq(T)], NEW order \in Seq(D), NEW base
  PROVE  /\ \A d, e \in Stages(base, threads, order) : d \subseteq e \/ e \subseteq d
         /\ \A d \in Stages(base, threads, order) : base \subseteq d /\ d \subseteq base \cup T
<1> DEFINE at(i, j) == DesiredAt(base, threads, order, i, j)
           P == cfg.perProc
<1>1. P \in Nat
  BY ConfigTyped
<1>2. /\ Len(order) \in Nat
      /\ \A i \in 1..Len(order) : order[i] \in D /\ threads[order[i]] \in Seq(T)
  OBVIOUS
<1> HIDE DEF P
<1>3. ASSUME NEW i \in 1..Len(order), NEW j \in 0..P, NEW k \in 1..Len(order), NEW l \in 0..P,
             i < k \/ (i = k /\ j <= l)
      PROVE  at(i, j) \subseteq at(k, l)
  <2>1. CASE i = k /\ j <= l
    <3>1. Leading(threads[order[i]], j) \subseteq Leading(threads[order[k]], l)
      BY <1>1, <1>2, <2>1, LeadingGrows
    <3> QED
      BY <2>1, <3>1 DEF DesiredAt
  <2>2. CASE i < k
    <3>1. Leading(threads[order[i]], j) \subseteq Leading(threads[order[i]], P)
      BY <1>1, <1>2, LeadingGrows
    <3>2. i \in 1..(k - 1) /\ 1..(i - 1) \subseteq 1..(k - 1)
      BY <2>2
    <3>3. /\ Leading(threads[order[i]], j)
               \subseteq UNION {Leading(threads[order[m]], P) : m \in 1..(k - 1)}
          /\ UNION {Leading(threads[order[m]], P) : m \in 1..(i - 1)}
               \subseteq UNION {Leading(threads[order[m]], P) : m \in 1..(k - 1)}
      BY <3>1, <3>2
    <3> QED
      BY <3>3 DEF DesiredAt, P
  <2> QED
    BY <1>3, <2>1, <2>2
<1>4. ASSUME NEW i \in 1..Len(order), NEW j \in 0..P
      PROVE  base \subseteq at(i, j) /\ at(i, j) \subseteq base \cup T
  <2>1. \A k \in 1..(i - 1) : Leading(threads[order[k]], P) \subseteq T
    <3>1. \A k \in 1..(i - 1) : k \in 1..Len(order)
      BY <1>2
    <3> QED
      BY <1>1, <1>2, <3>1, LeadingGrows
  <2>2. Leading(threads[order[i]], j) \subseteq T
    BY <1>1, <1>2, LeadingGrows
  <2> QED
    BY <2>1, <2>2 DEF DesiredAt, P
<1> HIDE DEF at
<1>5. Stages(base, threads, order) = {at(i, j) : i \in 1..Len(order), j \in 0..P}
  BY DEF Stages, at, P
<1>6. ASSUME NEW i \in 1..Len(order), NEW j \in 0..P, NEW k \in 1..Len(order), NEW l \in 0..P
      PROVE  at(i, j) \subseteq at(k, l) \/ at(k, l) \subseteq at(i, j)
  <2>1. i < k \/ (i = k /\ j <= l) \/ k < i \/ (k = i /\ l <= j)
    BY <1>1, <1>2
  <2> QED
    BY <1>3, <2>1
<1> HIDE DEF P
<1>7. \A d \in Stages(base, threads, order) :
        \E i \in 1..Len(order), j \in 0..P : d = at(i, j)
  BY <1>5
<1>8. ASSUME NEW d \in Stages(base, threads, order)
      PROVE  base \subseteq d /\ d \subseteq base \cup T
  BY <1>4, <1>7
<1>9. ASSUME NEW d \in Stages(base, threads, order), NEW e \in Stages(base, threads, order)
      PROVE  d \subseteq e \/ e \subseteq d
  BY <1>6, <1>7
<1> QED
  BY <1>8, <1>9

\* The threads desired respect the budget, unless they are no more than base.
LEMMA SelectedFits ==
  ASSUME TypeOK, NEW T \in SUBSET Tids, NEW D, NEW threads \in [D -> Seq(T)],
         NEW order \in Seq(D), NEW base \in SUBSET Tids
  PROVE  /\ base \subseteq Selected(base, threads, order)
         /\ Selected(base, threads, order) \subseteq base \cup T
         /\ \/ Selected(base, threads, order) = base
            \/ Cardinality(Selected(base, threads, order)) <= budget
<1> DEFINE S == Stages(base, threads, order)
           C == {d \in S : Fits(d)}
<1>1. /\ \A d, e \in C : d \subseteq e \/ e \subseteq d
      /\ \A d \in C : base \subseteq d /\ d \subseteq base \cup T
  <2>1. /\ \A d, e \in S : d \subseteq e \/ e \subseteq d
        /\ \A d \in S : base \subseteq d /\ d \subseteq base \cup T
    BY StagesChain, SMTT(20)
  <2> HIDE DEF S
  <2> QED
    BY <2>1
<1>2. Selected(base, threads, order) = base \cup (UNION C)
  BY DEF Selected
<1>3. ASSUME C # {}
      PROVE  Cardinality(base \cup (UNION C)) <= budget
  <2>1. \A d \in C : IsFiniteSet(d) /\ Cardinality(d) <= budget
    <3> SUFFICES ASSUME NEW d \in C
                 PROVE  IsFiniteSet(d) /\ Cardinality(d) <= budget
      OBVIOUS
    <3>1. d \in SUBSET Tids
      BY <1>1
    <3> QED
      BY <3>1, FS_Subset, SelectorConstants DEF Fits
  <2>2. budget \in Nat
    BY DEF TypeOK
  <2>3. UNION C \in C
    <3> HIDE DEF C
    <3> QED
      BY <1>1, <1>3, <2>1, <2>2, ChainUnion
  <2>4. base \cup (UNION C) = UNION C
    BY <1>1, <2>3
  <2> QED
    BY <2>1, <2>3, <2>4
<1>4. CASE C = {}
  BY <1>2, <1>4
<1>5. CASE C # {}
  BY <1>1, <1>2, <1>3, <1>5
<1> QED
  BY <1>4, <1>5

\* The fallback desires at least the first thread of the process it is given.
LEMMA FallbackSelects ==
  ASSUME TypeOK, NEW T, NEW D, NEW threads \in [D -> Seq(T)], NEW top \in D,
         threads[top] # << >>
  PROVE  Selected({}, threads, <<top>>) \cap T # {}
<1>1. cfg.perProc \in Nat /\ cfg.perProc >= 1 /\ budget \in Nat /\ budget >= 1
  BY ConfigTyped
<1> DEFINE seq == threads[top]
<1>2. Len(seq) \in Nat /\ Len(seq) >= 1 /\ seq[1] \in T
  OBVIOUS
<1>3. Leading(seq, 1) = {seq[1]}
  BY <1>2 DEF Leading, Least
<1> DEFINE first == DesiredAt({}, threads, <<top>>, 1, 1)
<1>4. first = {seq[1]}
  <2>1. 1..(1 - 1) = {} /\ <<top>>[1] = top
    OBVIOUS
  <2> QED
    BY <1>3, <2>1 DEF DesiredAt
<1>5. first \in Stages({}, threads, <<top>>)
  BY <1>1 DEF Stages
<1>6. Fits(first)
  BY <1>1, <1>4, FS_Singleton DEF Fits
<1> HIDE DEF first
<1> QED
  BY <1>2, <1>4, <1>5, <1>6 DEF Selected

---------------------------------------------------------------------------
\* The streaks, for an evaluation that ranks the processes as ranking.

Runs(ranking) ==
  [p \in Procs |-> IF p \in ProcsBelow(ranking, cfg.leaveRank) THEN 0 ELSE badRun[p] + 1]

\* Counting ranks keeps streaks within runs of bad ranks.
LEMMA CountedInv ==
  ASSUME TypeOK, StreakInv, NEW ranking
  PROVE  /\ Typed(Counted(ranking), evals + 1)
         /\ Streaks(Counted(ranking), Runs(ranking), evals + 1)
         /\ Runs(ranking) \in [Procs -> 0..(evals + 1)]
         /\ \A p \in Procs :
              LET s == Counted(ranking)[p]
              IN  /\ s.member <=> state[p].member
                  /\ s.pinnedProc <=> state[p].pinnedProc
                  /\ s.joined = state[p].joined
                  /\ p \in ToSet(ranking) => s.known
                  /\ p \in ProcsBelow(ranking, cfg.leaveRank) => s.bad = 0
<1> DEFINE st == Counted(ranking)
<1>1. evals \in Nat /\ badRun \in [Procs -> 0..evals]
  BY SelectorConstants DEF TypeOK
<1>2. Runs(ranking) \in [Procs -> 0..(evals + 1)]
  BY <1>1 DEF Runs
<1>3. st = [p \in Procs |-> st[p]]
  BY DEF Counted
<1>4. ASSUME NEW p \in Procs
      PROVE  /\ st[p] \in States(evals + 1)
             /\ st[p].member <=> state[p].member
             /\ st[p].pinnedProc <=> state[p].pinnedProc
             /\ st[p].joined = state[p].joined
             /\ state[p].known \/ p \in ToSet(ranking) => st[p].known
             /\ st[p].bad = 0 \/ (/\ st[p].bad = state[p].bad + 1
                                  /\ st[p].member /\ ~st[p].pinnedProc
                                  /\ p \notin ProcsBelow(ranking, cfg.leaveRank))
  <2> DEFINE s == [state[p] EXCEPT !.known = @ \/ p \in ToSet(ranking)]
             below(r) == p \in ProcsBelow(ranking, r)
  <2>1. /\ state[p] \in States(evals)
        /\ state[p].member => state[p].known
        /\ ~state[p].member \/ state[p].pinnedProc => state[p].bad = 0
    BY DEF TypeOK, StreakInv, Streaks, States
  <2>2. /\ s \in States(evals)
        /\ s.known <=> (state[p].known \/ p \in ToSet(ranking))
        /\ s.member <=> state[p].member
        /\ s.pinnedProc <=> state[p].pinnedProc
        /\ s.good = state[p].good /\ s.bad = state[p].bad /\ s.joined = state[p].joined
    BY <2>1 DEF States
  <2>3. st[p] = IF s.pinnedProc \/ ~s.known THEN s
                ELSE IF s.member
                THEN [s EXCEPT !.bad = IF below(cfg.leaveRank) THEN 0 ELSE @ + 1]
                ELSE [s EXCEPT !.good = IF below(cfg.enterRank) THEN @ + 1 ELSE 0]
    BY DEF Counted
  <2> HIDE DEF s, st
  <2>4. CASE s.pinnedProc \/ ~s.known
    <3>1. st[p] = s /\ s \in States(evals + 1)
      BY <1>1, <2>2, <2>3, <2>4 DEF States
    <3> QED
      BY <2>1, <2>2, <2>4, <3>1
  <2>5. CASE ~s.pinnedProc /\ s.known /\ s.member
    <3>1. st[p] = [s EXCEPT !.bad = IF below(cfg.leaveRank) THEN 0 ELSE @ + 1]
      BY <2>3, <2>5
    <3>2. /\ st[p] \in States(evals + 1)
          /\ st[p].known <=> s.known
          /\ st[p].member <=> s.member
          /\ st[p].pinnedProc <=> s.pinnedProc
          /\ st[p].joined = s.joined
          /\ st[p].bad = IF below(cfg.leaveRank) THEN 0 ELSE s.bad + 1
      BY <1>1, <2>2, <3>1 DEF States
    <3> QED
      BY <2>2, <2>5, <3>2
  <2>6. CASE ~s.pinnedProc /\ s.known /\ ~s.member
    <3>1. st[p] = [s EXCEPT !.good = IF below(cfg.enterRank) THEN @ + 1 ELSE 0]
      BY <2>3, <2>6
    <3>2. /\ st[p] \in States(evals + 1)
          /\ st[p].known <=> s.known
          /\ st[p].member <=> s.member
          /\ st[p].pinnedProc <=> s.pinnedProc
          /\ st[p].joined = s.joined
          /\ st[p].bad = s.bad
      BY <1>1, <2>2, <3>1 DEF States
    <3> QED
      BY <2>1, <2>2, <2>6, <3>2
  <2> QED
    BY <2>4, <2>5, <2>6
<1>5. \A p \in Procs : /\ state[p].member => state[p].known
                       /\ state[p].pinnedProc => state[p].member
                       /\ state[p].bad \in Nat /\ state[p].joined \in Nat /\ badRun[p] \in Nat
                       /\ state[p].bad <= badRun[p]
                       /\ state[p].joined + state[p].bad <= evals
                       /\ state[p].joined <= evals
  BY <1>1 DEF TypeOK, StreakInv, Streaks
<1> HIDE DEF st
<1>6. Typed(st, evals + 1)
  BY <1>3, <1>4, <1>5 DEF Typed
<1>7. Streaks(st, Runs(ranking), evals + 1)
  BY <1>1, <1>4, <1>5 DEF Streaks, Runs
<1>8. \A p \in Procs : p \in ProcsBelow(ranking, cfg.leaveRank) => st[p].bad = 0
  BY <1>4
<1> QED
  BY <1>2, <1>4, <1>6, <1>7, <1>8 DEF st

\* Leaving and joining keep what the streaks promise.
LEMMA JoinedInv ==
  ASSUME TypeOK, StreakInv, NEW ranking
  PROVE  LET st == Joined(ranking, Counted(ranking), Left(Counted(ranking), evals + 1), evals + 1)
         IN  /\ Typed(st, evals + 1) /\ Streaks(st, Runs(ranking), evals + 1)
             /\ \A p \in Procs :
                  /\ p \in ToSet(ranking) => st[p].known
                  /\ p \in ProcsBelow(ranking, cfg.leaveRank) => st[p].bad = 0
                  /\ state[p].member /\ ~st[p].member
                       => p \in Leaving(Counted(ranking), evals + 1)
<1> DEFINE counted == Counted(ranking)
           left == Left(counted, evals + 1)
           st == Joined(ranking, counted, left, evals + 1)
<1>1. /\ Typed(counted, evals + 1) /\ Streaks(counted, Runs(ranking), evals + 1)
      /\ Runs(ranking) \in [Procs -> 0..(evals + 1)]
      /\ \A p \in Procs : /\ counted[p].member <=> state[p].member
                          /\ p \in ToSet(ranking) => counted[p].known
                          /\ p \in ProcsBelow(ranking, cfg.leaveRank) => counted[p].bad = 0
  BY CountedInv
<1>2. evals + 1 \in Nat /\ evals + 1 \in 0..(evals + 1) /\ 0 \in 0..(evals + 1)
  BY SelectorConstants DEF TypeOK
<1> HIDE DEF counted
<1>3. ASSUME NEW p \in Procs
      PROVE  /\ left[p] \in States(evals + 1)
             /\ left[p].known <=> counted[p].known
             /\ left[p].pinnedProc <=> counted[p].pinnedProc
             /\ left[p].joined = counted[p].joined /\ left[p].bad \in {0, counted[p].bad}
             /\ \/ left[p] = counted[p]
                \/ /\ p \in Leaving(counted, evals + 1) /\ ~counted[p].pinnedProc
                   /\ ~left[p].member /\ left[p].bad = 0
  <2>1. counted[p] \in States(evals + 1)
    BY <1>1 DEF Typed
  <2>2. CASE p \in Leaving(counted, evals + 1)
    <3>1. left[p] = [counted[p] EXCEPT !.member = FALSE, !.bad = 0]
      BY <2>2 DEF Left
    <3>2. ~counted[p].pinnedProc
      BY <2>2 DEF Leaving
    <3> QED
      BY <1>2, <2>1, <2>2, <3>1, <3>2 DEF States
  <2>3. CASE p \notin Leaving(counted, evals + 1)
    BY <2>1, <2>3 DEF Left
  <2> QED
    BY <2>2, <2>3
<1> HIDE DEF left
<1>4. ASSUME NEW p \in Procs
      PROVE  /\ st[p] \in States(evals + 1)
             /\ st[p].known <=> left[p].known
             /\ st[p].pinnedProc <=> left[p].pinnedProc
             /\ st[p].bad = left[p].bad
             /\ \/ st[p] = left[p]
                \/ /\ st[p].member /\ st[p].joined = evals + 1 /\ st[p].known /\ ~counted[p].member
  <2>1. CASE p \in Joining(ranking, counted, left)
    <3>1. st[p] = [left[p] EXCEPT !.member = TRUE, !.good = 0, !.joined = evals + 1]
      BY <2>1 DEF Joined
    <3>2. ~counted[p].member /\ counted[p].known
      BY <2>1 DEF Joining
    <3> DEFINE now == evals + 1
    <3>3. left[p] \in States(now) /\ now \in 0..now /\ 0 \in 0..now
      BY <1>2, <1>3
    <3>4. st[p] = [left[p] EXCEPT !.member = TRUE, !.good = 0, !.joined = now]
      BY <3>1
    <3> HIDE DEF now
    <3>5. /\ st[p] \in States(now) /\ st[p].member /\ st[p].joined = now
          /\ st[p].known <=> left[p].known
          /\ st[p].pinnedProc <=> left[p].pinnedProc
          /\ st[p].bad = left[p].bad
      BY <3>3, <3>4 DEF States
    <3>6. left[p].known
      BY <1>3, <3>2
    <3> QED
      BY <3>2, <3>5, <3>6 DEF now
  <2>2. CASE p \notin Joining(ranking, counted, left)
    BY <1>3, <2>2 DEF Joined
  <2> QED
    BY <2>1, <2>2
<1>5. st = [p \in Procs |-> st[p]]
  BY DEF Joined
<1> HIDE DEF st
<1>6. \A p \in Procs : /\ counted[p].member => counted[p].known
                       /\ counted[p].pinnedProc => counted[p].member
                       /\ counted[p].bad <= Runs(ranking)[p]
                       /\ ~counted[p].member \/ counted[p].pinnedProc => counted[p].bad = 0
                       /\ counted[p].joined + counted[p].bad <= evals + 1
                       /\ Runs(ranking)[p] \in Nat
                       /\ counted[p].joined \in 0..(evals + 1) /\ counted[p].bad \in Nat
  BY <1>1, <1>2 DEF Typed, Streaks, States
<1>7. Typed(st, evals + 1)
  BY <1>3, <1>4, <1>5, <1>6 DEF Typed
<1>8. Streaks(st, Runs(ranking), evals + 1)
  <2> SUFFICES ASSUME NEW p \in Procs
               PROVE  /\ st[p].bad <= Runs(ranking)[p]
                      /\ ~st[p].member \/ st[p].pinnedProc => st[p].bad = 0
                      /\ st[p].joined + st[p].bad <= evals + 1
    BY DEF Streaks
  <2>1. st[p].bad \in {0, counted[p].bad} /\ st[p].bad = left[p].bad
    BY <1>3, <1>4
  <2>2. CASE st[p] = left[p]
    BY <1>2, <1>3, <1>6, <2>1, <2>2
  <2>3. CASE st[p].joined = evals + 1 /\ ~counted[p].member
    BY <1>2, <1>6, <2>1, <2>3
  <2> QED
    BY <1>4, <2>2, <2>3
<1>9. \A p \in Procs : /\ p \in ToSet(ranking) => st[p].known
                       /\ p \in ProcsBelow(ranking, cfg.leaveRank) => st[p].bad = 0
                       /\ state[p].member /\ ~st[p].member => p \in Leaving(counted, evals + 1)
  <2> SUFFICES ASSUME NEW p \in Procs
               PROVE  /\ p \in ToSet(ranking) => st[p].known
                      /\ p \in ProcsBelow(ranking, cfg.leaveRank) => st[p].bad = 0
                      /\ state[p].member /\ ~st[p].member => p \in Leaving(counted, evals + 1)
    OBVIOUS
  <2>1. p \in ToSet(ranking) => st[p].known
    BY <1>1, <1>3, <1>4
  <2>2. p \in ProcsBelow(ranking, cfg.leaveRank) => st[p].bad = 0
    BY <1>1, <1>3, <1>4
  <2>3. state[p].member /\ ~st[p].member => p \in Leaving(counted, evals + 1)
    BY <1>1, <1>3, <1>4
  <2> QED
    BY <2>1, <2>2, <2>3
<1> QED
  BY <1>7, <1>8, <1>9 DEF st, left, counted

---------------------------------------------------------------------------
\* An evaluation

LEMMA Orders ==
  ASSUME NEW S, IsFiniteSet(S), NEW seq \in SetToSeqs(S)
  PROVE  seq \in Seq(S) /\ (S # {} => Len(seq) >= 1) /\ Len(seq) \in Nat
<1>1. Cardinality(S) \in Nat /\ (S # {} => Cardinality(S) >= 1)
  BY FS_CardinalityType, FS_EmptySet
<1>2. seq \in [1..Cardinality(S) -> S]
  BY DEF SetToSeqs
<1> QED
  BY <1>1, <1>2

LEMMA TableFinite ==
  ASSUME NEW table \in SUBSET Tids
  PROVE  /\ IsFiniteSet(table) /\ IsFiniteSet(Observed(table)) /\ Observed(table) \subseteq Procs
         /\ table # {} => Observed(table) # {}
<1>1. Observed(table) \subseteq Procs
  BY SelectorConstants DEF Observed
<1> QED
  BY <1>1, FS_Subset, SelectorConstants DEF Observed

\* What Apply puts into the map fits the budget, or is what is pinned, and is not empty.
LEMMA ApplyInv ==
  ASSUME IInv, NEW table \in (SUBSET Tids) \ {{}}, NEW ranking \in SetToSeqs(Observed(table)),
         NEW st, Typed(st, evals + 1), NEW runs \in [Procs -> Nat], Streaks(st, runs, evals + 1),
         \A p \in Procs : /\ p \in ToSet(ranking) => st[p].known
                          /\ p \in ProcsBelow(ranking, cfg.leaveRank) => st[p].bad = 0,
         Apply(table, ranking, st, evals + 1)
  PROVE  /\ Typed(state', evals + 1) /\ Streaks(state', runs, evals + 1)
         /\ \A p \in Procs : st[p].member => state'[p].member
         /\ members' = targets' /\ members' \subseteq Tids /\ pinned \subseteq targets'
         /\ Cardinality(targets') <= budget \/ targets' = pinned
         /\ targets' \cap (table \cup pinned) # {}
<1> DEFINE D == Observed(table)
<1>1. PICK threads \in {f \in [D -> UNION {SetToSeqs({t \in table : ProcOf[t] = p}) : p \in Procs}] :
                           \A p \in D : ToSet(f[p]) = {t \in table : ProcOf[t] = p}},
           order \in SetToSeqs({p \in D : st[p].member}) :
        LET desired == Selected(pinned, threads, order)
            top == ranking[1]
            new == IF NeedsFallback(desired, st) THEN Selected({}, threads, <<top>>) ELSE desired
        IN  /\ state' = IF NeedsFallback(desired, st)
                        THEN [st EXCEPT ![top].member = TRUE, ![top].joined = evals + 1]
                        ELSE st
            /\ members' = new
            /\ targets' = (targets \ (members \ new)) \cup (new \ members)
  BY DEF Apply
<1>2. /\ TypeOK /\ members = targets /\ pinned \in SUBSET Tids /\ table \in SUBSET Tids
  BY DEF IInv, MapFollows, TypeOK
<1>3. /\ IsFiniteSet(table) /\ IsFiniteSet(D) /\ D # {} /\ D \subseteq Procs
  BY TableFinite
<1>4. threads \in [D -> Seq(table)]
  <2>1. ASSUME NEW p \in D  PROVE threads[p] \in Seq(table)
    <3>1. PICK q \in Procs : threads[p] \in SetToSeqs({t \in table : ProcOf[t] = q})
      BY <1>1
    <3>2. IsFiniteSet({t \in table : ProcOf[t] = q})
      BY <1>3, FS_Subset
    <3>3. threads[p] \in Seq({t \in table : ProcOf[t] = q})
      BY <3>1, <3>2, Orders
    <3> QED
      BY <3>3
  <2> QED
    BY <1>1, <2>1
<1>5. order \in Seq(D)
  <2>1. IsFiniteSet({p \in D : st[p].member})
    BY <1>3, FS_Subset
  <2>2. order \in Seq({p \in D : st[p].member})
    BY <1>1, <2>1, Orders
  <2> QED
    BY <2>2
<1> DEFINE top == ranking[1]
           desired == Selected(pinned, threads, order)
           fallback == Selected({}, threads, <<top>>)
<1>6. /\ top \in D /\ top \in Procs /\ top \in ToSet(ranking)
      /\ top \in ProcsBelow(ranking, cfg.leaveRank)
  <2>1. ranking \in Seq(D) /\ Len(ranking) \in Nat /\ Len(ranking) >= 1
    BY <1>3, Orders
  <2>2. 1 \in 1..Least(cfg.leaveRank, Len(ranking)) /\ 1 \in DOMAIN ranking
    BY <1>2, <2>1, ConfigTyped DEF Least
  <2> QED
    BY <1>3, <2>1, <2>2 DEF ToSet, ProcsBelow
<1>7. /\ pinned \subseteq desired /\ desired \subseteq pinned \cup table
      /\ desired = pinned \/ Cardinality(desired) <= budget
  BY <1>2, <1>4, <1>5, SelectedFits
<1>8. /\ fallback \subseteq table
      /\ fallback = {} \/ Cardinality(fallback) <= budget
  <2>1. <<top>> \in Seq(D)
    BY <1>6
  <2>2. {} \in SUBSET Tids
    OBVIOUS
  <2> HIDE DEF D, top
  <2>3. /\ fallback \subseteq {} \cup table
        /\ fallback = {} \/ Cardinality(fallback) <= budget
    BY <1>2, <1>4, <2>1, <2>2, SelectedFits
  <2> QED
    BY <2>3
<1>9. fallback \cap table # {}
  <2>1. threads[top] # << >>
    <3>1. PICK t \in table : ProcOf[t] = top
      BY <1>6 DEF Observed
    <3>2. t \in ToSet(threads[top])
      BY <1>1, <1>6, <3>1
    <3> QED
      BY <3>2 DEF ToSet
  <2> QED
    BY <1>2, <1>4, <1>6, <2>1, FallbackSelects
<1>10. evals + 1 \in Nat
  BY <1>2, SelectorConstants DEF TypeOK
<1> HIDE DEF desired, fallback, top, D
<1>11. CASE desired # {}
  <2>1. state' = st /\ members' = desired /\ targets' = desired
    BY <1>1, <1>2, <1>11 DEF NeedsFallback, desired
  <2> QED
    BY <1>2, <1>7, <1>11, <2>1
<1>12. CASE desired = {}
  <2>1. /\ state' = [st EXCEPT ![top].member = TRUE, ![top].joined = evals + 1]
        /\ members' = fallback /\ targets' = fallback
    BY <1>1, <1>2, <1>12 DEF NeedsFallback, desired, fallback, top
  <2>2. pinned = {}
    BY <1>7, <1>12
  <2>3. /\ st \in [Procs -> States(evals + 1)] /\ st[top].known /\ st[top].bad = 0
        /\ \A p \in Procs : /\ st[p].member => st[p].known
                            /\ st[p].pinnedProc => st[p].member
    BY <1>6 DEF Typed
  <2>4. /\ state'[top] = [st[top] EXCEPT !.member = TRUE, !.joined = evals + 1]
        /\ \A p \in Procs \ {top} : state'[p] = st[p]
        /\ DOMAIN state' = Procs /\ state' = [p \in Procs |-> state'[p]]
    BY <1>6, <2>1, <2>3
  <2>5. /\ state'[top] \in States(evals + 1) /\ state'[top].member /\ state'[top].known
        /\ state'[top].joined = evals + 1 /\ state'[top].bad = 0
    <3> DEFINE now == evals + 1
    <3>1. st[top] \in States(now) /\ now \in 0..now
      BY <1>6, <1>10, <2>3
    <3>2. state'[top] = [st[top] EXCEPT !.member = TRUE, !.joined = now]
      BY <2>4
    <3> HIDE DEF now
    <3>3. /\ state'[top] \in States(now) /\ state'[top].member
          /\ state'[top].known <=> st[top].known
          /\ state'[top].joined = now /\ state'[top].bad = st[top].bad
      BY <3>1, <3>2 DEF States
    <3> QED
      BY <2>3, <3>3 DEF now
  <2>6. Typed(state', evals + 1)
    BY <2>3, <2>4, <2>5 DEF Typed
  <2>7. Streaks(state', runs, evals + 1)
    <3> SUFFICES ASSUME NEW p \in Procs
                 PROVE  /\ state'[p].bad <= runs[p]
                        /\ ~state'[p].member \/ state'[p].pinnedProc => state'[p].bad = 0
                        /\ state'[p].joined + state'[p].bad <= evals + 1
      BY DEF Streaks
    <3>1. CASE p = top
      BY <1>10, <2>5, <3>1
    <3>2. CASE p # top
      BY <2>4, <3>2 DEF Streaks
    <3> QED
      BY <3>1, <3>2
  <2>8. \A p \in Procs : st[p].member => state'[p].member
    BY <2>4, <2>5
  <2> QED
    BY <1>2, <1>8, <1>9, <2>1, <2>2, <2>6, <2>7, <2>8
<1> QED
  BY <1>11, <1>12

\* An evaluation keeps the invariant.
LEMMA EvaluateInv ==
  ASSUME IInv, NEW table \in (SUBSET Tids) \ {{}}, NEW ranking \in SetToSeqs(Observed(table)),
         Evaluate(table, ranking)
  PROVE  /\ IInv'
         /\ \A p \in Procs : state[p].member /\ ~state'[p].member =>
              /\ ~state[p].pinnedProc
              /\ badRun'[p] >= cfg.hold
              /\ evals' - state[p].joined >= cfg.hold
<1>1. /\ TypeOK /\ StreakInv /\ evals \in Nat /\ evals < MaxEvals /\ evals' = evals + 1
      /\ UNCHANGED <<cfg, budget, pinned>>
  BY SelectorConstants DEF IInv, TypeOK, Evaluate
<1>2. evals' \in 0..MaxEvals
  BY <1>1, SelectorConstants
<1>3. CASE evals = 0
  <2>1. UNCHANGED <<state, members, targets, scored, badRun>>
    BY <1>3 DEF Evaluate
  <2>2. /\ state \in [Procs -> States(evals')] /\ badRun \in [Procs -> 0..evals']
    <3>1. /\ state \in [Procs -> States(evals)] /\ badRun \in [Procs -> 0..evals]
      BY <1>1 DEF TypeOK, States
    <3>2. 0..evals \subseteq 0..evals' /\ States(evals) \subseteq States(evals')
      BY <1>1 DEF States
    <3> QED
      BY <3>1, <3>2
  <2>3. TypeOK'
    BY <1>1, <1>2, <2>1, <2>2 DEF TypeOK, States
  <2>4. StreakInv'
    BY <1>1, <1>3, <2>1, <2>2 DEF StreakInv, Streaks, States, TypeOK
  <2>5. MapFollows' /\ BudgetRespected' /\ RecorderNeverEmpty'
    BY <1>1, <2>1 DEF IInv, MapFollows, BudgetRespected, RecorderNeverEmpty
  <2> QED
    BY <2>1, <2>3, <2>4, <2>5 DEF IInv
<1>4. CASE evals # 0
  <2> DEFINE counted == Counted(ranking)
             st == Joined(ranking, counted, Left(counted, evals + 1), evals + 1)
             runs == Runs(ranking)
  <2>1. /\ Apply(table, ranking, st, evals + 1)
        /\ scored' = [budget |-> budget, table |-> table]
        /\ badRun' = runs
    BY <1>1, <1>4 DEF Evaluate, Runs
  <2>2. /\ Typed(st, evals + 1) /\ Streaks(st, runs, evals + 1)
        /\ \A p \in Procs :
             /\ p \in ToSet(ranking) => st[p].known
             /\ p \in ProcsBelow(ranking, cfg.leaveRank) => st[p].bad = 0
             /\ state[p].member /\ ~st[p].member => p \in Leaving(counted, evals + 1)
    BY <1>1, JoinedInv
  <2>3. /\ Streaks(counted, runs, evals + 1) /\ runs \in [Procs -> 0..(evals + 1)]
        /\ \A p \in Procs : /\ counted[p].pinnedProc <=> state[p].pinnedProc
                            /\ counted[p].joined = state[p].joined
    BY <1>1, CountedInv
  <2>4. runs \in [Procs -> Nat]
    BY <1>1, <2>3
  <2> HIDE DEF counted, st, runs
  <2>5. /\ Typed(state', evals + 1) /\ Streaks(state', runs, evals + 1)
        /\ \A p \in Procs : st[p].member => state'[p].member
        /\ members' = targets' /\ members' \subseteq Tids /\ pinned \subseteq targets'
        /\ Cardinality(targets') <= budget \/ targets' = pinned
        /\ targets' \cap (table \cup pinned) # {}
    BY <2>1, <2>2, <2>4, ApplyInv
  <2>6. TypeOK'
    BY <1>1, <1>2, <2>1, <2>3, <2>5 DEF TypeOK, Typed, States
  <2>7. MapFollows' /\ StreakInv' /\ BudgetRespected' /\ RecorderNeverEmpty'
    BY <1>1, <2>1, <2>5 DEF MapFollows, StreakInv, BudgetRespected, RecorderNeverEmpty
  <2>8. ASSUME NEW p \in Procs, state[p].member, ~state'[p].member
        PROVE  /\ ~state[p].pinnedProc
               /\ badRun'[p] >= cfg.hold
               /\ evals' - state[p].joined >= cfg.hold
    <3>1. p \in Leaving(counted, evals + 1)
      BY <2>2, <2>5, <2>8
    <3>2. ~counted[p].pinnedProc /\ counted[p].bad >= cfg.hold
      BY <3>1 DEF Leaving
    <3>3. counted[p].bad <= runs[p] /\ counted[p].joined + counted[p].bad <= evals + 1
      BY <2>3 DEF Streaks
    <3>4. /\ counted[p].bad \in Nat /\ counted[p].joined \in Nat /\ runs[p] \in Nat
          /\ cfg.hold \in Nat
      <4>1. Typed(counted, evals + 1)
        BY <1>1, CountedInv DEF counted
      <4> QED
        BY <1>1, <2>4, <4>1, ConfigTyped DEF Typed, States
    <3> QED
      BY <1>1, <2>1, <2>3, <3>2, <3>3, <3>4
  <2> QED
    BY <2>6, <2>7, <2>8 DEF IInv
<1> QED
  BY <1>3, <1>4

---------------------------------------------------------------------------
\* The first state, a reload, and the theorems.

LEMMA BudgetTyped ==
  ASSUME NEW c \in Configs
  PROVE  ThreadBudget(c) \in 1..1024
<1> DEFINE ticks == IF c.ringTicks = 0 THEN 1 ELSE c.ringTicks
           byCpu == EffCpus * c.factor
           byRing == RingSlots \div ticks
<1>1. /\ c.maxTargets \in 1..1024 /\ c.minTargets \in 1..c.maxTargets
      /\ c.factor \in Nat /\ ticks \in Nat /\ ticks >= 1 /\ EffCpus \in Nat /\ RingSlots \in Nat
  BY SelectorConstants
<1> HIDE DEF ticks
<1>2. byCpu \in Int /\ byRing \in Int
  BY <1>1
<1> HIDE DEF byCpu, byRing
<1>3. ScaledBudget(c) = Least(Least(byCpu, byRing), c.maxTargets)
  BY DEF ScaledBudget, byCpu, byRing, ticks
<1>4. ScaledBudget(c) \in Int /\ ScaledBudget(c) <= c.maxTargets
  BY <1>1, <1>2, <1>3 DEF Least
<1> DEFINE max == c.maxTargets  min == c.minTargets  scaled == ScaledBudget(c)
           result == ThreadBudget(c)
<1>5. result = max \/ result = min \/ (result = scaled /\ ~(scaled < min))
  BY DEF ThreadBudget
<1>6. max \in 1..1024 /\ min \in 1..max /\ scaled \in Int /\ scaled <= max
  BY <1>1, <1>4
<1> HIDE DEF max, min, scaled, result
<1>7. result \in 1..1024
  BY <1>5, <1>6, SMTT(20)
<1> QED
  BY <1>7 DEF result

LEMMA InitInv ==
  ASSUME Init
  PROVE  IInv
<1>1. /\ cfg \in Configs /\ budget \in 1..1024 /\ pinned \in SUBSET Tids
      /\ members = pinned /\ targets = pinned /\ evals = 0
      /\ scored.table = {} /\ badRun = [p \in Procs |-> 0]
  BY BudgetTyped, SelectorConstants DEF Init
<1>2. ASSUME NEW p \in Procs
      PROVE  /\ state[p] \in States(0)
             /\ state[p].member => state[p].known
             /\ state[p].pinnedProc => state[p].member
  <2>1. \/ state[p] = Unknown
        \/ state[p] = [Unknown EXCEPT !.known = TRUE, !.member = TRUE, !.pinnedProc = TRUE]
    BY DEF Init
  <2>2. CASE state[p] = Unknown
    BY <2>2 DEF Unknown, States
  <2>3. CASE state[p] # Unknown
    <3>1. state[p] = [known |-> TRUE, member |-> TRUE, pinnedProc |-> TRUE,
                      good |-> 0, bad |-> 0, joined |-> 0]
      BY <2>1, <2>3 DEF Unknown
    <3> QED
      BY <3>1 DEF States
  <2> QED
    BY <2>2, <2>3
<1>3. state \in [Procs -> States(0)]
  <2>1. state = [p \in Procs |-> state[p]]
    BY DEF Init
  <2> QED
    BY <1>2, <2>1
<1>4. badRun \in [Procs -> 0..evals] /\ evals \in 0..MaxEvals
  BY <1>1, SelectorConstants
<1>5. TypeOK
  BY <1>1, <1>2, <1>3, <1>4 DEF TypeOK, States
<1>6. StreakInv
  BY <1>1, <1>2 DEF StreakInv, Streaks, States
<1>7. MapFollows /\ BudgetRespected /\ RecorderNeverEmpty
  BY <1>1 DEF MapFollows, BudgetRespected, RecorderNeverEmpty
<1> QED
  BY <1>5, <1>6, <1>7 DEF IInv

\* A reload changes the configuration and the budget of the evaluations to come.
LEMMA ReloadInv ==
  ASSUME IInv, Reload
  PROVE  IInv'
<1>1. /\ cfg' \in Configs /\ budget' \in 1..1024
      /\ UNCHANGED <<pinned, state, members, targets, evals, scored, badRun>>
  BY BudgetTyped DEF Reload
<1>2. TypeOK'
  BY <1>1 DEF IInv, TypeOK, States
<1>3. StreakInv'
  BY <1>1 DEF IInv, StreakInv, Streaks
<1>4. MapFollows' /\ BudgetRespected' /\ RecorderNeverEmpty'
  BY <1>1 DEF IInv, MapFollows, BudgetRespected, RecorderNeverEmpty
<1> QED
  BY <1>2, <1>3, <1>4 DEF IInv

LEMMA StutterInv ==
  ASSUME IInv, UNCHANGED vars
  PROVE  IInv'
  BY DEF IInv, TypeOK, MapFollows, StreakInv, Streaks, BudgetRespected, RecorderNeverEmpty, vars

\* The strengthening is inductive: it holds in the first state, and every evaluation and
\* every reload keeps it.
THEOREM InvariantHolds == Spec => []IInv
<1>1. Init => IInv
  BY InitInv
<1>2. IInv /\ [Next]_vars => IInv'
  <2> SUFFICES ASSUME IInv, [Next]_vars
               PROVE  IInv'
    OBVIOUS
  <2>1. CASE \E table \in (SUBSET Tids) \ {{}} :
               \E ranking \in SetToSeqs(Observed(table)) : Evaluate(table, ranking)
    BY <2>1, EvaluateInv
  <2>2. CASE Reload
    BY <2>2, ReloadInv
  <2>3. CASE UNCHANGED vars
    BY <2>3, StutterInv
  <2> QED
    BY <2>1, <2>2, <2>3 DEF Next
<1> QED
  BY <1>1, <1>2, PTL DEF Spec

\* The selection's state keeps its type: a member is a known process, a pinned one a
\* member, and streaks and join times never run ahead of the evaluations.
THEOREM SelectorTypeCorrect == Spec => []TypeOK
<1>1. IInv => TypeOK
  BY DEF IInv
<1> QED
  BY <1>1, InvariantHolds, PTL

\* Whatever Evaluate (target_selector.cpp) selects, the kernel's map holds no more threads
\* than the budget of that evaluation, unless more are pinned.
THEOREM BudgetKept == Spec => []BudgetRespected
<1>1. IInv => BudgetRespected
  BY DEF IInv
<1> QED
  BY <1>1, InvariantHolds, PTL

\* "Never leave the recorder empty": the fallback of Evaluate finds a thread for every
\* table, ranking and hysteresis state.
THEOREM AlwaysRecording == Spec => []RecorderNeverEmpty
<1>1. IInv => RecorderNeverEmpty
  BY DEF IInv
<1> QED
  BY <1>1, InvariantHolds, PTL

\* A process leaves the selection only after hold_periods bad evaluations in a row, all
\* since it joined, and never when it is pinned.
THEOREM LeavingIsEarned == Spec => LeaveNeedsHold
<1>1. IInv /\ [Next]_vars =>
        [\A p \in Procs : state[p].member /\ ~state'[p].member =>
           /\ ~state[p].pinnedProc
           /\ badRun'[p] >= cfg.hold
           /\ evals' - state[p].joined >= cfg.hold]_vars
  <2> SUFFICES ASSUME IInv, Next
               PROVE  \A p \in Procs : state[p].member /\ ~state'[p].member =>
                        /\ ~state[p].pinnedProc
                        /\ badRun'[p] >= cfg.hold
                        /\ evals' - state[p].joined >= cfg.hold
    OBVIOUS
  <2>1. CASE \E table \in (SUBSET Tids) \ {{}} :
               \E ranking \in SetToSeqs(Observed(table)) : Evaluate(table, ranking)
    BY <2>1, EvaluateInv
  <2>2. CASE Reload
    BY <2>2 DEF Reload
  <2> QED
    BY <2>1, <2>2 DEF Next
<1> QED
  BY <1>1, InvariantHolds, PTL DEF Spec, LeaveNeedsHold

=============================================================================
