---------------------------- MODULE HooksProofs ----------------------------
(***************************************************************************)
(* Theorems about the in-kernel programs: KernelHooks and IoHooks.         *)
(*                                                                         *)
(* MeasuredWithin speaks of the maps once all of them are wiped.  What is  *)
(* inductive is what each wipe leaves behind: from then on every entry of  *)
(* the map is of this episode, and, if exits are watched, of a task that   *)
(* lives.                                                                  *)
(***************************************************************************)
EXTENDS KernelHooks, IoHooks, SequenceTheorems, TLAPS

\* The map an index of ResetList stands for is clean: its entries are of this
\* episode, and those of calls and wakeups of the task that bears the id now.
Clean(m) ==
  \A t \in Tids : started[m][t] # None =>
    /\ started[m][t].episode = episode
    /\ m # "offcpu" /\ "on_process_exit" \in links
         => started[m][t].task = task[t] /\ doing[t] \notin {"exiting", "dead"}

\* The maps wiped so far are clean, and all of them are once the episode is open.
WipedClean ==
  /\ stage = "reset" => wiped < 4
  /\ stage = "open" => wiped = 4
  /\ stage \in {"reset", "open"} =>
       /\ wiped >= 1 => Clean("file")
       /\ wiped >= 2 => Clean("runq")
       /\ wiped >= 3 => Clean("offcpu")

KernelInv == TypeOK /\ LeaversForgotten /\ WipedClean

\* A step leaves to each thread that is no target the entries it had, or fewer.
NoneStored ==
  \A t \in Tids \ targets :
    /\ t \in sampled' => t \in sampled
    /\ \A m \in StartMaps : started'[m][t] \in {None, started[m][t]}

\* The list ResetEpisodeMaps works through has four maps.
LEMMA ResetLength == Len(ResetList) = 4
  BY DEF ResetList

LEMMA KernelInit == Init => KernelInv
<1> SUFFICES ASSUME Init PROVE KernelInv
  OBVIOUS
<1>1. None \in [task : 0..MaxTasks, episode : 0..MaxEpisodes]
  BY HookConstants DEF None
<1>2. started \in [StartMaps -> [Tids -> [task : 0..MaxTasks, episode : 0..MaxEpisodes]]]
  BY <1>1 DEF Init
<1>3. TypeOK
  <2>1. wiped \in 0..Len(ResetList) /\ episode \in 0..MaxEpisodes
    BY ResetLength, HookConstants DEF Init
  <2>2. task \in [Tids -> 1..MaxTasks] /\ inside \in [Tids -> SUBSET Calls]
    BY HookConstants DEF Init
  <2>3. doing \in [Tids -> {"running", "ready", "blocked", "exiting", "dead"}]
    BY DEF Init
  <2> QED
    BY <1>2, <2>1, <2>2, <2>3 DEF Init, TypeOK
<1>4. LeaversForgotten
  BY DEF Init, LeaversForgotten
<1>5. WipedClean
  BY DEF Init, WipedClean
<1> QED
  BY <1>3, <1>4, <1>5 DEF KernelInv

---------------------------------------------------------------------------
\* Storing and deleting the entries of one thread keeps the start maps well typed,
\* and no map clean before becomes unclean, if a thread that stores is not dying.
LEMMA EntryTyped ==
  ASSUME KernelInv, NEW t \in Tids
  PROVE  /\ Entry(t) \in [task : 0..MaxTasks, episode : 0..MaxEpisodes]
         /\ None \in [task : 0..MaxTasks, episode : 0..MaxEpisodes]
BY HookConstants DEF KernelInv, TypeOK, Entry, None

LEMMA StoredTyped ==
  ASSUME KernelInv, NEW maps, NEW t \in Tids
  PROVE  /\ Stored(maps, t) \in [StartMaps -> [Tids -> [task : 0..MaxTasks, episode : 0..MaxEpisodes]]]
         /\ Deleted(maps, t) \in [StartMaps -> [Tids -> [task : 0..MaxTasks, episode : 0..MaxEpisodes]]]
<1> DEFINE E == [task : 0..MaxTasks, episode : 0..MaxEpisodes]
<1>1. started \in [StartMaps -> [Tids -> E]] /\ Entry(t) \in E /\ None \in E
  BY EntryTyped DEF KernelInv, TypeOK
<1> HIDE DEF E
<1>2. Stored(maps, t) \in [StartMaps -> [Tids -> E]]
  BY <1>1 DEF Stored
<1>3. Deleted(maps, t) \in [StartMaps -> [Tids -> E]]
  BY <1>1 DEF Deleted
<1> QED
  BY <1>2, <1>3 DEF E

\* A step that leaves the collector and the tasks' numbers alone, and lets none die,
\* keeps the maps it has wiped clean, if each entry it leaves in one of them is an old
\* one, or a new one of a thread that is not dying.
LEMMA KernelStepClean ==
  ASSUME KernelInv, UNCHANGED control, UNCHANGED task,
         \A t \in Tids : doing[t] \notin {"exiting", "dead"} => doing'[t] \notin {"exiting", "dead"},
         \A m \in {"file", "runq", "offcpu"}, t \in Tids :
           \/ started'[m][t] \in {None, started[m][t]}
           \/ /\ started'[m][t] = Entry(t)
              /\ m = "offcpu" \/ doing'[t] \notin {"exiting", "dead"}
  PROVE  WipedClean'
<1>1. \A t \in Tids : Entry(t).episode = episode /\ Entry(t).task = task[t]
  BY DEF Entry
<1>2. ASSUME NEW m \in {"file", "runq", "offcpu"}, Clean(m)
      PROVE  Clean(m)'
  <2> SUFFICES ASSUME NEW t \in Tids, started'[m][t] # None
               PROVE  /\ started'[m][t].episode = episode'
                      /\ m # "offcpu" /\ "on_process_exit" \in links'
                           => started'[m][t].task = task'[t] /\ doing'[t] \notin {"exiting", "dead"}
    BY DEF Clean
  <2>1. CASE started'[m][t] = started[m][t]
    BY <1>2, <2>1 DEF Clean, control
  <2>2. CASE started'[m][t] = Entry(t) /\ (m = "offcpu" \/ doing'[t] \notin {"exiting", "dead"})
    BY <1>1, <2>2 DEF control
  <2> QED
    BY <2>1, <2>2
<1> QED
  BY <1>2 DEF KernelInv, WipedClean, control

\* The entry of one thread in one map after Stored or Deleted.
LEMMA StoredAt ==
  ASSUME KernelInv, NEW maps, NEW t \in Tids, NEW m \in StartMaps, NEW u \in Tids
  PROVE  /\ Stored(maps, t)[m][u] = IF m \in maps /\ u = t THEN Entry(t) ELSE started[m][u]
         /\ Deleted(maps, t)[m][u] = IF m \in maps /\ u = t THEN None ELSE started[m][u]
<1>1. started[m] = [v \in Tids |-> started[m][v]]
  BY DEF KernelInv, TypeOK
<1>2. /\ [started[m] EXCEPT ![t] = Entry(t)][u] = IF u = t THEN Entry(t) ELSE started[m][u]
      /\ [started[m] EXCEPT ![t] = None][u] = IF u = t THEN None ELSE started[m][u]
  BY <1>1
<1> QED
  BY <1>2 DEF Stored, Deleted

\* If members stay and only targets' entries are stored, leavers stay forgotten.
LEMMA ForgottenStep ==
  ASSUME KernelInv, UNCHANGED members, NoneStored
  PROVE  LeaversForgotten'
BY DEF KernelInv, LeaversForgotten, NoneStored, members

---------------------------------------------------------------------------
\* Each step preserves KernelInv: first the steps of the kernel.

LEMMA SwitchInv ==
  ASSUME KernelInv, NEW c \in Cpus, NEW n \in Tids \cup {Idle},
         NEW s \in {"ready", "blocked", "dead"}, Switch(c, n, s)
  PROVE  KernelInv'
<1>1. PICK stashed \in SUBSET {t \in {running[c]} \ {Idle} : FallbackStash(t, s)} :
        started' = [m \in StartMaps |->
                     [t \in Tids |-> IF t = n /\ m \in Completed(n) THEN None
                                     ELSE IF t \in stashed /\ m = "offcpu" THEN Entry(t)
                                     ELSE started[m][t]]]
  BY DEF Switch
<1>2. \A t \in Tids : /\ Entry(t) \in [task : 0..MaxTasks, episode : 0..MaxEpisodes]
                      /\ None \in [task : 0..MaxTasks, episode : 0..MaxEpisodes]
  BY EntryTyped
<1>3. started' \in [StartMaps -> [Tids -> [task : 0..MaxTasks, episode : 0..MaxEpisodes]]]
  BY <1>1, <1>2 DEF KernelInv, TypeOK
<1>4. running' \in [Cpus -> Tids \cup {Idle}] /\ LeaversForgotten'
  <2>1. running' \in [Cpus -> Tids \cup {Idle}]
    BY DEF KernelInv, TypeOK, Switch
  <2>2. stashed \subseteq targets
    BY DEF FallbackStash, Watched
  <2>3. NoneStored
    BY <1>1, <2>2 DEF NoneStored, Switch
  <2> QED
    BY <2>1, <2>3, ForgottenStep DEF Switch
<1>5. doing' \in [Tids -> {"running", "ready", "blocked", "exiting", "dead"}]
  BY DEF KernelInv, TypeOK, Switch
<1>6. TypeOK'
  BY <1>3, <1>4, <1>5 DEF KernelInv, TypeOK, Switch, control, members
<1>7. ASSUME NEW t \in Tids, doing[t] \notin {"exiting", "dead"}
      PROVE  doing'[t] \notin {"exiting", "dead"}
  <2>1. CASE t = n
    BY <2>1 DEF Switch
  <2>2. CASE t # n /\ t = running[c]
    <3>1. t # Idle
      BY HookConstants
    <3> QED
      BY <1>7, <2>2, <3>1 DEF Switch
  <2>3. CASE t # n /\ t # running[c]
    BY <1>7, <2>3 DEF Switch
  <2> QED
    BY <2>1, <2>2, <2>3
<1>8. WipedClean'
  <2>1. ASSUME NEW m \in {"file", "runq", "offcpu"}, NEW t \in Tids
        PROVE  \/ started'[m][t] \in {None, started[m][t]}
               \/ started'[m][t] = Entry(t) /\ m = "offcpu"
    BY <1>1 DEF StartMaps, Calls
  <2> QED
    BY <1>7, <2>1, KernelStepClean DEF Switch
<1> QED
  BY <1>4, <1>6, <1>8 DEF KernelInv

LEMMA WakeupInv ==
  ASSUME KernelInv, NEW t \in Tids, Wakeup(t)
  PROVE  KernelInv'
<1>1. TypeOK'
  BY StoredTyped DEF KernelInv, TypeOK, Wakeup, control, members
<1>3. LeaversForgotten'
  <2>1. NoneStored
    BY DEF KernelInv, TypeOK, NoneStored, Wakeup, Stored, Watched
  <2> QED
    BY <2>1, ForgottenStep DEF Wakeup
<1>2. WipedClean'
  <2>1. ASSUME NEW m \in {"file", "runq", "offcpu"}, NEW u \in Tids
        PROVE  \/ started'[m][u] \in {None, started[m][u]}
               \/ started'[m][u] = Entry(u) /\ u = t
    BY DEF KernelInv, TypeOK, Wakeup, Stored, StartMaps, Calls
  <2>2. /\ doing'[t] = "ready"
        /\ \A u \in Tids \ {t} : doing'[u] = doing[u]
    BY DEF KernelInv, TypeOK, Wakeup
  <2> QED
    BY <2>1, <2>2, KernelStepClean DEF Wakeup
<1> QED
  BY <1>1, <1>2, <1>3 DEF KernelInv

LEMMA WakeupNewInv ==
  ASSUME KernelInv, NEW t \in Tids, WakeupNew(t)
  PROVE  KernelInv'
<1> DEFINE new == [task |-> task[t] + 1, episode |-> episode]
<1>1. new \in [task : 0..MaxTasks, episode : 0..MaxEpisodes]
  BY HookConstants DEF KernelInv, TypeOK, WakeupNew
<1>2. \/ started' = started
      \/ started' = [started EXCEPT !["runq"][t] = new]
  BY DEF WakeupNew
<1> HIDE DEF new
<1>3. started' \in [StartMaps -> [Tids -> [task : 0..MaxTasks, episode : 0..MaxEpisodes]]]
  <2> DEFINE E == [task : 0..MaxTasks, episode : 0..MaxEpisodes]
  <2>1. started \in [StartMaps -> [Tids -> E]] /\ new \in E /\ "runq" \in StartMaps
    BY <1>1 DEF KernelInv, TypeOK, StartMaps
  <2> HIDE DEF E
  <2>2. [started["runq"] EXCEPT ![t] = new] \in [Tids -> E]
    BY <2>1
  <2>3. [started EXCEPT !["runq"] = [started["runq"] EXCEPT ![t] = new]] \in [StartMaps -> [Tids -> E]]
    BY <2>1, <2>2
  <2> QED
    BY <1>2, <2>1, <2>3 DEF E
<1>4. /\ task' \in [Tids -> 1..MaxTasks]
      /\ doing' \in [Tids -> {"running", "ready", "blocked", "exiting", "dead"}]
  BY HookConstants DEF KernelInv, TypeOK, WakeupNew
<1>5. TypeOK' /\ LeaversForgotten'
  <2>1. TypeOK'
    BY <1>3, <1>4 DEF KernelInv, TypeOK, WakeupNew, control, members
  <2>2. NoneStored
    BY DEF KernelInv, TypeOK, NoneStored, WakeupNew, Watched, StartMaps
  <2> QED
    BY <2>1, <2>2, ForgottenStep DEF WakeupNew
<1>6. WipedClean'
  <2>1. ASSUME NEW m \in {"file", "runq", "offcpu"}, NEW u \in Tids, started'[m][u] # None
        PROVE  \/ started'[m][u] = started[m][u]
               \/ started'[m][u] = new /\ u = t
    <3>1. /\ started = [n \in StartMaps |-> started[n]]
          /\ started["runq"] = [v \in Tids |-> started["runq"][v]]
          /\ m \in StartMaps /\ "runq" \in StartMaps
      BY DEF KernelInv, TypeOK, StartMaps, Calls
    <3>2. [started["runq"] EXCEPT ![t] = new][u] = IF u = t THEN new ELSE started["runq"][u]
      BY <3>1
    <3>3. [started EXCEPT !["runq"][t] = new][m]
            = IF m = "runq" THEN [started["runq"] EXCEPT ![t] = new] ELSE started[m]
      BY <3>1
    <3> QED
      BY <1>2, <3>2, <3>3
  <2>2. ASSUME NEW m \in {"file", "runq"}, stage \in {"reset", "open"}, "on_process_exit" \in links,
               Clean(m)
        PROVE  started[m][t] = None
    BY <2>2 DEF Clean, WakeupNew
  <2>3. /\ doing'[t] = "ready" /\ task'[t] = task[t] + 1
        /\ \A u \in Tids \ {t} : doing'[u] = doing[u] /\ task'[u] = task[u]
    BY DEF KernelInv, TypeOK, WakeupNew
  <2>4. ASSUME NEW m \in {"file", "runq", "offcpu"}, stage \in {"reset", "open"}, Clean(m)
        PROVE  Clean(m)'
    <3> SUFFICES ASSUME NEW u \in Tids, started'[m][u] # None
                 PROVE  /\ started'[m][u].episode = episode'
                        /\ m # "offcpu" /\ "on_process_exit" \in links'
                             => started'[m][u].task = task'[u] /\ doing'[u] \notin {"exiting", "dead"}
      BY DEF Clean
    <3>1. CASE started'[m][u] = new /\ u = t
      BY <3>1, <2>3 DEF new, WakeupNew, control
    <3>2. CASE started'[m][u] = started[m][u] /\ u # t
      BY <3>2, <2>3, <2>4 DEF Clean, WakeupNew, control
    <3>3. CASE started'[m][u] = started[m][u] /\ u = t
      BY <3>3, <2>2, <2>4 DEF Clean, WakeupNew, control
    <3> QED
      BY <2>1, <3>1, <3>2, <3>3
  <2> QED
    BY <2>4 DEF KernelInv, WipedClean, WakeupNew, control
<1> QED
  BY <1>5, <1>6 DEF KernelInv

LEMMA ScheduleInv ==
  ASSUME KernelInv, NEW t \in Tids, Schedule(t)
  PROVE  KernelInv'
<1>1. TypeOK' /\ LeaversForgotten'
  <2>1. TypeOK'
    BY StoredTyped DEF KernelInv, TypeOK, Schedule, control, members, tasks
  <2>2. NoneStored
    BY DEF KernelInv, TypeOK, NoneStored, Schedule, Stored, Watched
  <2> QED
    BY <2>1, <2>2, ForgottenStep DEF Schedule
<1>2. WipedClean'
  <2>1. ASSUME NEW m \in {"file", "runq", "offcpu"}, NEW u \in Tids
        PROVE  \/ started'[m][u] \in {None, started[m][u]}
               \/ started'[m][u] = Entry(u) /\ m = "offcpu"
    BY DEF KernelInv, TypeOK, Schedule, Stored, StartMaps, Calls
  <2> QED
    BY <2>1, KernelStepClean DEF Schedule, tasks
<1> QED
  BY <1>1, <1>2 DEF KernelInv

LEMMA ProcessExitInv ==
  ASSUME KernelInv, NEW t \in Tids, ProcessExit(t)
  PROVE  KernelInv'
<1>1. TypeOK' /\ LeaversForgotten'
  <2>1. TypeOK'
    BY StoredTyped DEF KernelInv, TypeOK, ProcessExit, control, members
  <2>2. NoneStored
    <3> SUFFICES ASSUME NEW u \in Tids \ targets, NEW m \in StartMaps
                 PROVE  /\ u \in sampled' => u \in sampled
                        /\ started'[m][u] \in {None, started[m][u]}
      BY DEF NoneStored, StartMaps, Calls
    <3>1. started'[m][u] \in {None, started[m][u]}
      BY StoredAt DEF ProcessExit
    <3> QED
      BY <3>1 DEF ProcessExit
  <2> QED
    BY <2>1, <2>2, ForgottenStep DEF ProcessExit
<1>2. ASSUME NEW m \in {"file", "runq", "offcpu"}, stage \in {"reset", "open"}, Clean(m)
      PROVE  Clean(m)'
  <2> SUFFICES ASSUME NEW u \in Tids, started'[m][u] # None
               PROVE  /\ started'[m][u].episode = episode'
                      /\ m # "offcpu" /\ "on_process_exit" \in links'
                           => started'[m][u].task = task'[u] /\ doing'[u] \notin {"exiting", "dead"}
    BY DEF Clean
  <2>1. started'[m][u] = started[m][u] /\ ("on_process_exit" \in links => u # t)
    <3>1. m \in StartMaps /\ m \in ExitDeletes
      BY DEF StartMaps, Calls, ExitDeletes
    <3>2. Deleted(ExitDeletes, t)[m][u] = IF u = t THEN None ELSE started[m][u]
      BY <3>1, StoredAt
    <3> QED
      BY <3>2 DEF ProcessExit
  <2>2. u # t => doing'[u] = doing[u]
    BY DEF KernelInv, TypeOK, ProcessExit
  <2> QED
    BY <1>2, <2>1, <2>2 DEF Clean, ProcessExit, control
<1> QED
  BY <1>1, <1>2 DEF KernelInv, WipedClean, ProcessExit, control

LEMMA CallInv ==
  ASSUME KernelInv, NEW call \in Calls, NEW t \in Tids, CallEnter(call, t) \/ CallExit(call, t)
  PROVE  KernelInv'
<1>1. \/ started' = started
      \/ started' = Stored({call}, t) /\ CallEnter(call, t) /\ t \in targets
      \/ started' = Deleted({call}, t)
  BY DEF CallEnter, CallExit, Stores, Watched
<1>2. inside' \in [Tids -> SUBSET Calls]
  <2>1. inside' \in {[inside EXCEPT ![t] = @ \cup {call}], [inside EXCEPT ![t] = @ \ {call}]}
    BY DEF CallEnter, CallExit
  <2>2. inside[t] \cup {call} \in SUBSET Calls /\ inside[t] \ {call} \in SUBSET Calls
    BY DEF KernelInv, TypeOK
  <2> QED
    BY <2>1, <2>2 DEF KernelInv, TypeOK
<1>3. UNCHANGED <<control, members, sampled, running, doing, task>>
  BY DEF CallEnter, CallExit
<1>4. TypeOK' /\ LeaversForgotten'
  <2>1. started' \in [StartMaps -> [Tids -> [task : 0..MaxTasks, episode : 0..MaxEpisodes]]]
    BY <1>1, StoredTyped DEF KernelInv, TypeOK
  <2>2. TypeOK'
    BY <1>2, <1>3, <2>1 DEF KernelInv, TypeOK, control, members
  <2>3. NoneStored
    <3>1. ASSUME NEW u \in Tids \ targets, NEW m \in StartMaps
          PROVE  started'[m][u] \in {None, started[m][u]}
      BY <1>1, StoredAt
    <3> QED
      BY <1>3, <3>1 DEF NoneStored
  <2> QED
    BY <1>3, <2>2, <2>3, ForgottenStep
<1>5. ASSUME NEW m \in {"file", "runq", "offcpu"}, NEW u \in Tids
      PROVE  \/ started'[m][u] \in {None, started[m][u]}
             \/ started'[m][u] = Entry(u) /\ u = t /\ CallEnter(call, t)
  <2>1. m \in StartMaps
    BY DEF StartMaps, Calls
  <2> QED
    BY <1>1, <2>1, StoredAt
<1>6. WipedClean'
  BY <1>3, <1>5, KernelStepClean DEF CallEnter
<1> QED
  BY <1>4, <1>6 DEF KernelInv

---------------------------------------------------------------------------
\* The steps of the collector that do not wipe a map.

LEMMA ControlInv ==
  ASSUME KernelInv,
         \/ SetDeep \/ AttachDeepLinks \/ AttachFails \/ OpenDeep \/ ClearDeep \/ CloseDeepLinks
  PROVE  KernelInv'
<1>1. UNCHANGED <<started, sampled, targets, leaving, running, doing, task, inside>>
  BY DEF SetDeep, AttachDeepLinks, AttachFails, OpenDeep, ClearDeep, CloseDeepLinks, Control,
         members, tasks
<1>2. /\ deep' \in BOOLEAN /\ fallback' \in BOOLEAN
      /\ stage' \in {"base", "attach", "row", "reset", "open", "exit"}
  BY DEF KernelInv, TypeOK, SetDeep, AttachDeepLinks, AttachFails, OpenDeep, ClearDeep,
         CloseDeepLinks
<1>3. wiped' \in {0, wiped} /\ episode' \in {episode, episode + 1} /\ episode' <= MaxEpisodes
  BY HookConstants DEF KernelInv, TypeOK, SetDeep, AttachDeepLinks, AttachFails, OpenDeep, ClearDeep,
         CloseDeepLinks
<1>4. TypeOK'
  BY <1>1, <1>2, <1>3, ResetLength, HookConstants DEF KernelInv, TypeOK
<1>5. LeaversForgotten'
  BY <1>1 DEF KernelInv, LeaversForgotten
<1>6. stage' # "open" /\ (stage' = "reset" => wiped' = 0)
  BY DEF SetDeep, AttachDeepLinks, AttachFails, OpenDeep, ClearDeep, CloseDeepLinks
<1>7. WipedClean'
  BY <1>6 DEF WipedClean
<1> QED
  BY <1>4, <1>5, <1>7 DEF KernelInv

\* The steps that add and remove targets.
LEMMA MembersInv ==
  ASSUME KernelInv, NEW t \in Tids, Join(t) \/ RemoveTarget(t) \/ ResetTidCounters(t)
  PROVE  KernelInv'
<1>1. UNCHANGED <<control, tasks>>
  BY DEF Join, RemoveTarget, ResetTidCounters
<1>2. started' = started \/ started' = Deleted(TidDeletes, t)
  BY DEF Join, RemoveTarget, ResetTidCounters
<1>3. targets' \subseteq Tids /\ leaving' \subseteq Tids /\ sampled' \subseteq Tids
  BY DEF KernelInv, TypeOK, Join, RemoveTarget, ResetTidCounters
<1>4. TypeOK' /\ LeaversForgotten'
  <2>1. started' \in [StartMaps -> [Tids -> [task : 0..MaxTasks, episode : 0..MaxEpisodes]]]
    BY <1>2, StoredTyped DEF KernelInv, TypeOK
  <2>2. TypeOK'
    BY <1>1, <1>3, <2>1 DEF KernelInv, TypeOK, control, tasks
  <2>3. LeaversForgotten'
    <3>1. ASSUME Join(t) \/ RemoveTarget(t)
          PROVE  LeaversForgotten'
      BY <3>1 DEF KernelInv, LeaversForgotten, Join, RemoveTarget
    <3>2. ASSUME ResetTidCounters(t)
          PROVE  LeaversForgotten'
      <4>1. \A m \in StartMaps : /\ started'[m][t] = None
                                 /\ \A u \in Tids \ {t} : started'[m][u] = started[m][u]
        BY <3>2, StoredAt DEF ResetTidCounters, TidDeletes, StartMaps, Calls
      <4> QED
        BY <3>2, <4>1 DEF KernelInv, LeaversForgotten, ResetTidCounters
    <3> QED
      BY <3>1, <3>2
  <2> QED
    BY <2>2, <2>3
<1>5. ASSUME NEW m \in {"file", "runq", "offcpu"}, NEW u \in Tids
      PROVE  started'[m][u] \in {None, started[m][u]}
  <2>1. m \in StartMaps
    BY DEF StartMaps, Calls
  <2> QED
    BY <1>2, <2>1, StoredAt
<1>6. WipedClean'
  BY <1>1, <1>5, KernelStepClean DEF tasks
<1> QED
  BY <1>4, <1>6 DEF KernelInv

\* A wipe leaves no entry in its map, and those wiped before it as they were.
LEMMA WipeInv ==
  ASSUME KernelInv, ResetEpisodeMap
  PROVE  KernelInv'
<1> DEFINE E == [task : 0..MaxTasks, episode : 0..MaxEpisodes]
<1>1. UNCHANGED <<deep, links, fallback, episode, targets, leaving, running, doing, task,
                  inside>>
  BY DEF ResetEpisodeMap, Control, members, tasks
<1>2. wiped < 4 /\ wiped \in Nat /\ wiped' = wiped + 1
  BY ResetLength DEF KernelInv, TypeOK, WipedClean, ResetEpisodeMap
<1>3. started' \in [StartMaps -> [Tids -> E]] /\ sampled' \subseteq Tids
  <2>1. None \in E
    BY HookConstants DEF None
  <2> QED
    BY <2>1 DEF KernelInv, TypeOK, ResetEpisodeMap
<1>4. stage' \in {"reset", "open"} /\ (stage' = "open" <=> wiped' = 4)
  BY <1>2, ResetLength DEF ResetEpisodeMap
<1>5. TypeOK' /\ LeaversForgotten'
  <2>1. TypeOK'
    BY <1>1, <1>2, <1>3, <1>4, ResetLength DEF KernelInv, TypeOK
  <2>2. NoneStored
    BY DEF NoneStored, ResetEpisodeMap
  <2> QED
    BY <1>1, <2>1, <2>2, ForgottenStep DEF members
<1>6. /\ ResetList[1] = "file" /\ ResetList[2] = "runq" /\ ResetList[3] = "offcpu"
  BY DEF ResetList
<1>7. ASSUME NEW m \in {"file", "runq", "offcpu"}, Clean(m) \/ m = ResetList[wiped + 1]
      PROVE  Clean(m)'
  <2>1. CASE m = ResetList[wiped + 1]
    BY <2>1 DEF Clean, ResetEpisodeMap, Wipes, StartMaps, Calls
  <2>2. CASE Clean(m) /\ m # ResetList[wiped + 1]
    BY <1>1, <2>2 DEF Clean, ResetEpisodeMap, Wipes, StartMaps, Calls
  <2> QED
    BY <1>7, <2>1, <2>2
<1>8. WipedClean'
  <2>1. stage = "reset" /\ wiped \in 0..3
    BY <1>2 DEF ResetEpisodeMap
  <2>2. wiped' >= 1 => Clean("file")'
    BY <1>2, <1>6, <1>7, <2>1 DEF KernelInv, WipedClean
  <2>3. wiped' >= 2 => Clean("runq")'
    BY <1>2, <1>6, <1>7, <2>1 DEF KernelInv, WipedClean
  <2>4. wiped' >= 3 => Clean("offcpu")'
    BY <1>2, <1>6, <1>7, <2>1 DEF KernelInv, WipedClean
  <2> QED
    BY <1>2, <1>4, <2>2, <2>3, <2>4 DEF WipedClean
<1> QED
  BY <1>5, <1>8 DEF KernelInv

---------------------------------------------------------------------------

LEMMA KernelStep == KernelInv /\ [Next]_vars => KernelInv'
<1> SUFFICES ASSUME KernelInv, [Next]_vars PROVE KernelInv'
  OBVIOUS
<1>1. CASE UNCHANGED vars
  BY <1>1 DEF KernelInv, TypeOK, LeaversForgotten, WipedClean, Clean, vars, control, members, tasks
<1>2. CASE KernelNext
  BY <1>2, SwitchInv, WakeupInv, WakeupNewInv, ScheduleInv, ProcessExitInv, CallInv DEF KernelNext
<1>3. CASE CollectorNext
  BY <1>3, ControlInv, WipeInv, MembersInv DEF CollectorNext
<1> QED
  BY <1>1, <1>2, <1>3 DEF Next

\* What a hook measures comes from an entry that was there before the step.
LEMMA MeasuredFrom ==
  ASSUME KernelInv, Next, NEW p \in measured'
  PROVE  /\ p.map \in StartMaps /\ p.tid \in Tids
         /\ p.from = started[p.map][p.tid] /\ p.from # None
         /\ p.map # "sys" => doing[p.tid] \notin {"exiting", "dead"} /\ task'[p.tid] = task[p.tid]
         /\ UNCHANGED control
<1>1. ASSUME NEW maps \in SUBSET StartMaps, NEW t \in Tids, p \in Pairs(maps, t)
      PROVE  /\ p.map \in maps /\ p.tid = t
             /\ p.from = started[p.map][t] /\ p.from # None
  BY <1>1 DEF Pairs
<1>2. CASE \E c \in Cpus, n \in Tids \cup {Idle}, s \in {"ready", "blocked", "dead"} : Switch(c, n, s)
  <2>1. PICK c \in Cpus, n \in Tids \cup {Idle}, s \in {"ready", "blocked", "dead"} : Switch(c, n, s)
    BY <1>2
  <2>2. n \in Tids /\ p \in Pairs(Completed(n), n) /\ Completed(n) \subseteq StartMaps
    BY <2>1 DEF Switch, Completed, StartMaps
  <2> QED
    BY <1>1, <2>1, <2>2 DEF Switch
<1>3. CASE \E call \in Calls, t \in Tids : CallEnter(call, t) \/ CallExit(call, t)
  <2>1. PICK call \in Calls, t \in Tids : CallExit(call, t) /\ p \in Pairs({call}, t)
    BY <1>3 DEF CallEnter, CallExit
  <2>2. {call} \in SUBSET StartMaps
    BY DEF StartMaps
  <2> QED
    BY <1>1, <2>1, <2>2 DEF CallExit
<1>4. CASE \/ \E t \in Tids : Wakeup(t) \/ WakeupNew(t) \/ Schedule(t) \/ ProcessExit(t)
           \/ CollectorNext
  <2>1. measured' = {}
    BY <1>4 DEF Wakeup, WakeupNew, Schedule, ProcessExit, CollectorNext, SetDeep, AttachDeepLinks,
                AttachFails, OpenDeep, ResetEpisodeMap, ClearDeep, CloseDeepLinks, Control, Join,
                RemoveTarget, ResetTidCounters
  <2> QED
    BY <2>1
<1> QED
  BY <1>2, <1>3, <1>4 DEF Next, KernelNext

\* All maps of an open episode being clean, a pair lies within the episode and,
\* if exits are watched, within one task.
LEMMA MeasuredStep ==
  ASSUME KernelInv, [Next]_vars
  PROVE  [stage = "open" =>
            \A p \in measured' :
              /\ p.map # "sys" => p.from.episode = episode
              /\ p.map \notin {"sys", "offcpu"} /\ "on_process_exit" \in links
                   => p.from.task = task[p.tid]]_vars
<1> SUFFICES ASSUME Next, stage = "open", NEW p \in measured'
             PROVE  /\ p.map # "sys" => p.from.episode = episode
                    /\ p.map \notin {"sys", "offcpu"} /\ "on_process_exit" \in links
                         => p.from.task = task[p.tid]
  OBVIOUS
<1>1. Clean("file") /\ Clean("runq") /\ Clean("offcpu")
  BY DEF KernelInv, WipedClean
<1>2. /\ p.map \in {"sys", "file", "offcpu", "runq"} /\ p.tid \in Tids
      /\ p.from = started[p.map][p.tid] /\ p.from # None
  BY MeasuredFrom DEF StartMaps, Calls
<1> QED
  BY <1>1, <1>2 DEF Clean

\* Every variable of the hooks keeps its type.
THEOREM KernelTypeCorrect == Spec => []TypeOK
<1>1. KernelInv => TypeOK
  BY DEF KernelInv
<1> QED
  BY <1>1, KernelInit, KernelStep, PTL DEF Spec

\* A thread that is no target any more has no start left that another measurement
\* could end.
THEOREM Forgotten == Spec => []LeaversForgotten
<1>1. KernelInv => LeaversForgotten
  BY DEF KernelInv
<1> QED
  BY <1>1, KernelInit, KernelStep, PTL DEF Spec

\* No off-CPU dwell, run queue latency or file access of an open episode began
\* before it, and none but the first spans two tasks if exits are watched.
THEOREM MeasurementsWithin == Spec => MeasuredWithin
<1>1. KernelInv /\ [Next]_vars =>
        [stage = "open" =>
           \A p \in measured' :
             /\ p.map # "sys" => p.from.episode = episode
             /\ p.map \notin {"sys", "offcpu"} /\ "on_process_exit" \in links
                  => p.from.task = task[p.tid]]_vars
  BY MeasuredStep
<1> QED
  BY <1>1, KernelInit, KernelStep, PTL DEF Spec, MeasuredWithin

---------------------------------------------------------------------------
\* Block requests and contention.

\* The issue_ts of the entry of an issued request is of its use; the entry of
\* lock_wait is of the innermost contention.
EntriesCurrent ==
  /\ \A r \in Requests :
       ioState[r] = "issued" /\ blkReq[r] # NoRequest => blkReq[r].issue = ioUse[r]
  /\ lockWait # NoLock => waiting # <<>> /\ lockWait = waiting[Len(waiting)]

IoInv == IoTypeOK /\ EntriesCurrent /\ ChargesMatch

LEMMA IoInitInv == IoInit => IoInv
<1> SUFFICES ASSUME IoInit PROVE IoInv
  OBVIOUS
<1>1. blkReq \in [Requests -> [use : 0..MaxUses, issue : 0..MaxUses]]
  BY IoConstants DEF IoInit, NoRequest, Unset
<1>2. waiting \in [1..0 -> Locks] /\ 0 \in 0..MaxNesting
  BY IoConstants DEF IoInit
<1>3. waiting \in UNION {[1..n -> Locks] : n \in 0..MaxNesting}
  BY <1>2
<1>4. IoTypeOK
  BY <1>1, <1>3, IoConstants DEF IoInit, IoTypeOK
<1>5. EntriesCurrent /\ ChargesMatch
  BY DEF IoInit, EntriesCurrent, ChargesMatch, LatencyWithinOneUse, LockChargedToOwn
<1> QED
  BY <1>4, <1>5 DEF IoInv

\* A step of the block layer that is not a completion keeps the invariant, if it
\* leaves an entry with the issue of its use to a request it leaves issued.
LEMMA RequestStep ==
  ASSUME IoInv, NEW r \in Requests,
         UNCHANGED <<waiting, lockWait, lockCharged>>,
         NEW to \in {"free", "queued", "issued"}, ioState' = [ioState EXCEPT ![r] = to],
         NEW use \in 0..MaxUses, ioUse' = [ioUse EXCEPT ![r] = use],
         NEW entry \in [use : 0..MaxUses, issue : 0..MaxUses],
         blkReq' = [blkReq EXCEPT ![r] = entry],
         to = "issued" /\ entry # NoRequest => entry.issue = use,
         \A c \in ioCharged' : c.state = "issued" => c.from = ioUse'[c.request]
  PROVE  IoInv'
<1>1. IoTypeOK'
  BY DEF IoInv, IoTypeOK
<1>2. EntriesCurrent'
  BY DEF IoInv, IoTypeOK, EntriesCurrent
<1>3. ChargesMatch'
  BY DEF IoInv, ChargesMatch, LatencyWithinOneUse, LockChargedToOwn
<1> QED
  BY <1>1, <1>2, <1>3 DEF IoInv

LEMMA OnRqIssueEntry ==
  ASSUME IoInv, NEW r \in Requests, NEW use \in 0..MaxUses
  PROVE  \E entry \in [use : 0..MaxUses, issue : 0..MaxUses] :
           /\ OnRqIssue(r, use) = [blkReq EXCEPT ![r] = entry]
           /\ entry # NoRequest => entry.issue = use
<1>1. CASE blkReq[r] = NoRequest
  <2>1. OnRqIssue(r, use) = [blkReq EXCEPT ![r] = blkReq[r]] /\ blkReq[r] \in [use : 0..MaxUses, issue : 0..MaxUses]
    BY <1>1 DEF OnRqIssue, IoInv, IoTypeOK
  <2> QED
    BY <1>1, <2>1
<1>2. CASE blkReq[r] # NoRequest
  <2> DEFINE entry == [blkReq[r] EXCEPT !.issue = use]
  <2>1. entry \in [use : 0..MaxUses, issue : 0..MaxUses] /\ entry.issue = use
    BY DEF IoInv, IoTypeOK
  <2>2. OnRqIssue(r, use) = [blkReq EXCEPT ![r] = entry]
    BY <1>2 DEF OnRqIssue
  <2> QED
    BY <2>1, <2>2
<1> QED
  BY <1>1, <1>2

LEMMA OnRqInsertEntry ==
  ASSUME NEW r \in Requests, NEW use \in 0..MaxUses
  PROVE  \E entry \in [use : 0..MaxUses, issue : 0..MaxUses] :
           OnRqInsert(r, use) = [blkReq EXCEPT ![r] = entry]
<1>1. [use |-> use, issue |-> Unset] \in [use : 0..MaxUses, issue : 0..MaxUses]
  BY IoConstants DEF Unset
<1> QED
  BY <1>1 DEF OnRqInsert

LEMMA RequestInv ==
  ASSUME IoInv, NEW r \in Requests,
         \/ RqInsert(r) \/ RqDirect(r) \/ RqIssue(r) \/ RqRequeue(r) \/ RqMerge(r) \/ RqComplete(r)
  PROVE  IoInv'
<1>1. /\ ioUse[r] \in 0..MaxUses /\ ioUse = [ioUse EXCEPT ![r] = ioUse[r]]
      /\ blkReq[r] \in [use : 0..MaxUses, issue : 0..MaxUses]
      /\ blkReq = [blkReq EXCEPT ![r] = blkReq[r]]
  BY DEF IoInv, IoTypeOK
<1>2. NewUse(r) => ioUse[r] + 1 \in 0..MaxUses
  BY <1>1, IoConstants DEF NewUse
<1>3. CASE RqInsert(r)
  <2>1. PICK entry \in [use : 0..MaxUses, issue : 0..MaxUses] :
          blkReq' = [blkReq EXCEPT ![r] = entry]
    BY <1>2, <1>3, OnRqInsertEntry DEF RqInsert
  <2> QED
    BY <1>2, <1>3, <2>1, RequestStep DEF RqInsert, BlockLayer, NewUse
<1>4. CASE RqDirect(r)
  <2>1. PICK entry \in [use : 0..MaxUses, issue : 0..MaxUses] :
          /\ blkReq' = [blkReq EXCEPT ![r] = entry]
          /\ entry # NoRequest => entry.issue = ioUse[r] + 1
    BY <1>2, <1>4, OnRqIssueEntry DEF RqDirect
  <2> QED
    BY <1>2, <1>4, <2>1, RequestStep DEF RqDirect, BlockLayer, NewUse
<1>5. CASE RqIssue(r)
  <2>1. PICK entry \in [use : 0..MaxUses, issue : 0..MaxUses] :
          /\ blkReq' = [blkReq EXCEPT ![r] = entry]
          /\ entry # NoRequest => entry.issue = ioUse[r]
    BY <1>1, <1>5, OnRqIssueEntry DEF RqIssue
  <2> QED
    BY <1>1, <1>5, <2>1, RequestStep DEF RqIssue, BlockLayer
<1>6. CASE RqRequeue(r)
  <2>1. PICK entry \in [use : 0..MaxUses, issue : 0..MaxUses] :
          blkReq' = [blkReq EXCEPT ![r] = entry]
    <3>1. CASE blkReq' = blkReq
      <4>1. blkReq' = [blkReq EXCEPT ![r] = blkReq[r]]
        BY <1>1, <3>1
      <4> QED
        BY <1>1, <4>1
    <3>2. CASE blkReq' = OnRqInsert(r, ioUse[r])
      <4>1. \E entry \in [use : 0..MaxUses, issue : 0..MaxUses] :
              OnRqInsert(r, ioUse[r]) = [blkReq EXCEPT ![r] = entry]
        BY <1>1, OnRqInsertEntry
      <4> QED
        BY <3>2, <4>1
    <3> QED
      BY <1>6, <3>1, <3>2 DEF RqRequeue
  <2> QED
    BY <1>1, <1>6, <2>1, RequestStep DEF RqRequeue, BlockLayer
<1>7. CASE RqMerge(r)
  BY <1>1, <1>7, RequestStep DEF RqMerge, BlockLayer
<1>8. CASE RqComplete(r)
  <2>1. PICK from \in {"queued", "issued"}, to \in {"free", "issued"} : BlockLayer(r, from, to)
    BY <1>8 DEF RqComplete
  <2>2. NoRequest \in [use : 0..MaxUses, issue : 0..MaxUses]
    BY IoConstants DEF NoRequest, Unset
  <2>3. blkReq' = [blkReq EXCEPT ![r] = NoRequest] /\ UNCHANGED ioUse
    BY <1>8 DEF RqComplete, OnRqComplete
  <2>4. ASSUME NEW c \in ioCharged', c.state = "issued"
        PROVE  c.from = ioUse'[c.request]
    <3>1. /\ blkReq[r] # NoRequest /\ c.request = r /\ c.from = blkReq[r].issue
          /\ c.state = ioState[r]
      BY <1>8, <2>4 DEF RqComplete, OnRqComplete
    <3> QED
      BY <2>3, <2>4, <3>1 DEF IoInv, EntriesCurrent
  <2> QED
    BY <1>1, <2>1, <2>2, <2>3, <2>4, RequestStep DEF BlockLayer
<1> QED
  BY <1>3, <1>4, <1>5, <1>6, <1>7, <1>8

LEMMA ContentionInv ==
  ASSUME IoInv, ContentionEnd \/ \E l \in Locks : ContentionBegin(l)
  PROVE  IoInv'
<1>1. PICK n \in 0..MaxNesting : waiting \in [1..n -> Locks]
  BY DEF IoInv, IoTypeOK
<1>2. Len(waiting) = n /\ waiting \in Seq(Locks) /\ n \in Nat
  BY <1>1, IoConstants
<1>3. CASE \E l \in Locks : ContentionBegin(l)
  <2>1. PICK l \in Locks : ContentionBegin(l)
    BY <1>3
  <2>2. CASE n < MaxNesting /\ waiting' = Append(waiting, l)
    <3>1. /\ waiting' \in Seq(Locks) /\ Len(waiting') = n + 1
          /\ waiting' # <<>> /\ waiting'[n + 1] = l
      <4>1. /\ Append(waiting, l) \in Seq(Locks) /\ Len(Append(waiting, l)) = Len(waiting) + 1
            /\ Append(waiting, l) # <<>> /\ Append(waiting, l)[Len(waiting) + 1] = l
        BY <1>2, AppendProperties
      <4> QED
        BY <1>2, <2>2, <4>1
    <3>2. waiting' \in [1..(n + 1) -> Locks] /\ n + 1 \in 0..MaxNesting
      <4>1. waiting' \in [1..Len(waiting') -> Locks]
        BY <3>1, LenProperties
      <4>2. n + 1 \in 0..MaxNesting
        BY <1>2, <2>2, IoConstants
      <4> QED
        BY <3>1, <4>1, <4>2
    <3>3. waiting' \in UNION {[1..k -> Locks] : k \in 0..MaxNesting}
      BY <3>2
    <3> QED
      BY <2>1, <3>1, <3>3 DEF IoInv, IoTypeOK, EntriesCurrent, ChargesMatch, LatencyWithinOneUse,
                              LockChargedToOwn, ContentionBegin
  <2>3. CASE waiting # <<>> /\ l = waiting[Len(waiting)] /\ UNCHANGED waiting
    BY <2>1, <2>3 DEF IoInv, IoTypeOK, EntriesCurrent, ChargesMatch, LatencyWithinOneUse,
                      LockChargedToOwn, ContentionBegin
  <2> QED
    BY <1>2, <2>1, <2>2, <2>3 DEF ContentionBegin
<1>4. CASE ContentionEnd
  <2>1. n \in Nat \ {0} /\ n - 1 \in 0..MaxNesting
    BY <1>2, <1>4, IoConstants DEF ContentionEnd
  <2>2. waiting' \in [1..(n - 1) -> Locks]
    <3>1. /\ SubSeq(waiting, 1, n - 1) \in Seq(Locks)
          /\ Len(SubSeq(waiting, 1, n - 1)) = n - 1
      BY <1>1, <2>1, SubSeqProperties
    <3> QED
      BY <1>2, <1>4, <3>1, LenProperties DEF ContentionEnd
  <2>3. waiting' \in UNION {[1..k -> Locks] : k \in 0..MaxNesting}
    BY <2>1, <2>2
  <2>4. \A c \in lockCharged' : c.lock = c.waited
    BY <1>4 DEF ContentionEnd, IoInv, EntriesCurrent
  <2> QED
    BY <1>4, <2>3, <2>4 DEF IoInv, IoTypeOK, EntriesCurrent, ChargesMatch, LatencyWithinOneUse,
                            LockChargedToOwn, ContentionEnd
<1> QED
  BY <1>3, <1>4

LEMMA IoStep == IoInv /\ [IoNext]_ioVars => IoInv'
<1> SUFFICES ASSUME IoInv, [IoNext]_ioVars PROVE IoInv'
  OBVIOUS
<1>1. CASE UNCHANGED ioVars
  BY <1>1 DEF ioVars, IoInv, IoTypeOK, EntriesCurrent, ChargesMatch, LatencyWithinOneUse,
              LockChargedToOwn
<1>2. CASE IoNext
  BY <1>2, RequestInv, ContentionInv DEF IoNext
<1> QED
  BY <1>1, <1>2

\* What is charged to a device or a lock was measured between a start and an end of
\* the same thing, however often a request structure is used or a wait interrupted.
THEOREM Charges == IoSpec => []ChargesMatch
<1>1. IoInv => ChargesMatch
  BY DEF IoInv
<1> QED
  BY <1>1, IoInitInv, IoStep, PTL DEF IoSpec
=============================================================================
