----------------------------- MODULE ReaderProofs -----------------------------
(***************************************************************************)
(* Proofs about the readers of what the programs in the kernel leave: the  *)
(* dump of the OOM ring (OomRing), the iteration over a hash map           *)
(* (MapReader) and the table of processes (ProcessTable).                  *)
(***************************************************************************)
EXTENDS MCHooks, HooksProofs, WellFoundedInduction

---------------------------------------------------------------------------
(* OomRing. *)

\* The kill of slot s needs no visit any more.
Recorded(s) == oomEvents[s] \in {Empty} \cup passed \cup oomRows

\* A number the dump in progress still visits and whose slot is s.
StillVisited(s) ==
  /\ visit # Resting
  /\ \E x \in visit..(end - 1) : x - lastSeq < OomLimit /\ SlotOf(x) = s

OomInv ==
  /\ OomTypeOK
  /\ writing => oomSeq > 0 /\ (oomSeq - 1 \in passed \/ oomSeq - 1 >= end)
  /\ \A s \in Slots : oomEvents[s] # Empty => oomEvents[s] < oomSeq /\ SlotOf(oomEvents[s]) = s
  /\ visit = Resting => lastSeq = end
  /\ visit # Resting => lastSeq <= visit /\ visit <= end
  /\ \A s \in Slots : Recorded(s) \/ oomEvents[s] >= end \/ StillVisited(s)

\* Facts about the place of a kill in the ring.
LEMMA OomDivision ==
  ASSUME NEW i \in Int
  PROVE  /\ i = OomCap * (i \div OomCap) + SlotOf(i)
         /\ i \div OomCap \in Int /\ SlotOf(i) \in Slots
  BY OomConstants DEF SlotOf, Slots

\* A slot and a multiple of the ring's size give the number back.
LEMMA OomRemainder ==
  ASSUME NEW s \in Slots, NEW q \in Int, NEW x \in Int, x = OomCap * q + s
  PROVE  SlotOf(x) = s
<1> DEFINE r == x \div OomCap
           t == SlotOf(x)
<1>1. x = OomCap * r + t /\ r \in Int /\ t \in Slots
  BY OomDivision
<1> HIDE DEF r, t
<1>2. OomCap \in Nat \ {0} /\ s \in Int /\ t \in Int /\ 0 <= s /\ s < OomCap /\ 0 <= t /\ t < OomCap
  BY <1>1, OomConstants DEF Slots
<1>3. CASE r = q
  BY <1>1, <1>2, <1>3 DEF t
<1>4. CASE q < r
  <2>1. OomCap * (r - q) >= OomCap
    BY <1>1, <1>2, <1>4
  <2>2. OomCap * r >= OomCap * q + OomCap
    BY <1>1, <1>2, <2>1
  <2> QED
    BY <1>1, <1>2, <2>2
<1>5. CASE r < q
  <2>1. OomCap * (q - r) >= OomCap
    BY <1>1, <1>2, <1>5
  <2>2. OomCap * q >= OomCap * r + OomCap
    BY <1>1, <1>2, <2>1
  <2> QED
    BY <1>1, <1>2, <2>2
<1> QED
  BY <1>1, <1>3, <1>4, <1>5

\* A dump that visits as many numbers as the ring has slots meets each of them.
LEMMA EverySlotMet ==
  ASSUME NEW a \in Nat, NEW s \in Slots
  PROVE  \E x \in a..(a + OomCap - 1) : SlotOf(x) = s
<1> DEFINE b == SlotOf(s - a)
           q == (s - a) \div OomCap
<1>1. s \in Int /\ s - a \in Int /\ OomCap \in Nat \ {0}
  BY OomConstants DEF Slots
<1>2. s - a = OomCap * q + b /\ q \in Int /\ b \in Slots
  BY <1>1, OomDivision
<1> HIDE DEF b, q
<1>3. a + b \in a..(a + OomCap - 1) /\ a + b \in Int
  BY <1>1, <1>2 DEF Slots
<1>4. a + b = OomCap * (0 - q) + s /\ 0 - q \in Int
  <2>1. OomCap * (0 - q) = 0 - OomCap * q
    BY <1>1, <1>2
  <2>2. OomCap * q \in Int /\ b \in Int
    BY <1>1, <1>2 DEF Slots
  <2> QED
    BY <1>1, <1>2, <2>1, <2>2
<1>5. SlotOf(a + b) = s
  BY <1>3, <1>4, OomRemainder
<1> QED
  BY <1>3, <1>5

LEMMA OomStarts == OomInit => OomInv
<1> SUFFICES ASSUME OomInit PROVE OomInv
  OBVIOUS
<1>1. /\ oomSeq = 0 /\ oomEvents = [s \in Slots |-> Empty] /\ writing = FALSE
      /\ lastSeq = 0 /\ visit = Resting /\ end = 0 /\ oomRows = {} /\ passed = {}
  BY DEF OomInit
<1>2. MaxKills \in Nat
  BY OomConstants
<1>3. OomTypeOK
  <2>1. 0 \in 0..MaxKills /\ 0 \in 0..oomSeq
    BY <1>1, <1>2
  <2>2. oomEvents \in [Slots -> Kills \cup {Empty}]
    BY <1>1
  <2> QED
    BY <1>1, <2>1, <2>2 DEF OomTypeOK
<1>4. \A s \in Slots : oomEvents[s] = Empty
  BY <1>1
<1>5. \A s \in Slots : Recorded(s)
  BY <1>4 DEF Recorded
<1> QED
  BY <1>1, <1>3, <1>4, <1>5 DEF OomInv

\* A kill, a step of the dump and its end keep the invariant.
LEMMA OomStep ==
  ASSUME OomInv, [OomNext]_oomVars
  PROVE  OomInv'
<1>0. /\ oomSeq \in 0..MaxKills /\ oomEvents \in [Slots -> Kills \cup {Empty}] /\ writing \in BOOLEAN
      /\ lastSeq \in 0..oomSeq /\ visit \in {Resting} \cup 0..MaxKills /\ end \in 0..oomSeq
      /\ oomRows \subseteq Kills \cup {Empty} /\ passed \subseteq Kills
      /\ MaxKills \in Nat /\ OomCap \in Nat \ {0} /\ OomLimit \in Nat \ {0} /\ OomCap <= OomLimit
      /\ Resting = -1 /\ Empty = -1
  BY OomConstants DEF OomInv, OomTypeOK, Resting, Empty
<1>1. /\ writing => oomSeq > 0 /\ (oomSeq - 1 \in passed \/ oomSeq - 1 >= end)
      /\ \A s \in Slots : oomEvents[s] # Empty => oomEvents[s] < oomSeq /\ SlotOf(oomEvents[s]) = s
      /\ visit = Resting => lastSeq = end
      /\ visit # Resting => lastSeq <= visit /\ visit <= end
      /\ \A s \in Slots : Recorded(s) \/ oomEvents[s] >= end \/ StillVisited(s)
  BY DEF OomInv
<1>2. /\ Kills = 0..(MaxKills - 1)
      /\ \A s \in Slots : oomEvents[s] \in Int
  BY <1>0 DEF Kills
<1>3. CASE ClaimVictim
  <2>1. /\ ~writing /\ oomSeq < MaxKills /\ oomSeq' = oomSeq + 1 /\ writing' = TRUE
        /\ UNCHANGED <<oomEvents, lastSeq, visit, end, oomRows, passed>>
    BY <1>3 DEF ClaimVictim
  <2>2. OomTypeOK'
    BY <1>0, <2>1 DEF OomTypeOK
  <2>3. /\ oomSeq' > 0 /\ oomSeq' - 1 >= end'
        /\ \A s \in Slots : oomEvents'[s] # Empty => oomEvents'[s] < oomSeq' /\ SlotOf(oomEvents'[s]) = s
    BY <1>0, <1>1, <1>2, <2>1
  <2>4. \A s \in Slots : Recorded(s)' \/ oomEvents'[s] >= end' \/ StillVisited(s)'
    BY <1>1, <2>1 DEF Recorded, StillVisited
  <2> QED
    BY <1>1, <2>1, <2>2, <2>3, <2>4 DEF OomInv
<1>4. CASE WriteVictim
  <2> DEFINE e == oomSeq - 1
             w == SlotOf(e)
  <2>1. /\ writing /\ writing' = FALSE /\ oomEvents' = [oomEvents EXCEPT ![w] = e]
        /\ UNCHANGED <<oomSeq, lastSeq, visit, end, oomRows, passed>>
    BY <1>4 DEF WriteVictim, SlotOf
  <2>2. e \in Kills /\ e \in Int /\ e < oomSeq /\ (e \in passed \/ e >= end)
    BY <1>0, <1>1, <1>2, <2>1
  <2>3. w \in Slots /\ SlotOf(e) = w
    BY <2>2, OomDivision
  <2> HIDE DEF e, w
  <2>4. oomEvents'[w] = e /\ \A s \in Slots \ {w} : oomEvents'[s] = oomEvents[s]
    BY <1>0, <2>1, <2>3
  <2>5. OomTypeOK'
    BY <1>0, <2>1, <2>2, <2>3 DEF OomTypeOK
  <2>6. \A s \in Slots : oomEvents'[s] # Empty => oomEvents'[s] < oomSeq' /\ SlotOf(oomEvents'[s]) = s
    BY <1>1, <2>1, <2>2, <2>3, <2>4
  <2>7. ASSUME NEW s \in Slots
        PROVE  Recorded(s)' \/ oomEvents'[s] >= end' \/ StillVisited(s)'
    <3>1. CASE s = w
      BY <2>1, <2>2, <2>4, <3>1 DEF Recorded
    <3>2. CASE s # w
      BY <1>1, <2>1, <2>4, <3>2 DEF Recorded, StillVisited
    <3> QED
      BY <3>1, <3>2
  <2> QED
    BY <1>1, <2>1, <2>5, <2>6, <2>7 DEF OomInv
<1>5. CASE BeginDump
  <2>1. /\ visit = Resting /\ visit' = lastSeq /\ end' = oomSeq
        /\ passed' = IF writing THEN passed \cup {oomSeq - 1} ELSE passed
        /\ UNCHANGED <<oomSeq, oomEvents, writing, lastSeq, oomRows>>
    BY <1>5 DEF BeginDump
  <2>2. OomTypeOK'
    BY <1>0, <1>1, <1>2, <2>1 DEF OomTypeOK
  <2>3. writing' => oomSeq' > 0 /\ oomSeq' - 1 \in passed'
    BY <1>1, <2>1
  <2>4. visit' # Resting /\ lastSeq' <= visit' /\ visit' <= end'
    BY <1>0, <2>1
  <2>5. ASSUME NEW s \in Slots
        PROVE  Recorded(s)' \/ StillVisited(s)'
    <3>1. CASE Recorded(s)
      BY <2>1, <3>1 DEF Recorded
    <3>2. CASE ~Recorded(s)
      <4>1. /\ oomEvents[s] >= lastSeq /\ oomEvents[s] < oomSeq /\ SlotOf(oomEvents[s]) = s
            /\ oomEvents[s] \in Int
        BY <1>1, <1>2, <2>1, <3>2 DEF Recorded, StillVisited
      <4>2. CASE oomEvents[s] - lastSeq < OomLimit
        <5>1. oomEvents[s] \in lastSeq..(oomSeq - 1)
          <6>1. lastSeq \in Int /\ oomSeq \in Int
            BY <1>0
          <6> QED
            BY <4>1, <6>1
        <5> QED
          BY <2>1, <2>4, <4>1, <4>2, <5>1 DEF StillVisited
      <4>3. CASE oomEvents[s] - lastSeq >= OomLimit
        <5>0. lastSeq \in Nat
          BY <1>0
        <5>1. PICK x \in lastSeq..(lastSeq + OomCap - 1) : SlotOf(x) = s
          BY <5>0, EverySlotMet
        <5>2. x \in lastSeq..(oomSeq - 1) /\ x - lastSeq < OomLimit
          BY <1>0, <4>1, <4>3, <5>1
        <5> QED
          BY <2>1, <2>4, <5>1, <5>2 DEF StillVisited
      <4> QED
        BY <1>0, <4>1, <4>2, <4>3
    <3> QED
      BY <3>1, <3>2
  <2> QED
    BY <1>1, <2>1, <2>2, <2>3, <2>4, <2>5 DEF OomInv
<1>6. CASE VisitVictim
  <2>1. /\ visit # Resting /\ visit < end /\ visit - lastSeq < OomLimit
        /\ oomRows' = oomRows \cup {oomEvents[SlotOf(visit)]} /\ visit' = visit + 1
        /\ UNCHANGED <<oomSeq, oomEvents, writing, lastSeq, end, passed>>
    BY <1>6 DEF VisitVictim
  <2>2. visit \in Nat /\ visit' # Resting /\ visit' \in 0..MaxKills /\ lastSeq' <= visit' /\ visit' <= end'
    BY <1>0, <1>1, <2>1
  <2>3. SlotOf(visit) \in Slots
    BY <2>2, OomDivision
  <2>4. OomTypeOK'
    <3>1. oomRows' \subseteq Kills \cup {Empty}
      BY <1>0, <2>1, <2>3
    <3> QED
      BY <1>0, <2>1, <2>2, <3>1 DEF OomTypeOK
  <2>5. ASSUME NEW s \in Slots
        PROVE  Recorded(s)' \/ oomEvents'[s] >= end' \/ StillVisited(s)'
    <3>1. CASE Recorded(s) \/ oomEvents[s] >= end
      BY <2>1, <3>1 DEF Recorded
    <3>2. CASE StillVisited(s)
      <4>1. PICK x \in visit..(end - 1) : x - lastSeq < OomLimit /\ SlotOf(x) = s
        BY <3>2 DEF StillVisited
      <4>2. CASE x = visit
        BY <2>1, <4>1, <4>2 DEF Recorded
      <4>3. CASE x # visit
        <5>1. x \in (visit + 1)..(end - 1)
          BY <1>0, <2>2, <4>1, <4>3
        <5> QED
          BY <2>1, <2>2, <4>1, <5>1 DEF StillVisited
      <4> QED
        BY <4>2, <4>3
    <3> QED
      BY <1>1, <3>1, <3>2
  <2> QED
    BY <1>1, <2>1, <2>2, <2>4, <2>5 DEF OomInv
<1>7. CASE EndDump
  <2>1. /\ visit # Resting /\ (visit >= end \/ visit - lastSeq >= OomLimit)
        /\ lastSeq' = end /\ visit' = Resting
        /\ UNCHANGED <<oomSeq, oomEvents, writing, end, oomRows, passed>>
    BY <1>7 DEF EndDump
  <2>2. OomTypeOK'
    BY <1>0, <2>1 DEF OomTypeOK
  <2>3. \A s \in Slots : ~StillVisited(s)
    <3>1. \A x \in visit..(end - 1) : x - lastSeq >= OomLimit
      BY <1>0, <1>1, <2>1
    <3>2. \A x \in visit..(end - 1) : ~(x - lastSeq < OomLimit)
      BY <1>0, <3>1
    <3> QED
      BY <3>2 DEF StillVisited
  <2>4. \A s \in Slots : Recorded(s)' \/ oomEvents'[s] >= end'
    BY <1>1, <2>1, <2>3 DEF Recorded
  <2> QED
    BY <1>1, <2>1, <2>2, <2>4 DEF OomInv
<1>8. CASE UNCHANGED oomVars
  <2>1. UNCHANGED <<oomSeq, oomEvents, writing, lastSeq, visit, end, oomRows, passed>>
    BY <1>8 DEF oomVars
  <2>2. OomTypeOK'
    BY <1>0, <2>1 DEF OomTypeOK
  <2>3. \A s \in Slots : Recorded(s)' \/ oomEvents'[s] >= end' \/ StillVisited(s)'
    BY <1>1, <2>1 DEF Recorded, StillVisited
  <2> QED
    BY <1>1, <2>1, <2>2, <2>3 DEF OomInv
<1> QED
  BY <1>3, <1>4, <1>5, <1>6, <1>7, <1>8 DEF OomNext

\* The invariant of the ring's dump, OomInv, holds.
LEMMA OomInvariant == OomSpec => []OomInv
  BY OomStarts, OomStep, PTL DEF OomSpec

\* A kill that the ring still holds after a dump is in the table, also when more of them
\* than the ring or than one dump can hold happened since the last dump, for any ring and
\* any limit of a dump that is not below the ring's size.
THEOREM NoKillMissed == OomSpec => []NewestKillsKept
<1>1. OomInv => NewestKillsKept
  BY DEF OomInv, NewestKillsKept, Recorded, StillVisited
<1> QED
  BY <1>1, OomInvariant, PTL

---------------------------------------------------------------------------
(* MapReader. *)

\* Without a deletion a ForEach has visited what lies up to its cursor, once, and
\* what it has still to visit lies beyond it.
ForEachInv ==
  reading = "ForEach" =>
    /\ iterations = 0
    /\ deletions = 0 =>
         /\ cursor \in Present \cup {NoKey} /\ current \in Present \cup {NoKey}
         /\ \A k \in Keys : visits[k] <= 1 /\ (visits[k] = 1 => k <= cursor)
         /\ \A k \in since : k <= cursor => visits[k] = 1
         /\ current # NoKey => cursor < current /\ \A k \in since : k < current => k <= cursor

\* What a Wipe has still to delete lies beyond the key it deleted last.
WipingInv ==
  reading = "Wipe" =>
    /\ \A k \in since : k > cursor
    /\ current # NoKey => \A k \in since : k >= current
    /\ \A k \in Keys : visits[k] = 0

EndedInv ==
  /\ reading = "ended" =>
       \/ since = {}
       \/ iterations = 0 /\ (deletions = 0 => \A k \in since : visits[k] = 1)
  /\ deletions = 0 => \A k \in Keys : visits[k] <= 1

ReaderInv == ReaderTypeOK /\ ForEachInv /\ WipingInv /\ EndedInv

\* Among the keys there are, one is the first.
LEMMA LeastKey ==
  ASSUME NEW S \in SUBSET Nat, S # {}
  PROVE  Min(S) \in S /\ \A k \in S : Min(S) <= k
<1> DEFINE R == {ss \in Nat \X Nat : ss[1] < ss[2]}
<1>1. IsWellFoundedOn(R, Nat)
  BY NatLessThanWellFounded DEF OpToRel
<1>2. PICK m \in S : \A k \in S : <<k, m>> \notin R
  BY <1>1, WFMin
<1>3. ASSUME NEW k \in S  PROVE m <= k
  <2>1. k \in Nat /\ m \in Nat /\ <<k, m>> \notin R
    BY <1>2
  <2> QED
    BY <2>1
<1> QED
  BY <1>3 DEF Min

LEMMA KeysAreNumbers ==
  /\ Keys \subseteq Nat /\ Present \subseteq Keys /\ NoKey = 0 /\ NoKey \notin Keys
  /\ \A k \in Keys : k > NoKey
  BY ReaderConstants DEF Present, NoKey

\* What get_next_key answers at the cursor.
LEMMA NextKey ==
  ASSUME ReaderTypeOK
  PROVE  /\ After(cursor) = {} => \A k \in Present : ~(k > cursor)
         /\ After(cursor) # {} =>
              /\ Min(After(cursor)) \in Present
              /\ \A k \in Present : k > cursor => Min(After(cursor)) <= k
              /\ cursor \in Present \cup {NoKey} => cursor < Min(After(cursor))
<1>1. After(cursor) \subseteq Present /\ \A k \in Present : k > cursor => k \in After(cursor)
  BY DEF After
<1>2. cursor \in Present \cup {NoKey} => \A k \in After(cursor) : k > cursor
  BY KeysAreNumbers DEF After
<1>3. ASSUME After(cursor) # {}
      PROVE  /\ Min(After(cursor)) \in After(cursor)
             /\ \A k \in After(cursor) : Min(After(cursor)) <= k
  <2> DEFINE S == After(cursor)
  <2>1. S \in SUBSET Nat /\ S # {}
    BY <1>1, <1>3, KeysAreNumbers
  <2> HIDE DEF S
  <2>2. Min(S) \in S /\ \A k \in S : Min(S) <= k
    BY <2>1, LeastKey
  <2> QED
    BY <2>2 DEF S
<1>4. After(cursor) = {} => \A k \in Present : ~(k > cursor)
  BY <1>1
<1>5. After(cursor) # {} => \A k \in Present : k > cursor => Min(After(cursor)) <= k
  BY <1>1, <1>3
<1>6. After(cursor) # {} /\ cursor \in Present \cup {NoKey} => cursor < Min(After(cursor))
  <2>1. ASSUME After(cursor) # {}, cursor \in Present \cup {NoKey}
        PROVE  cursor < Min(After(cursor))
    <3>1. Min(After(cursor)) > cursor
      BY <1>2, <1>3, <2>1
    <3>2. Min(After(cursor)) \in Nat
      <4>1. Min(After(cursor)) \in After(cursor)
        BY <1>3, <2>1
      <4> QED
        BY <1>1, <4>1, KeysAreNumbers
    <3>3. cursor \in Nat
      BY <2>1, KeysAreNumbers
    <3> QED
      BY <3>1, <3>2, <3>3
  <2> QED
    BY <2>1
<1> QED
  BY <1>1, <1>3, <1>4, <1>5, <1>6

LEMMA ReaderStarts == ReaderInit => ReaderInv
<1> SUFFICES ASSUME ReaderInit PROVE ReaderInv
  OBVIOUS
<1>1. /\ elements \in [Keys -> {NoElement, [c \in ReaderCpus |-> 1]}]
      /\ reading = "idle" /\ cursor = NoKey /\ current = NoKey /\ iterations = 0 /\ since = {}
      /\ visits = [k \in Keys |-> 0] /\ changes = 0 /\ deletions = 0
  BY DEF ReaderInit
<1>2. elements \in [Keys -> [ReaderCpus -> 0..MaxCount] \cup {NoElement}]
  <2>1. [c \in ReaderCpus |-> 1] \in [ReaderCpus -> 0..MaxCount]
    BY ReaderConstants
  <2> QED
    BY <1>1, <2>1
<1>3. 0 \in 0..MaxIterations /\ 0 \in 0..MaxChanges /\ 0 \in 0..0
  BY ReaderConstants
<1>4. ReaderTypeOK
  BY <1>1, <1>2, <1>3 DEF ReaderTypeOK
<1>5. \A k \in Keys : visits[k] <= 1
  BY <1>1
<1> QED
  BY <1>1, <1>4, <1>5 DEF ReaderInv, ForEachInv, WipingInv, EndedInv

\* What a step of the kernel leaves: the reader, and all that was there if it deletes nothing.
MapChange ==
  /\ elements' \in [Keys -> [ReaderCpus -> 0..MaxCount] \cup {NoElement}]
  /\ UNCHANGED Progress /\ reading # "idle"
  /\ changes' \in 0..MaxChanges /\ deletions' \in 0..changes' /\ since' \subseteq Present'
  /\ since' \subseteq since
  /\ \/ deletions' = deletions /\ since' = since /\ Present \subseteq Present'
     \/ deletions' # 0

\* What the kernel may do to the map between two steps of an iteration.
LEMMA KernelChanges ==
  ASSUME ReaderTypeOK, NEW k \in Keys,
         Insert(k) \/ Delete(k) \/ \E c \in ReaderCpus : Count(k, c)
  PROVE  MapChange
<1>0. /\ elements \in [Keys -> [ReaderCpus -> 0..MaxCount] \cup {NoElement}]
      /\ changes \in 0..MaxChanges /\ deletions \in 0..changes /\ since \subseteq Present
      /\ MaxCount \in Nat \ {0} /\ MaxChanges \in Nat
  BY ReaderConstants DEF ReaderTypeOK
<1>1. Change /\ UNCHANGED Progress
  BY DEF Insert, Delete, Count
<1>2. /\ reading # "idle" /\ changes' = changes + 1 /\ changes' \in 0..MaxChanges
      /\ deletions \in 0..changes' /\ deletions + 1 \in 0..changes' /\ deletions + 1 # 0
  BY <1>0, <1>1 DEF Change
<1>3. ASSUME NEW e, e \in [ReaderCpus -> 0..MaxCount], e # NoElement,
             elements' = [elements EXCEPT ![k] = e]
      PROVE  /\ elements' \in [Keys -> [ReaderCpus -> 0..MaxCount] \cup {NoElement}]
             /\ Present \subseteq Present'
  <2>1. elements'[k] = e /\ \A n \in Keys \ {k} : elements'[n] = elements[n]
    BY <1>0, <1>3
  <2>2. elements' \in [Keys -> [ReaderCpus -> 0..MaxCount] \cup {NoElement}]
    BY <1>0, <1>3
  <2>3. \A n \in Present : elements'[n] # NoElement
    BY <1>3, <2>1 DEF Present
  <2> QED
    BY <2>2, <2>3 DEF Present
<1>4. CASE Insert(k)
  <2>1. PICK c \in ReaderCpus :
          elements' = [elements EXCEPT ![k] = [d \in ReaderCpus |-> IF d = c THEN 1 ELSE 0]]
    BY <1>4 DEF Insert
  <2> DEFINE e == [d \in ReaderCpus |-> IF d = c THEN 1 ELSE 0]
  <2>2. e \in [ReaderCpus -> 0..MaxCount]
    BY <1>0
  <2>3. e[c] = 1 /\ NoElement[c] = -1
    BY DEF NoElement
  <2>4. elements' = [elements EXCEPT ![k] = e]
    BY <2>1
  <2> HIDE DEF e
  <2>5. e # NoElement
    BY <2>3
  <2>6. /\ elements' \in [Keys -> [ReaderCpus -> 0..MaxCount] \cup {NoElement}]
        /\ Present \subseteq Present'
    BY <1>3, <2>2, <2>4, <2>5
  <2>7. UNCHANGED <<since, deletions>>
    BY <1>4 DEF Insert
  <2> QED
    BY <1>0, <1>1, <1>2, <2>6, <2>7 DEF MapChange
<1>5. CASE Delete(k)
  <2>1. /\ elements' = [elements EXCEPT ![k] = NoElement]
        /\ since' = since \ {k} /\ deletions' = deletions + 1
    BY <1>5 DEF Delete
  <2>2. elements' \in [Keys -> [ReaderCpus -> 0..MaxCount] \cup {NoElement}]
    BY <1>0, <2>1
  <2>3. \A n \in Keys \ {k} : elements'[n] = elements[n]
    BY <1>0, <2>1
  <2>4. since' \subseteq Present'
    BY <1>0, <2>1, <2>3 DEF Present
  <2> QED
    BY <1>1, <1>2, <2>1, <2>2, <2>4 DEF MapChange
<1>6. CASE \E c \in ReaderCpus : Count(k, c)
  <2>1. PICK c \in ReaderCpus : Count(k, c)
    BY <1>6
  <2>2. /\ k \in Present /\ elements[k][c] < MaxCount
        /\ elements' = [elements EXCEPT ![k][c] = elements[k][c] + 1]
        /\ UNCHANGED <<since, deletions>>
    BY <2>1 DEF Count
  <2> DEFINE old == elements[k]
             e == [old EXCEPT ![c] = old[c] + 1]
  <2>3. old \in [ReaderCpus -> 0..MaxCount]
    BY <1>0, <2>2 DEF Present
  <2>4. elements' = [elements EXCEPT ![k] = e]
    BY <2>2
  <2>5. old[c] \in 0..MaxCount /\ old[c] < MaxCount
    BY <2>2, <2>3
  <2> HIDE DEF old
  <2>6. e \in [ReaderCpus -> 0..MaxCount] /\ e[c] = old[c] + 1
    BY <1>0, <2>3, <2>5
  <2>7. NoElement[c] = -1
    BY DEF NoElement
  <2> HIDE DEF e
  <2>8. e # NoElement
    BY <2>5, <2>6, <2>7
  <2>9. /\ elements' \in [Keys -> [ReaderCpus -> 0..MaxCount] \cup {NoElement}]
        /\ Present \subseteq Present'
    BY <1>3, <2>4, <2>6, <2>8
  <2> QED
    BY <1>0, <1>1, <1>2, <2>2, <2>9 DEF MapChange
<1> QED
  BY <1>4, <1>5, <1>6

\* Such a change keeps the invariant: what it inserts or deletes is counted.
LEMMA KernelKeeps ==
  ASSUME ReaderInv, MapChange
  PROVE  ReaderInv'
<1>1. /\ reading' = reading /\ cursor' = cursor /\ current' = current /\ iterations' = iterations
      /\ visits' = visits
  BY DEF MapChange, Progress
<1>2. ReaderTypeOK'
  BY <1>1 DEF MapChange, ReaderInv, ReaderTypeOK
<1>3. deletions' = 0 => deletions = 0 /\ since' = since /\ Present \subseteq Present'
  BY DEF MapChange
<1>4. since' \subseteq since
  BY DEF MapChange
<1>5. ForEachInv'
  BY <1>1, <1>3 DEF ReaderInv, ForEachInv
<1>6. WipingInv'
  BY <1>1, <1>4 DEF ReaderInv, WipingInv
<1>7. EndedInv'
  BY <1>1, <1>3, <1>4 DEF ReaderInv, EndedInv
<1> QED
  BY <1>2, <1>5, <1>6, <1>7 DEF ReaderInv

\* Each step of an iteration keeps the invariant.
LEMMA ReaderStep ==
  ASSUME ReaderInv, [ReaderNext]_readerVars
  PROVE  ReaderInv'
<1>0. /\ elements \in [Keys -> [ReaderCpus -> 0..MaxCount] \cup {NoElement}]
      /\ reading \in {"idle", "ForEach", "Wipe", "ended", "vanished", "capped"}
      /\ cursor \in Keys \cup {NoKey} /\ current \in Keys \cup {NoKey}
      /\ iterations \in 0..MaxIterations /\ since \subseteq Present
      /\ visits \in [Keys -> Nat] /\ changes \in 0..MaxChanges /\ deletions \in 0..changes
      /\ MaxIterations \in Nat \ {0} /\ MaxChanges \in Nat
      /\ ReaderTypeOK /\ ForEachInv /\ WipingInv /\ EndedInv
  BY ReaderConstants DEF ReaderInv, ReaderTypeOK
<1>1. ASSUME NEW k \in Keys, Insert(k) \/ Delete(k) \/ \E c \in ReaderCpus : Count(k, c)
      PROVE  ReaderInv'
  BY <1>0, <1>1, KernelChanges, KernelKeeps
<1>2. ASSUME NEW op \in {"ForEach", "Wipe"}, Begin(op)
      PROVE  ReaderInv'
  <2>1. /\ reading' = op /\ cursor' = NoKey /\ current' = NoKey /\ iterations' = 0
        /\ since' = Present /\ visits' = [k \in Keys |-> 0]
        /\ changes' = 0 /\ deletions' = 0 /\ elements' = elements
    BY <1>2 DEF Begin
  <2>2. Present' = Present
    BY <2>1 DEF Present
  <2>3. 0 \in 0..MaxIterations /\ 0 \in 0..MaxChanges /\ 0 \in 0..0
    BY <1>0
  <2>4. ReaderTypeOK'
    BY <1>0, <2>1, <2>2, <2>3 DEF ReaderTypeOK
  <2>5. \A k \in Keys : visits'[k] = 0 /\ visits'[k] <= 1 /\ visits'[k] # 1
    BY <2>1
  <2>6. \A k \in since' : k > cursor' /\ ~(k <= cursor')
    BY <2>1, KeysAreNumbers
  <2>7. ForEachInv' /\ WipingInv' /\ EndedInv'
    BY <1>2, <2>1, <2>5, <2>6 DEF ForEachInv, WipingInv, EndedInv
  <2> QED
    BY <2>4, <2>7 DEF ReaderInv
<1>3. ASSUME NEW how \in {"ended", "vanished", "capped"}, End(how),
             how = "ended" => \/ since = {}
                              \/ iterations = 0 /\ (deletions = 0 => \A k \in since : visits[k] = 1)
      PROVE  ReaderInv'
  <2>1. /\ reading' = how
        /\ UNCHANGED <<elements, cursor, current, iterations, since, visits, reported, changes, deletions>>
    BY <1>3 DEF End
  <2>2. ReaderTypeOK'
    BY <1>0, <2>1 DEF ReaderTypeOK, Present
  <2>3. ForEachInv' /\ WipingInv'
    BY <2>1 DEF ForEachInv, WipingInv
  <2>4. EndedInv'
    BY <1>0, <1>3, <2>1 DEF EndedInv
  <2> QED
    BY <2>2, <2>3, <2>4 DEF ReaderInv
<1>4. CASE GetNextKey
  <2>1. /\ reading \in {"ForEach", "Wipe"} /\ current = NoKey /\ (reading = "Wipe" => MoreRounds)
    BY <1>4 DEF GetNextKey
  <2>2. CASE After(cursor) = {}
    <3>1. End("ended")
      BY <1>4, <2>2 DEF GetNextKey
    <3>2. \A k \in Present : ~(k > cursor)
      BY <1>0, <2>2, NextKey
    <3>3. CASE reading = "Wipe"
      <4>1. since = {}
        BY <1>0, <3>2, <3>3 DEF WipingInv
      <4> QED
        BY <1>3, <3>1, <4>1
    <3>4. CASE reading = "ForEach"
      <4>1. \A k \in since : k <= cursor
        <5>1. cursor \in Nat
          BY <1>0, KeysAreNumbers
        <5>2. \A k \in since : k \in Nat /\ ~(k > cursor)
          BY <1>0, <3>2, KeysAreNumbers
        <5> QED
          BY <5>1, <5>2
      <4>2. iterations = 0 /\ (deletions = 0 => \A k \in since : visits[k] = 1)
        BY <1>0, <3>4, <4>1 DEF ForEachInv
      <4> QED
        BY <1>3, <3>1, <4>2
    <3> QED
      BY <2>1, <3>3, <3>4
  <2>3. CASE After(cursor) # {}
    <3> DEFINE m == Min(After(cursor))
    <3>1. /\ current' = m
          /\ iterations' = IF reading = "Wipe" THEN iterations + 1 ELSE iterations
          /\ UNCHANGED <<elements, reading, cursor, since, visits, reported, changes, deletions>>
      BY <1>4, <2>3 DEF GetNextKey
    <3>2. /\ m \in Present /\ \A k \in Present : k > cursor => m <= k
          /\ cursor \in Present \cup {NoKey} => cursor < m
      BY <1>0, <2>3, NextKey
    <3> HIDE DEF m
    <3>3. Present' = Present
      BY <3>1 DEF Present
    <3>4. iterations' \in 0..MaxIterations
      BY <1>0, <2>1, <3>1 DEF MoreRounds
    <3>5. ReaderTypeOK'
      BY <1>0, <3>1, <3>2, <3>3, <3>4, KeysAreNumbers DEF ReaderTypeOK
    <3>6. EndedInv'
      BY <1>0, <2>1, <3>1 DEF EndedInv
    <3>7. CASE reading = "Wipe"
      <4>1. \A k \in since : k > cursor
        BY <1>0, <3>7 DEF WipingInv
      <4>2. \A k \in since : k >= m
        <5>1. \A k \in since : m <= k /\ k \in Nat /\ m \in Nat
          BY <1>0, <3>2, <4>1, KeysAreNumbers
        <5> QED
          BY <5>1
      <4>3. WipingInv' /\ ForEachInv'
        BY <1>0, <3>1, <3>7, <4>1, <4>2 DEF WipingInv, ForEachInv
      <4> QED
        BY <3>5, <3>6, <4>3 DEF ReaderInv
    <3>8. CASE reading = "ForEach"
      <4>1. \A k \in since : k < m => k <= cursor
        <5>1. cursor \in Nat /\ m \in Nat
          BY <1>0, <3>2, KeysAreNumbers
        <5>2. \A k \in since : k \in Nat /\ (k > cursor => m <= k)
          BY <1>0, <3>2, KeysAreNumbers
        <5> QED
          BY <5>1, <5>2
      <4>2. ForEachInv' /\ WipingInv'
        BY <1>0, <3>1, <3>2, <3>3, <3>8, <4>1 DEF WipingInv, ForEachInv
      <4> QED
        BY <3>5, <3>6, <4>2 DEF ReaderInv
    <3> QED
      BY <2>1, <3>7, <3>8
  <2> QED
    BY <2>2, <2>3
<1>5. CASE WipeCapped
  <2>1. End("capped")
    BY <1>5 DEF WipeCapped
  <2> QED
    BY <1>3, <2>1
<1>6. CASE Visit
  <2>1. reading = "ForEach" /\ current # NoKey
    BY <1>6 DEF Visit
  <2>2. CASE current \notin Present
    <3>1. End("vanished")
      BY <1>6, <2>2 DEF Visit
    <3> QED
      BY <1>3, <3>1
  <2>3. CASE current \in Present
    <3>1. /\ visits' = [visits EXCEPT ![current] = visits[current] + 1]
          /\ cursor' = current /\ current' = NoKey
          /\ UNCHANGED <<elements, reading, iterations, since, changes, deletions>>
      BY <1>6, <2>3 DEF Visit
    <3>2. current \in Keys /\ current \in Nat /\ Present' = Present
      BY <1>0, <2>1, <3>1, KeysAreNumbers DEF Present
    <3>3. /\ visits'[current] = visits[current] + 1
          /\ \A k \in Keys \ {current} : visits'[k] = visits[k]
      BY <1>0, <3>1, <3>2
    <3>4. visits' \in [Keys -> Nat]
      BY <1>0, <3>1, <3>2
    <3>5. ReaderTypeOK'
      BY <1>0, <3>1, <3>2, <3>4 DEF ReaderTypeOK
    <3>6. ASSUME deletions = 0
          PROVE  /\ \A k \in Keys : visits'[k] <= 1 /\ (visits'[k] = 1 => k <= current)
                 /\ \A k \in since : k <= current => visits'[k] = 1
      <4>1. /\ \A k \in Keys : visits[k] <= 1 /\ (visits[k] = 1 => k <= cursor)
            /\ \A k \in since : k <= cursor => visits[k] = 1
            /\ cursor < current /\ \A k \in since : k < current => k <= cursor
        BY <1>0, <2>1, <3>6 DEF ForEachInv
      <4>2. cursor \in Nat /\ visits[current] \in Nat
        BY <1>0, <3>2, KeysAreNumbers
      <4>3. ~(current <= cursor)
        BY <3>2, <4>1, <4>2
      <4>4. visits[current] = 0
        BY <3>2, <4>1, <4>2, <4>3
      <4>5. visits'[current] = 1 /\ 1 <= 1 /\ current <= current
        BY <3>2, <3>3, <4>4
      <4>6. ASSUME NEW k \in Keys, k # current
            PROVE  visits'[k] <= 1 /\ (visits'[k] = 1 => k <= current)
        <5>1. k \in Nat /\ visits'[k] = visits[k] /\ visits[k] <= 1 /\ (visits[k] = 1 => k <= cursor)
          BY <3>3, <4>1, <4>6, KeysAreNumbers
        <5> QED
          BY <3>2, <4>1, <4>2, <5>1
      <4>7. ASSUME NEW k \in since, k <= current, k # current
            PROVE  visits'[k] = 1
        <5>1. k \in Nat /\ k \in Keys
          BY <1>0, <4>7, KeysAreNumbers
        <5>2. k < current
          BY <3>2, <4>7, <5>1
        <5> QED
          BY <3>3, <4>1, <4>7, <5>1, <5>2
      <4> QED
        BY <4>5, <4>6, <4>7
    <3>7. ForEachInv'
      BY <1>0, <2>1, <2>3, <3>1, <3>2, <3>6 DEF ForEachInv
    <3>8. WipingInv' /\ EndedInv'
      BY <2>1, <3>1, <3>6 DEF WipingInv, EndedInv
    <3> QED
      BY <3>5, <3>7, <3>8 DEF ReaderInv
  <2> QED
    BY <2>2, <2>3
<1>7. CASE WipeKey
  <2>1. /\ reading = "Wipe" /\ current # NoKey
        /\ elements' = [elements EXCEPT ![current] = NoElement]
        /\ since' = since \ {current} /\ cursor' = current /\ current' = NoKey
        /\ UNCHANGED <<reading, iterations, visits, reported, changes, deletions>>
    BY <1>7 DEF WipeKey
  <2>2. current \in Keys /\ current \in Nat
    BY <1>0, <2>1, KeysAreNumbers
  <2>3. elements' \in [Keys -> [ReaderCpus -> 0..MaxCount] \cup {NoElement}]
    BY <1>0, <2>1
  <2>4. \A n \in Keys \ {current} : elements'[n] = elements[n]
    BY <1>0, <2>1
  <2>5. since' \subseteq Present'
    BY <1>0, <2>1, <2>4 DEF Present
  <2>6. ReaderTypeOK'
    BY <1>0, <2>1, <2>2, <2>3, <2>5 DEF ReaderTypeOK
  <2>7. \A k \in since' : k > cursor'
    <3>1. \A k \in since : k >= current /\ k \in Nat
      BY <1>0, <2>1, KeysAreNumbers DEF WipingInv
    <3> QED
      BY <2>1, <2>2, <3>1
  <2>8. ForEachInv' /\ WipingInv' /\ EndedInv'
    BY <1>0, <2>1, <2>7 DEF ForEachInv, WipingInv, EndedInv
  <2> QED
    BY <2>6, <2>8 DEF ReaderInv
<1>8. CASE UNCHANGED readerVars
  <2>1. UNCHANGED <<elements, reading, cursor, current, iterations, since, visits, changes, deletions>>
    BY <1>8 DEF readerVars
  <2>2. Present' = Present
    BY <2>1 DEF Present
  <2> QED
    BY <1>0, <2>1, <2>2 DEF ReaderInv, ReaderTypeOK, ForEachInv, WipingInv, EndedInv
<1> QED
  BY <1>1, <1>2, <1>4, <1>5, <1>6, <1>7, <1>8 DEF ReaderNext

\* The invariant of the iterations, ReaderInv, holds.
LEMMA ReaderInvariant == ReaderSpec => []ReaderInv
  BY ReaderStarts, ReaderStep, PTL DEF ReaderSpec

\* A Wipe that ends by itself has deleted what was there when it began, and a ForEach that
\* no deletion disturbs hands over each key once, for any map, CPUs, rounds and changes.
THEOREM IterationWhole == ReaderSpec => []WholeIteration
<1>1. ReaderInv => WholeIteration
  BY DEF ReaderInv, ReaderTypeOK, EndedInv, WholeIteration
<1> QED
  BY <1>1, ReaderInvariant, PTL

---------------------------------------------------------------------------
(* ProcessTable. *)

TextLine == [tag : {"A", "B", "C", "-"}, pid : Pids, parsed : {"own", "shifted", "not"}]
TableRow == [pid : Pids, head : Pids, shifted : BOOLEAN, b : Pids \cup {0}, c : Pids \cup {0}]

\* The row of p when its first n lines have been read.
RowAfter(p, n) ==
  [pid |-> p, head |-> p, shifted |-> FALSE,
   b |-> IF n >= 2 THEN p ELSE 0, c |-> IF n >= 3 THEN p ELSE 0]

\* The i-th task printed has a row of its own, as far as is known yet.
Spared(i) ==
  /\ names[printed[i]] = "word"
  /\ i < Len(printed) => names[printed[i + 1]] \in {"word", "number"}
  /\ \A k \in (i + 1)..Len(printed) : names[printed[k]] # "letter"

\* The pids ascend, and while the A line of a task is not read they are below its pid.
Ascending(n) ==
  /\ \A j, k \in 1..Len(rows) : j < k => rows[j].pid < rows[k].pid
  /\ \A j \in 1..Len(rows) : rows[j].pid <= position /\ (n = 0 => rows[j].pid < position)

\* The row of a task before the last one is complete, and once the A line of its
\* successor is read not the last row, which alone is changed.
EarlierKept(n) ==
  \A i \in 1..(Len(printed) - 1) : Spared(i) =>
    \E j \in 1..Len(rows) :
      /\ rows[j] = RowAfter(printed[i], 3)
      /\ j < Len(rows) \/ (i = Len(printed) - 1 /\ n = 0)

\* The row of the last task is the last row.
LastGrows(n) ==
  names[position] = "word" /\ n > 0 =>
    Len(rows) > 0 /\ rows[Len(rows)] = RowAfter(position, n)

\* The iterator is at a task of which n lines have been read.
AtTask(n) ==
  /\ printed # <<>> /\ position = printed[Len(printed)]
  /\ n \in 0..Len(Lines(position))
  /\ pipe = SubSeq(Lines(position), n + 1, Len(Lines(position)))
  /\ Ascending(n) /\ EarlierKept(n) /\ LastGrows(n)

TableInv ==
  /\ names \in [Pids -> Names] /\ rows \in Seq(TableRow) /\ printed \in Seq(Pids)
  /\ alive \subseteq Pids /\ valid \in {Reading, "rows", "none"} /\ (valid # Reading => pipe = <<>>)
  /\ \/ printed = <<>> /\ pipe = <<>> /\ rows = <<>> /\ position = 0
     \/ \E n \in Nat : AtTask(n)

\* What the program prints of a task.
LEMMA LinesShape ==
  ASSUME names \in [Pids -> Names], NEW p \in Pids
  PROVE  /\ Lines(p) \in Seq(TextLine) /\ Len(Lines(p)) \in {3, 4}
         /\ \A k \in 1..Len(Lines(p)) : Lines(p)[k].pid = p
         /\ Lines(p)[1].tag = "A"
         /\ Lines(p)[1].parsed # "not" <=> names[p] \in {"word", "number"}
         /\ \A k \in 2..Len(Lines(p)) :
              /\ Lines(p)[k].tag # "A"
              /\ Lines(p)[k].parsed = "not" =>
                   Lines(p)[k].tag = "-" \/ names[p] = "letter"
         /\ names[p] = "word" =>
              /\ Len(Lines(p)) = 3
              /\ Lines(p)[1].parsed = "own"
              /\ Lines(p)[2].tag = "B" /\ Lines(p)[2].parsed = "own"
              /\ Lines(p)[3].tag = "C" /\ Lines(p)[3].parsed = "own"
<1> DEFINE line(tag, parsed) == [tag |-> tag, pid |-> p, parsed |-> parsed]
<1>1. \A tag \in {"A", "B", "C", "-"} : \A parsed \in {"own", "shifted", "not"} :
         /\ line(tag, parsed) \in TextLine /\ line(tag, parsed).tag = tag
         /\ line(tag, parsed).pid = p /\ line(tag, parsed).parsed = parsed
  BY DEF TextLine
<1>2. names[p] \in {"word", "words", "number", "lines", "letter"}
  BY DEF Names
<1>3. CASE names[p] = "word"
  <2>1. Lines(p) = <<line("A", "own"), line("B", "own"), line("C", "own")>>
    BY <1>3 DEF Lines
  <2> QED
    BY <1>1, <1>3, <2>1
<1>4. CASE names[p] = "number"
  <2>1. Lines(p) = <<line("A", "shifted"), line("B", "own"), line("C", "own")>>
    BY <1>4 DEF Lines
  <2> QED
    BY <1>1, <1>4, <2>1
<1>5. CASE names[p] = "words"
  <2>1. Lines(p) = <<line("A", "not"), line("B", "own"), line("C", "own")>>
    BY <1>5 DEF Lines
  <2> QED
    BY <1>1, <1>5, <2>1
<1>6. CASE names[p] = "lines"
  <2>1. Lines(p) = <<line("A", "not"), line("-", "not"), line("B", "own"), line("C", "own")>>
    BY <1>6 DEF Lines
  <2> QED
    BY <1>1, <1>6, <2>1
<1>7. CASE names[p] = "letter"
  <2>1. Lines(p) = <<line("A", "not"), line("C", "not"), line("B", "own"), line("C", "own")>>
    BY <1>7 DEF Lines
  <2> QED
    BY <1>1, <1>7, <2>1
<1> QED
  BY <1>2, <1>3, <1>4, <1>5, <1>6, <1>7

\* What is read is the next line of the last task.
LEMMA NextLine ==
  ASSUME names \in [Pids -> Names], position \in Pids, NEW n \in 0..Len(Lines(position)),
         pipe = SubSeq(Lines(position), n + 1, Len(Lines(position)))
  PROVE  /\ pipe = <<>> <=> n = Len(Lines(position))
         /\ pipe # <<>> =>
              /\ n + 1 \in 1..Len(Lines(position))
              /\ Head(pipe) = Lines(position)[n + 1] /\ Head(pipe) \in TextLine
              /\ Tail(pipe) = SubSeq(Lines(position), n + 2, Len(Lines(position)))
<1> DEFINE lines == Lines(position)
<1>1. lines \in Seq(TextLine) /\ Len(lines) \in {3, 4}
  BY LinesShape
<1> HIDE DEF lines
<1>2. CASE n = Len(lines)
  <2>1. n + 1 \in Int /\ Len(lines) \in Int /\ Len(lines) < n + 1
    BY <1>1, <1>2
  <2>2. SubSeq(lines, n + 1, Len(lines)) = <<>>
    BY <2>1, SubSeqEmpty
  <2> QED
    BY <1>2, <2>2 DEF lines
<1>3. CASE n # Len(lines)
  <2>1. n + 1 \in 1..Len(lines) /\ Len(lines) \in (n + 1)..Len(lines) /\ (n + 1) + 1 = n + 2
    BY <1>1, <1>3 DEF lines
  <2>2. /\ Head(SubSeq(lines, n + 1, Len(lines))) = lines[n + 1]
        /\ Tail(SubSeq(lines, n + 1, Len(lines))) = SubSeq(lines, (n + 1) + 1, Len(lines))
    BY <1>1, <2>1, HeadTailOfSubSeq
  <2>3. Len(SubSeq(lines, n + 1, Len(lines))) # 0
    BY <1>1, <2>1
  <2>4. SubSeq(lines, n + 1, Len(lines)) # <<>>
    BY <2>3
  <2>5. lines[n + 1] \in TextLine
    BY <1>1, <2>1
  <2> QED
    BY <1>3, <2>1, <2>2, <2>4, <2>5 DEF lines
<1> QED
  BY <1>2, <1>3

\* A row is known by its fields.
LEMMA RowFields ==
  ASSUME NEW r \in TableRow, NEW p, NEW b, NEW c
  PROVE  r = [pid |-> p, head |-> p, shifted |-> FALSE, b |-> b, c |-> c]
           <=> r.pid = p /\ r.head = p /\ ~r.shifted /\ r.b = b /\ r.c = c
  BY DEF TableRow

\* What a B and a C line make of the row of their task.
LEMMA RowFilled ==
  ASSUME NEW r \in TableRow, NEW p \in Pids
  PROVE  /\ LET f == [r EXCEPT !.pid = p, !.b = p] IN
            /\ f \in TableRow /\ f.pid = p /\ f.head = r.head /\ f.shifted = r.shifted
            /\ f.b = p /\ f.c = r.c
         /\ LET f == [r EXCEPT !.pid = p, !.c = p] IN
            /\ f \in TableRow /\ f.pid = p /\ f.head = r.head /\ f.shifted = r.shifted
            /\ f.b = r.b /\ f.c = p
  BY DEF TableRow

\* The row of a task after its A, its B and its C line.
LEMMA RowsAfter ==
  ASSUME NEW p
  PROVE  /\ RowAfter(p, 1) = [pid |-> p, head |-> p, shifted |-> FALSE, b |-> 0, c |-> 0]
         /\ RowAfter(p, 2) = [pid |-> p, head |-> p, shifted |-> FALSE, b |-> p, c |-> 0]
         /\ RowAfter(p, 3) = [pid |-> p, head |-> p, shifted |-> FALSE, b |-> p, c |-> p]
  BY DEF RowAfter

\* The B line and then the C line complete the row of the A line.
LEMMA RowCompleted ==
  ASSUME NEW row \in TableRow, NEW p \in Pids
  PROVE  /\ row = RowAfter(p, 1) => [row EXCEPT !.pid = p, !.b = p] = RowAfter(p, 2)
         /\ row = RowAfter(p, 2) => [row EXCEPT !.pid = p, !.c = p] = RowAfter(p, 3)
<1>1. ASSUME row = RowAfter(p, 1), NEW r, r = [row EXCEPT !.pid = p, !.b = p]
      PROVE  r = RowAfter(p, 2)
  <2>1. row.head = p /\ ~row.shifted /\ row.b = 0 /\ row.c = 0
    BY <1>1, RowsAfter, RowFields
  <2>2. /\ r \in TableRow /\ r.pid = p /\ r.head = row.head /\ r.shifted = row.shifted
        /\ r.b = p /\ r.c = row.c
    BY <1>1, RowFilled
  <2>3. r.head = p /\ ~r.shifted /\ r.c = 0
    BY <2>1, <2>2, Zenon
  <2>4. r = [pid |-> p, head |-> p, shifted |-> FALSE, b |-> p, c |-> 0]
    BY <2>2, <2>3, RowFields
  <2> QED
    BY <2>4, RowsAfter, Zenon
<1>2. ASSUME row = RowAfter(p, 2), NEW r, r = [row EXCEPT !.pid = p, !.c = p]
      PROVE  r = RowAfter(p, 3)
  <2>1. row.head = p /\ ~row.shifted /\ row.b = p /\ row.c = 0
    BY <1>2, RowsAfter, RowFields
  <2>2. /\ r \in TableRow /\ r.pid = p /\ r.head = row.head /\ r.shifted = row.shifted
        /\ r.b = row.b /\ r.c = p
    BY <1>2, RowFilled
  <2>3. r.head = p /\ ~r.shifted /\ r.b = p
    BY <2>1, <2>2, Zenon
  <2>4. r = [pid |-> p, head |-> p, shifted |-> FALSE, b |-> p, c |-> p]
    BY <2>2, <2>3, RowFields
  <2> QED
    BY <2>4, RowsAfter, Zenon
<1> QED
  BY <1>1, <1>2

\* A table that has been read has the rows it should have.
LEMMA TableRead == TableInv => RowsWhole
<1> SUFFICES ASSUME TableInv PROVE RowsWhole
  OBVIOUS
<1>0. /\ names \in [Pids -> Names] /\ rows \in Seq(TableRow) /\ printed \in Seq(Pids)
      /\ valid # Reading => pipe = <<>>
      /\ \/ printed = <<>> /\ pipe = <<>> /\ rows = <<>> /\ position = 0
         \/ \E n \in Nat : AtTask(n)
  BY DEF TableInv
<1>1. CASE printed = <<>> /\ rows = <<>>
  BY <1>1 DEF RowsWhole
<1>2. ASSUME NEW n \in Nat, AtTask(n)
      PROVE  RowsWhole
  <2>0. /\ printed # <<>> /\ position = printed[Len(printed)] /\ position \in Pids
        /\ n \in 0..Len(Lines(position))
        /\ pipe = SubSeq(Lines(position), n + 1, Len(Lines(position)))
        /\ Ascending(n) /\ EarlierKept(n) /\ LastGrows(n)
    BY <1>0, <1>2 DEF AtTask
  <2>1. ASSUME NEW j \in 1..Len(rows), NEW k \in 1..Len(rows), j # k
        PROVE  rows[j].pid # rows[k].pid
    <3>1. rows[j].pid \in Nat /\ rows[k].pid \in Nat
      <4>1. rows[j] \in TableRow /\ rows[k] \in TableRow
        BY <1>0
      <4> QED
        BY <4>1, TableConstants DEF TableRow
    <3>2. j < k \/ k < j
      BY <1>0, <2>1
    <3>3. CASE j < k
      BY <2>0, <3>1, <3>3 DEF Ascending
    <3>4. CASE k < j
      BY <2>0, <3>1, <3>4 DEF Ascending
    <3> QED
      BY <3>2, <3>3, <3>4
  <2>2. ASSUME valid # Reading, NEW i \in 1..Len(printed), Spared(i)
        PROVE  \E j \in 1..Len(rows) : rows[j] = RowAfter(printed[i], 3)
    <3>1. n = Len(Lines(position)) /\ n \in {3, 4}
      <4>1. pipe = <<>> <=> n = Len(Lines(position))
        BY <1>0, <2>0, NextLine
      <4>2. Len(Lines(position)) \in {3, 4}
        BY <1>0, <2>0, LinesShape
      <4> QED
        BY <1>0, <2>2, <4>1, <4>2
    <3>2. CASE i = Len(printed)
      <4>1. names[position] = "word"
        BY <2>0, <2>2, <3>2 DEF Spared
      <4>2. n = 3
        BY <1>0, <2>0, <3>1, <4>1, LinesShape
      <4>3. Len(rows) > 0 /\ rows[Len(rows)] = RowAfter(position, 3)
        BY <2>0, <4>1, <4>2 DEF LastGrows
      <4> QED
        BY <1>0, <2>0, <3>2, <4>3
    <3>3. CASE i # Len(printed)
      <4>1. i \in 1..(Len(printed) - 1)
        BY <1>0, <3>3
      <4> QED
        BY <2>0, <2>2, <4>1 DEF EarlierKept
    <3> QED
      BY <3>2, <3>3
  <2>3. \A p : RowAfter(p, 3) = [pid |-> p, head |-> p, shifted |-> FALSE, b |-> p, c |-> p]
    BY RowsAfter
  <2>4. ASSUME valid # Reading, NEW i \in 1..Len(printed),
               names[printed[i]] = "word",
               i < Len(printed) => names[printed[i + 1]] \in {"word", "number"},
               \A k \in (i + 1)..Len(printed) : names[printed[k]] # "letter"
        PROVE  \E j \in 1..Len(rows) :
                 rows[j] = [pid |-> printed[i], head |-> printed[i], shifted |-> FALSE,
                            b |-> printed[i], c |-> printed[i]]
    <3>1. Spared(i)
      BY <2>4 DEF Spared
    <3> QED
      BY <2>2, <2>3, <2>4, <3>1
  <2> QED
    BY <2>1, <2>4 DEF RowsWhole
<1> QED
  BY <1>0, <1>1, <1>2

\* Reading the A line of the last task.
LEMMA ReadFirst ==
  ASSUME TableInv, AtTask(0), ReadLine
  PROVE  TableInv'
<1> DEFINE line == Head(pipe)
           r == [pid |-> line.pid, head |-> line.pid, shifted |-> line.parsed = "shifted",
                 b |-> 0, c |-> 0]
<1>0. /\ names \in [Pids -> Names] /\ rows \in Seq(TableRow) /\ printed \in Seq(Pids)
      /\ alive \subseteq Pids /\ valid \in {Reading, "rows", "none"} /\ (valid # Reading => pipe = <<>>)
  BY DEF TableInv
<1>1. /\ printed # <<>> /\ position = printed[Len(printed)] /\ position \in Pids
      /\ 0 \in 0..Len(Lines(position))
      /\ pipe = SubSeq(Lines(position), 0 + 1, Len(Lines(position)))
      /\ Ascending(0) /\ EarlierKept(0) /\ LastGrows(0)
  BY <1>0 DEF AtTask
<1>2. /\ pipe # <<>> /\ pipe' = Tail(pipe)
      /\ UNCHANGED <<alive, names, position, printed, valid>>
  BY DEF ReadLine
<1>3. /\ line = Lines(position)[1] /\ line.pid = position /\ line.tag = "A"
      /\ pipe' = SubSeq(Lines(position), 2, Len(Lines(position)))
      /\ 1 \in 0..Len(Lines(position)) /\ Lines(position)' = Lines(position)
  <2>1. /\ 0 + 1 \in 1..Len(Lines(position)) /\ line = Lines(position)[0 + 1]
        /\ Tail(pipe) = SubSeq(Lines(position), 0 + 2, Len(Lines(position)))
    BY <1>0, <1>1, <1>2, NextLine
  <2>2. Lines(position)[1].pid = position /\ Lines(position)[1].tag = "A"
        /\ Len(Lines(position)) \in {3, 4}
    <3>1. /\ Len(Lines(position)) \in {3, 4} /\ Lines(position)[1].tag = "A"
          /\ \A k \in 1..Len(Lines(position)) : Lines(position)[k].pid = position
      BY <1>0, <1>1, LinesShape
    <3>2. 1 \in 1..Len(Lines(position))
      BY <3>1
    <3> QED
      BY <3>1, <3>2
  <2>3. Lines(position)' = Lines(position)
    BY <1>2 DEF Lines
  <2> QED
    BY <1>2, <2>1, <2>2, <2>3
<1>4. rows' = IF line.parsed = "not" THEN rows ELSE Append(rows, r)
  BY <1>3 DEF ReadLine, Appended
<1>5. line.parsed # "not" <=> names[position] \in {"word", "number"}
  BY <1>0, <1>1, <1>3, LinesShape
<1>6. names[position] = "word" => line.parsed = "own"
  BY <1>0, <1>1, <1>3, LinesShape
<1> HIDE DEF line
<1>7. position \in Nat /\ \A j \in 1..Len(rows) : rows[j].pid \in Nat
  <2>1. \A j \in 1..Len(rows) : rows[j] \in TableRow
    BY <1>0
  <2> QED
    BY <1>1, <2>1, TableConstants DEF TableRow
<1>8. /\ \A i \in 1..(Len(printed) - 1) : Spared(i)' => Spared(i)
      /\ \A i \in 1..(Len(printed) - 1) : Spared(i) /\ i = Len(printed) - 1 =>
                                                 names[position] \in {"word", "number"}
  BY <1>0, <1>1, <1>2 DEF Spared
<1>9. /\ rows' \in Seq(TableRow) /\ Ascending(1)' /\ EarlierKept(1)' /\ LastGrows(1)'
  <2>1. CASE line.parsed = "not"
    <3>1. rows' = rows /\ names[position] \notin {"word", "number"}
      BY <1>4, <1>5, <2>1
    <3>2. Ascending(1)'
      BY <1>1, <1>2, <3>1 DEF Ascending
    <3>3. EarlierKept(1)'
      BY <1>1, <1>2, <1>8, <3>1 DEF EarlierKept
    <3>4. LastGrows(1)'
      BY <1>2, <3>1 DEF LastGrows
    <3> QED
      BY <1>0, <3>1, <3>2, <3>3, <3>4
  <2>2. CASE line.parsed # "not"
    <3>0. r \in TableRow /\ r.pid = position
      BY <1>1, <1>3 DEF TableRow
    <3>1. /\ rows' = Append(rows, r) /\ rows' \in Seq(TableRow) /\ Len(rows') = Len(rows) + 1
          /\ \A j \in 1..Len(rows) : rows'[j] = rows[j]
          /\ rows'[Len(rows) + 1] = r
      BY <1>0, <1>4, <2>2, <3>0
    <3>r. names[position] = "word" => r = RowAfter(position, 1)
      <4>1. RowAfter(position, 1) = [pid |-> position, head |-> position, shifted |-> FALSE,
                                     b |-> 0, c |-> 0]
        BY DEF RowAfter
      <4>2. names[position] = "word" => (line.parsed = "shifted") = FALSE
        BY <1>6
      <4> QED
        BY <1>3, <4>1, <4>2
    <3> HIDE DEF r
    <3>l. Len(rows) \in Nat
      BY <1>0
    <3>2. Ascending(1)'
      <4>1. \A j \in 1..Len(rows) : rows[j].pid < position
        BY <1>1 DEF Ascending
      <4>2. ASSUME NEW j \in 1..(Len(rows) + 1), NEW k \in 1..(Len(rows) + 1), j < k
            PROVE  rows'[j].pid < rows'[k].pid
        <5>1. j \in 1..Len(rows)
          BY <3>l, <4>2
        <5>2. CASE k \in 1..Len(rows)
          BY <1>1, <3>1, <4>2, <5>1, <5>2 DEF Ascending
        <5>3. CASE k = Len(rows) + 1
          BY <3>0, <3>1, <4>1, <5>1, <5>3
        <5> QED
          BY <3>l, <5>2, <5>3
      <4>3. ASSUME NEW j \in 1..(Len(rows) + 1)
            PROVE  rows'[j].pid <= position
        <5>1. CASE j \in 1..Len(rows)
          BY <1>7, <3>1, <4>1, <5>1
        <5>2. CASE j = Len(rows) + 1
          BY <1>7, <3>0, <3>1, <5>2
        <5> QED
          BY <3>l, <5>1, <5>2
      <4> QED
        <5>1. Len(rows') = Len(rows) + 1 /\ position' = position
          BY <1>2, <3>1
        <5> QED
          BY <4>2, <4>3, <5>1 DEF Ascending
    <3>3. EarlierKept(1)'
      <4>1. ASSUME NEW i \in 1..(Len(printed) - 1), Spared(i)'
            PROVE  \E j \in 1..Len(rows') : rows'[j] = RowAfter(printed[i], 3) /\ j < Len(rows')
        <5>1. PICK j \in 1..Len(rows) : rows[j] = RowAfter(printed[i], 3)
          BY <1>1, <1>8, <4>1 DEF EarlierKept
        <5>2. j \in 1..Len(rows') /\ j < Len(rows') /\ rows'[j] = rows[j]
          BY <3>1, <3>l
        <5> QED
          BY <5>1, <5>2
      <4> QED
        BY <1>2, <4>1 DEF EarlierKept, RowAfter
    <3>4. LastGrows(1)'
      BY <1>2, <3>1, <3>l, <3>r DEF LastGrows, RowAfter
    <3> QED
      BY <3>1, <3>2, <3>3, <3>4
  <2> QED
    BY <2>1, <2>2
<1>10. AtTask(1)'
  <2>1. 1 + 1 = 2
    OBVIOUS
  <2> QED
    BY <1>1, <1>2, <1>3, <1>9, <2>1 DEF AtTask
<1> QED
  BY <1>0, <1>2, <1>9, <1>10 DEF TableInv

\* Reading another line of the last task.
LEMMA ReadOther ==
  ASSUME TableInv, NEW n \in Nat \ {0}, AtTask(n), ReadLine
  PROVE  TableInv'
<1> DEFINE line == Head(pipe)
           last == Len(rows)
<1>0. /\ names \in [Pids -> Names] /\ rows \in Seq(TableRow) /\ printed \in Seq(Pids)
      /\ alive \subseteq Pids /\ valid \in {Reading, "rows", "none"} /\ (valid # Reading => pipe = <<>>)
  BY DEF TableInv
<1>1. /\ printed # <<>> /\ position = printed[Len(printed)] /\ position \in Pids
      /\ n \in 0..Len(Lines(position))
      /\ pipe = SubSeq(Lines(position), n + 1, Len(Lines(position)))
      /\ Ascending(n) /\ EarlierKept(n) /\ LastGrows(n)
  BY <1>0 DEF AtTask
<1>2. /\ pipe # <<>> /\ pipe' = Tail(pipe)
      /\ UNCHANGED <<alive, names, position, printed, valid>>
  BY DEF ReadLine
<1>3. /\ n + 1 \in 2..Len(Lines(position)) /\ n + 1 \in 0..Len(Lines(position))
      /\ line = Lines(position)[n + 1] /\ line \in TextLine
      /\ pipe' = SubSeq(Lines(position), n + 2, Len(Lines(position)))
      /\ Lines(position)' = Lines(position)
  <2>1. /\ n + 1 \in 1..Len(Lines(position)) /\ line = Lines(position)[n + 1] /\ line \in TextLine
        /\ Tail(pipe) = SubSeq(Lines(position), n + 2, Len(Lines(position)))
    BY <1>0, <1>1, <1>2, NextLine
  <2>2. Len(Lines(position)) \in {3, 4}
    BY <1>0, <1>1, LinesShape
  <2>3. Lines(position)' = Lines(position)
    BY <1>2 DEF Lines
  <2> QED
    BY <1>2, <2>1, <2>2, <2>3
<1>4. /\ line.pid = position /\ line.tag \in {"-", "B", "C"}
      /\ line.parsed = "not" => line.tag = "-" \/ names[position] = "letter"
      /\ names[position] = "word" =>
           /\ Len(Lines(position)) = 3 /\ line.parsed = "own"
           /\ n = 1 => line.tag = "B"
           /\ n = 2 => line.tag = "C"
           /\ n \in {1, 2}
  <2>1. line.tag \in {"A", "B", "C", "-"}
    BY <1>3 DEF TextLine
  <2>2. /\ line.pid = position /\ line.tag # "A"
        /\ line.parsed = "not" => line.tag = "-" \/ names[position] = "letter"
    BY <1>0, <1>1, <1>3, LinesShape
  <2>3. ASSUME names[position] = "word"
        PROVE  /\ Len(Lines(position)) = 3 /\ line.parsed = "own"
               /\ n = 1 => line.tag = "B"
               /\ n = 2 => line.tag = "C"
               /\ n \in {1, 2}
    <3>1. /\ Len(Lines(position)) = 3
          /\ Lines(position)[2].tag = "B" /\ Lines(position)[2].parsed = "own"
          /\ Lines(position)[3].tag = "C" /\ Lines(position)[3].parsed = "own"
      BY <1>0, <1>1, <2>3, LinesShape
    <3>2. n = 1 \/ n = 2
      BY <1>3, <3>1
    <3> QED
      BY <1>3, <3>1, <3>2
  <2> QED
    BY <2>1, <2>2, <2>3
<1>5. rows' = IF line.tag = "-" THEN rows ELSE Amended(line)
  BY <1>4 DEF ReadLine
<1> HIDE DEF line
<1>6. position \in Nat /\ last \in Nat /\ n \in Nat /\ n + 1 \in Nat /\ n + 1 # 0 /\ n # 0
  BY <1>0, <1>1, TableConstants
<1>7. \A i \in 1..(Len(printed) - 1) : Spared(i)' =>
        \E j \in 1..last : rows[j] = RowAfter(printed[i], 3) /\ j < last
  <2>1. \A i \in 1..(Len(printed) - 1) : Spared(i)' <=> Spared(i)
    BY <1>2 DEF Spared
  <2> QED
    BY <1>1, <1>6, <2>1 DEF EarlierKept
<1>8. \A i \in 1..(Len(printed) - 1) : names[position] = "letter" => ~Spared(i)'
  BY <1>0, <1>1, <1>2 DEF Spared
\* It suffices that only the last row changes, to one of the last task.
<1>9. /\ rows' \in Seq(TableRow) /\ Ascending(n + 1)' /\ EarlierKept(n + 1)' /\ LastGrows(n + 1)'
  <2>1. CASE rows' = rows /\ (names[position] = "word" => last = 0)
    <3>1. Ascending(n + 1)'
      BY <1>1, <1>2, <1>6, <2>1 DEF Ascending
    <3>2. EarlierKept(n + 1)'
      BY <1>2, <1>7, <2>1 DEF EarlierKept, RowAfter
    <3>3. names[position] # "word"
      BY <1>1, <1>6, <2>1 DEF LastGrows
    <3>4. LastGrows(n + 1)'
      BY <1>2, <3>3 DEF LastGrows
    <3> QED
      BY <1>0, <2>1, <3>1, <3>2, <3>4
  <2>2. CASE rows' = SubSeq(rows, 1, last - 1) /\ last > 0 /\ names[position] = "letter"
    <3>1. /\ Len(rows') = last - 1 /\ rows' \in Seq(TableRow)
          /\ \A j \in 1..(last - 1) : rows'[j] = rows[j]
      <4>1. 1 \in Int /\ last - 1 \in Int /\ \A j \in 1..(last - 1) : rows[j] \in TableRow
        BY <1>0, <1>6
      <4>2. /\ SubSeq(rows, 1, last - 1) \in Seq(TableRow)
            /\ Len(SubSeq(rows, 1, last - 1)) =
                 IF 1 <= last - 1 THEN (last - 1) - 1 + 1 ELSE 0
            /\ \A j \in 1..((last - 1) - 1 + 1) : SubSeq(rows, 1, last - 1)[j] = rows[1 + j - 1]
        BY <4>1, SubSeqProperties
      <4>3. \A j \in 1..(last - 1) : j \in 1..((last - 1) - 1 + 1) /\ 1 + j - 1 = j
        BY <1>6
      <4>4. (IF 1 <= last - 1 THEN (last - 1) - 1 + 1 ELSE 0) = last - 1
        <5>1. last \in Nat /\ last > 0
          BY <1>6, <2>2
        <5> HIDE DEF last
        <5> QED
          BY <5>1
      <4> QED
        BY <2>2, <4>2, <4>3, <4>4
    <3>2. Ascending(n + 1)'
      <4>1. \A j \in 1..Len(rows') : j \in 1..last /\ rows'[j] = rows[j]
        BY <1>6, <3>1
      <4> QED
        BY <1>1, <1>2, <1>6, <4>1 DEF Ascending
    <3>3. EarlierKept(n + 1)'
      BY <1>2, <1>8, <2>2 DEF EarlierKept
    <3>4. LastGrows(n + 1)'
      BY <1>2, <2>2 DEF LastGrows
    <3> QED
      BY <3>1, <3>2, <3>3, <3>4
  <2>3. CASE /\ last > 0 /\ line.tag \in {"B", "C"} /\ line.parsed # "not"
             /\ rows' = IF line.tag = "B"
                        THEN [rows EXCEPT ![last].pid = line.pid, ![last].b = line.pid]
                        ELSE [rows EXCEPT ![last].pid = line.pid, ![last].c = line.pid]
    <3> DEFINE r == IF line.tag = "B" THEN [rows[last] EXCEPT !.pid = position, !.b = position]
                    ELSE [rows[last] EXCEPT !.pid = position, !.c = position]
    <3>1. last \in 1..Len(rows) /\ rows[last] \in TableRow
      BY <1>0, <1>6, <2>3
    <3>2. r \in TableRow /\ r.pid = position
      BY <1>1, <3>1 DEF TableRow
    <3>3. rows' = [rows EXCEPT ![last] = r]
      BY <1>0, <1>4, <2>3, <3>1
    <3>4. /\ rows' \in Seq(TableRow) /\ Len(rows') = last
          /\ rows'[last] = r
          /\ \A j \in 1..last : j # last => rows'[j] = rows[j]
      <4> HIDE DEF r
      <4> QED
        BY <1>0, <3>1, <3>2, <3>3
    <3>5. ASSUME names[position] = "word"
          PROVE  r = RowAfter(position, n + 1)
      <4>1. rows[last] = RowAfter(position, n)
        BY <1>1, <1>6, <3>5 DEF LastGrows
      <4>2. \/ n = 1 /\ line.tag = "B"
            \/ n = 2 /\ line.tag = "C"
        BY <1>4, <3>5
      <4>3. CASE n = 1 /\ line.tag = "B"
        <5>1. n + 1 = 2 /\ r = [rows[last] EXCEPT !.pid = position, !.b = position]
          BY <4>3
        <5>2. rows[last] = RowAfter(position, 1)
          BY <4>1, <4>3
        <5> HIDE DEF r
        <5>3. [rows[last] EXCEPT !.pid = position, !.b = position] = RowAfter(position, 2)
          BY <1>1, <3>1, <5>2, RowCompleted
        <5> QED
          BY <5>1, <5>3, Zenon
      <4>4. CASE n = 2 /\ line.tag = "C"
        <5>1. n + 1 = 3 /\ line.tag # "B"
          BY <4>4
        <5>2. r = [rows[last] EXCEPT !.pid = position, !.c = position]
          BY <5>1
        <5>3. rows[last] = RowAfter(position, 2)
          BY <4>1, <4>4
        <5> HIDE DEF r
        <5>4. [rows[last] EXCEPT !.pid = position, !.c = position] = RowAfter(position, 3)
          BY <1>1, <3>1, <5>3, RowCompleted
        <5> QED
          BY <5>1, <5>2, <5>4, Zenon
      <4> QED
        BY <4>2, <4>3, <4>4
    <3> HIDE DEF r
    <3>6. Ascending(n + 1)'
      <4>0. \A j \in 1..last : rows[j].pid \in Nat /\ rows[j].pid <= position
        <5>1. \A j \in 1..last : rows[j] \in TableRow
          BY <1>0
        <5> QED
          BY <1>1, <5>1, TableConstants DEF TableRow, Ascending
      <4>1. ASSUME NEW j \in 1..last, NEW k \in 1..last, j < k
            PROVE  rows'[j].pid < rows'[k].pid
        <5>1. rows'[j] = rows[j] /\ rows[j].pid < rows[k].pid
          BY <1>1, <1>6, <3>4, <4>1 DEF Ascending
        <5>2. CASE k = last
          BY <1>6, <3>2, <3>4, <4>0, <5>1, <5>2
        <5>3. CASE k # last
          BY <3>4, <5>1, <5>3
        <5> QED
          BY <5>2, <5>3
      <4>2. ASSUME NEW j \in 1..last
            PROVE  rows'[j].pid <= position
        <5>1. CASE j = last
          BY <1>6, <3>2, <3>4, <5>1
        <5>2. CASE j # last
          BY <3>4, <4>0, <5>2
        <5> QED
          BY <5>1, <5>2
      <4> QED
        BY <1>2, <1>6, <3>4, <4>1, <4>2 DEF Ascending
    <3>7. EarlierKept(n + 1)'
      <4>1. ASSUME NEW i \in 1..(Len(printed) - 1), Spared(i)'
            PROVE  \E j \in 1..Len(rows') : rows'[j] = RowAfter(printed[i], 3) /\ j < Len(rows')
        <5>1. PICK j \in 1..last : rows[j] = RowAfter(printed[i], 3) /\ j < last
          BY <1>7, <4>1
        <5>2. rows'[j] = rows[j]
          BY <1>6, <3>4, <5>1
        <5> QED
          BY <3>4, <5>1, <5>2
      <4> QED
        BY <1>2, <4>1 DEF EarlierKept, RowAfter
    <3>8. LastGrows(n + 1)'
      BY <1>2, <2>3, <3>4, <3>5 DEF LastGrows, RowAfter
    <3> QED
      BY <3>4, <3>6, <3>7, <3>8
  <2>4. names[position] = "word" => last # 0
    BY <1>1, <1>6 DEF LastGrows
  <2> QED
    BY <1>4, <1>5, <1>6, <2>1, <2>2, <2>3 DEF Amended
<1>10. AtTask(n + 1)'
  <2>1. (n + 1) + 1 = n + 2
    BY <1>6
  <2> QED
    BY <1>1, <1>2, <1>3, <1>9, <2>1 DEF AtTask
<1> QED
  BY <1>0, <1>2, <1>6, <1>9, <1>10 DEF TableInv

\* The iterator comes to another task.
LEMMA NextTask ==
  ASSUME TableInv, NEW p \in Pids, TaskIter(p)
  PROVE  TableInv'
<1>0. /\ names \in [Pids -> Names] /\ rows \in Seq(TableRow) /\ printed \in Seq(Pids)
      /\ alive \subseteq Pids /\ valid \in {Reading, "rows", "none"} /\ (valid # Reading => pipe = <<>>)
  BY DEF TableInv
<1>1. /\ valid = Reading /\ pipe = <<>> /\ p > position
      /\ position' = p /\ printed' = Append(printed, p) /\ pipe' = Lines(p)
      /\ UNCHANGED <<alive, names, rows, valid>>
  BY DEF TaskIter
<1>2. /\ printed' \in Seq(Pids) /\ printed' # <<>> /\ Len(printed') = Len(printed) + 1
      /\ Len(printed) \in Nat
      /\ printed'[Len(printed')] = p
      /\ \A i \in 1..Len(printed) : printed'[i] = printed[i]
  BY <1>0, <1>1
<1>3. /\ Lines(p)' = Lines(p) /\ 0 \in 0..Len(Lines(p))
      /\ pipe' = SubSeq(Lines(p), 0 + 1, Len(Lines(p)))
  <2>1. Lines(p)' = Lines(p)
    BY <1>1 DEF Lines
  <2>2. Lines(p) \in Seq(TextLine) /\ Len(Lines(p)) \in {3, 4}
    BY <1>0, LinesShape
  <2>3. SubSeq(Lines(p), 1, Len(Lines(p))) = Lines(p)
    BY <2>2, SubSeqFull
  <2> QED
    BY <1>1, <2>1, <2>2, <2>3
<1>4. p \in Nat /\ \A j \in 1..Len(rows) : rows[j].pid \in Nat
  <2>1. \A j \in 1..Len(rows) : rows[j] \in TableRow
    BY <1>0
  <2> QED
    BY <2>1, TableConstants DEF TableRow
<1>5. ASSUME NEW i \in 1..Len(printed), Spared(i)'
      PROVE  Spared(i)
  <2>1. printed'[i] = printed[i]
    BY <1>2
  <2>2. i < Len(printed) => names[printed[i + 1]] \in {"word", "number"}
    <3>1. ASSUME i < Len(printed)
          PROVE  i < Len(printed') /\ printed'[i + 1] = printed[i + 1]
      BY <1>2, <3>1
    <3> QED
      BY <1>1, <1>5, <3>1 DEF Spared
  <2>3. \A k \in (i + 1)..Len(printed) : names[printed[k]] # "letter"
    <3>1. \A k \in (i + 1)..Len(printed) :
             k \in (i + 1)..Len(printed') /\ printed'[k] = printed[k]
      BY <1>2
    <3> QED
      BY <1>1, <1>5, <3>1 DEF Spared
  <2> QED
    BY <1>1, <1>5, <2>1, <2>2, <2>3 DEF Spared
<1>6. (position = 0 \/ position \in Pids) /\ \A j \in 1..Len(rows) : rows[j].pid <= position
  <2>1. CASE rows = <<>> /\ position = 0
    BY <2>1
  <2>2. ASSUME NEW n \in Nat, AtTask(n)
        PROVE  position \in Pids /\ \A j \in 1..Len(rows) : rows[j].pid <= position
    BY <1>0, <2>2 DEF AtTask, Ascending
  <2> QED
    BY <2>1, <2>2 DEF TableInv
<1>7. Ascending(0)'
  <2>1. \A j, k \in 1..Len(rows) : j < k => rows[j].pid < rows[k].pid
    <3>1. CASE rows = <<>>
      BY <3>1
    <3>2. ASSUME NEW n \in Nat, AtTask(n)
          PROVE  \A j, k \in 1..Len(rows) : j < k => rows[j].pid < rows[k].pid
      BY <3>2 DEF AtTask, Ascending
    <3> QED
      BY <3>1, <3>2 DEF TableInv
  <2>2. \A j \in 1..Len(rows) : rows[j].pid < p /\ rows[j].pid <= p
    <3>1. position \in Nat
      <4>1. CASE position = 0
        BY <4>1
      <4>2. CASE position \in Pids
        BY <4>2, TableConstants
      <4> QED
        BY <1>6, <4>1, <4>2
    <3> QED
      BY <1>1, <1>4, <1>6, <3>1
  <2> QED
    BY <1>1, <2>1, <2>2 DEF Ascending
<1>8. EarlierKept(0)'
  <2>1. ASSUME NEW i \in 1..Len(printed), Spared(i)
        PROVE  \E j \in 1..Len(rows) :
                 /\ rows[j] = RowAfter(printed[i], 3)
                 /\ j < Len(rows) \/ i = Len(printed)
    <3>0. PICK n \in Nat : AtTask(n)
      BY <2>1 DEF TableInv
    <3>1. /\ position = printed[Len(printed)] /\ position \in Pids
          /\ n \in 0..Len(Lines(position))
          /\ pipe = SubSeq(Lines(position), n + 1, Len(Lines(position)))
          /\ EarlierKept(n) /\ LastGrows(n)
      BY <1>0, <3>0 DEF AtTask
    <3>2. n = Len(Lines(position)) /\ n \in {3, 4}
      <4>1. pipe = <<>> <=> n = Len(Lines(position))
        BY <1>0, <3>1, NextLine
      <4>2. Len(Lines(position)) \in {3, 4}
        BY <1>0, <3>1, LinesShape
      <4> QED
        BY <1>1, <4>1, <4>2
    <3>3. CASE i = Len(printed)
      <4>1. names[position] = "word"
        BY <2>1, <3>1, <3>3 DEF Spared
      <4>2. n = 3
        BY <1>0, <3>1, <3>2, <4>1, LinesShape
      <4>3. Len(rows) > 0 /\ rows[Len(rows)] = RowAfter(position, 3)
        BY <3>1, <4>1, <4>2 DEF LastGrows
      <4> QED
        BY <1>0, <3>1, <3>3, <4>3
    <3>4. CASE i # Len(printed)
      <4>1. i \in 1..(Len(printed) - 1)
        BY <1>2, <3>4
      <4>2. n # 0
        BY <3>2
      <4> QED
        BY <2>1, <3>1, <4>1, <4>2 DEF EarlierKept
    <3> QED
      BY <3>3, <3>4
  <2>2. \A i : i \in 1..(Len(printed') - 1) <=> i \in 1..Len(printed)
    BY <1>2
  <2>3. Len(printed') - 1 = Len(printed)
    BY <1>2
  <2>4. ASSUME NEW i \in 1..(Len(printed') - 1), Spared(i)'
        PROVE  \E j \in 1..Len(rows') :
                 /\ rows'[j] = RowAfter(printed'[i], 3)
                 /\ j < Len(rows') \/ (i = Len(printed') - 1 /\ 0 = 0)
    <3>1. i \in 1..Len(printed) /\ printed'[i] = printed[i]
      BY <1>2, <2>2
    <3>2. PICK j \in 1..Len(rows) :
            /\ rows[j] = RowAfter(printed[i], 3)
            /\ j < Len(rows) \/ i = Len(printed)
      BY <1>5, <2>1, <2>4, <3>1
    <3> QED
      BY <1>1, <2>3, <3>1, <3>2
  <2> QED
    BY <2>4 DEF EarlierKept, RowAfter
<1>9. LastGrows(0)'
  BY DEF LastGrows
<1>10. AtTask(0)'
  BY <1>1, <1>2, <1>3, <1>7, <1>8, <1>9 DEF AtTask
<1> QED
  BY <1>0, <1>1, <1>2, <1>10 DEF TableInv

\* Each line read and each task that starts or exits keeps the invariant.
LEMMA TableStep == TableInv /\ [TableNext]_tableVars => TableInv'
<1> SUFFICES ASSUME TableInv, [TableNext]_tableVars PROVE TableInv'
  OBVIOUS
<1>1. ASSUME UNCHANGED <<names, position, pipe, rows, printed>>,
             alive' \subseteq Pids, valid' \in {Reading, "rows", "none"}, pipe = <<>> \/ valid' = Reading
      PROVE  TableInv'
  <2>1. Lines(position)' = Lines(position) /\ \A i : Spared(i)' <=> Spared(i)
    BY <1>1 DEF Lines, Spared
  <2>2. ASSUME NEW n \in Nat, AtTask(n)
        PROVE  AtTask(n)'
    <3>1. Ascending(n)' /\ LastGrows(n)'
      BY <1>1, <2>2 DEF AtTask, Ascending, LastGrows, RowAfter
    <3>2. EarlierKept(n)'
      BY <1>1, <2>1, <2>2 DEF AtTask, EarlierKept, RowAfter
    <3> QED
      BY <1>1, <2>1, <2>2, <3>1, <3>2 DEF AtTask
  <2> QED
    BY <1>1, <2>2 DEF TableInv
<1>2. ASSUME NEW p \in Pids, StartTask(p)
      PROVE  TableInv'
  BY <1>1, <1>2 DEF StartTask, TableInv
<1>3. ASSUME NEW p \in Pids, ExitTask(p)
      PROVE  TableInv'
  BY <1>1, <1>3 DEF ExitTask, TableInv
<1>4. ASSUME NEW p \in Pids, TaskIter(p)
      PROVE  TableInv'
  BY <1>4, NextTask
<1>5. CASE ReadLine
  <2>1. PICK n \in Nat : AtTask(n)
    BY <1>5 DEF ReadLine, TableInv
  <2>2. CASE n = 0
    BY <1>5, <2>1, <2>2, ReadFirst
  <2>3. CASE n # 0
    <3>1. n \in Nat \ {0}
      BY <2>3
    <3> QED
      BY <1>5, <2>1, <3>1, ReadOther
  <2> QED
    BY <2>2, <2>3
<1>6. CASE EndOfTable
  BY <1>1, <1>6 DEF EndOfTable, TableInv
<1>7. CASE UNCHANGED tableVars
  BY <1>1, <1>7 DEF tableVars, TableInv
<1> QED
  BY <1>2, <1>3, <1>4, <1>5, <1>6, <1>7 DEF TableNext

\* The invariant of the parser, TableInv, holds.
LEMMA TableInvariant == TableSpec => []TableInv
<1>1. TableInit => TableInv
  <2> SUFFICES ASSUME TableInit PROVE TableInv
    OBVIOUS
  <2>1. rows \in Seq(TableRow) /\ printed \in Seq(Pids)
    BY DEF TableInit
  <2> QED
    BY <2>1 DEF TableInit, TableInv
<1> QED
  BY <1>1, TableStep, PTL DEF TableSpec

\* A task whose name is one word has a row of its own with its own values, for any
\* number of tasks that start and exit while the table is read, unless a name after
\* it spoils that row; and no two rows have one pid.
THEOREM OwnRow == TableSpec => []RowsWhole
  BY TableInvariant, TableRead, PTL

---------------------------------------------------------------------------
(* The five parts together, as the run Hooks explores them. *)

\* What the parser holds keeps its shape.
LEMMA TableTyped == TableInv => TableTypeOK
<1> SUFFICES ASSUME TableInv PROVE TableTypeOK
  OBVIOUS
<1>1. \A i \in 1..Len(rows) : rows[i] \in TableRow
  BY DEF TableInv
<1>2. position \in Pids \cup {0} /\ Len(pipe) <= 4
  <2>1. CASE position = 0 /\ pipe = <<>>
    BY <2>1
  <2>2. ASSUME NEW n \in Nat, AtTask(n)
        PROVE  position \in Pids /\ Len(pipe) <= 4
    <3>1. /\ position \in Pids /\ n \in 0..Len(Lines(position))
          /\ pipe = SubSeq(Lines(position), n + 1, Len(Lines(position)))
      BY <2>2 DEF AtTask, TableInv
    <3>2. Lines(position) \in Seq(TextLine) /\ Len(Lines(position)) \in {3, 4}
      BY <3>1, LinesShape DEF TableInv
    <3>3. Len(SubSeq(Lines(position), n + 1, Len(Lines(position)))) <= Len(Lines(position))
      <4> DEFINE lines == Lines(position)
      <4>1. lines \in Seq(TextLine) /\ n + 1 \in Int /\ n + 1 >= 1 /\ Len(lines) \in Int
            /\ \A i \in (n + 1)..Len(lines) : lines[i] \in TextLine
        BY <3>1, <3>2
      <4> HIDE DEF lines
      <4>2. Len(SubSeq(lines, n + 1, Len(lines))) =
              IF n + 1 <= Len(lines) THEN Len(lines) - (n + 1) + 1 ELSE 0
        BY <4>1, SubSeqProperties
      <4>3. Len(lines) \in Nat
        BY <4>1
      <4> QED
        BY <4>1, <4>2, <4>3 DEF lines
    <3> QED
      BY <3>1, <3>2, <3>3
  <2> QED
    BY <2>1, <2>2 DEF TableInv
<1> QED
  BY <1>1, <1>2 DEF TableInv, TableTypeOK, TableRow

\* The run explores the parts by themselves: each behaviour of the whole is one of
\* every part, so that all theorems about the parts hold of what the run checks.
THEOREM PartsOfHooks == MCSpec => Spec /\ IoSpec /\ OomSpec /\ ReaderSpec /\ TableSpec
<1>1. MCInit => Init /\ IoInit /\ OomInit /\ ReaderInit /\ TableInit
  BY DEF MCInit
<1>2. [MCNext]_mcVars =>
        [Next]_vars /\ [IoNext]_ioVars /\ [OomNext]_oomVars /\ [ReaderNext]_readerVars
          /\ [TableNext]_tableVars
  BY DEF MCNext, mcVars
<1> QED
  BY <1>1, <1>2, PTL DEF MCSpec, Spec, IoSpec, OomSpec, ReaderSpec, TableSpec

\* The maps, the readers and the scheduling state keep the shape the programs rely on.
THEOREM HooksTypeCorrect == MCSpec => []MCTypeOK
<1>1. IoInv => IoTypeOK
  BY DEF IoInv
<1>2. OomInv => OomTypeOK
  BY DEF OomInv
<1>3. ReaderInv => ReaderTypeOK
  BY DEF ReaderInv
<1>4. IoSpec => []IoInv
  BY IoInitInv, IoStep, PTL DEF IoSpec
<1> QED
  BY PartsOfHooks, KernelTypeCorrect, OomInvariant, ReaderInvariant, TableInvariant, TableTyped,
     <1>1, <1>2, <1>3, <1>4, PTL DEF MCTypeOK

=============================================================================
