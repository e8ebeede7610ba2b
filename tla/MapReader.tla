----------------------------- MODULE MapReader -----------------------------
(***************************************************************************)
(* MapSlice reads and empties a kernel hash map key by key, while programs *)
(* in the kernel insert, update and delete its elements.  Of the kernel's  *)
(* side this models what bpf_map_get_next_key promises: the key after the  *)
(* given one in the order of the buckets, or the first key of the map when *)
(* the given one is not there (any more).                                  *)
(*                                                                         *)
(* A value is one number per CPU.  A number is as wide as two bytes of     *)
(* base Byte, for user space adds the CPUs' values byte by byte.           *)
(***************************************************************************)
EXTENDS Integers, FiniteSets, FiniteSetsExt

CONSTANTS
  Keys,           \* keys, numbered in the order of the buckets
  ReaderCpus,
  MaxIterations,  \* kMaxWipeIterations
  Byte,           \* 256
  MaxCount,       \* bound: what one CPU counts for one key
  MaxChanges      \* bound: changes by the kernel during one operation

ASSUME ReaderConstants ==
  /\ Keys \subseteq Nat \ {0} /\ IsFiniteSet(Keys) /\ IsFiniteSet(ReaderCpus)
  /\ MaxIterations \in Nat \ {0} /\ Byte \in Nat \ {0, 1}
  /\ MaxCount \in Nat \ {0} /\ MaxChanges \in Nat

VARIABLES
  elements,    \* the values of the map, or NoElement
  reading,     \* what user space is doing
  cursor,      \* prev, or NoKey
  current,     \* the key get_next_key has returned, or NoKey
  iterations,
  since,       \* keys that were there when it began and have not been deleted since
  visits,      \* how often it has handed each key to fn
  reported,    \* the value handed over last, and the value the map had
  changes,     \* changes by the kernel since it began
  deletions    \* deletions by the kernel among them

readerVars == <<elements, reading, cursor, current, iterations, since, visits, reported,
                changes, deletions>>

NoKey == 0
NoElement == [c \in ReaderCpus |-> -1]
Present == {k \in Keys : elements[k] # NoElement}
Nothing == [sum |-> 0, total |-> 0]

ReaderTypeOK ==
  /\ elements \in [Keys -> [ReaderCpus -> 0..MaxCount] \cup {NoElement}]
  /\ reading \in {"idle", "ForEach", "Wipe", "ended", "vanished", "capped"}
  /\ cursor \in Keys \cup {NoKey} /\ current \in Keys \cup {NoKey}
  /\ iterations \in 0..MaxIterations /\ since \subseteq Present
  /\ visits \in [Keys -> Nat] /\ changes \in 0..MaxChanges /\ deletions \in 0..changes

ReaderInit ==
  /\ elements \in [Keys -> {NoElement, [c \in ReaderCpus |-> 1]}]
  /\ reading = "idle" /\ cursor = NoKey /\ current = NoKey /\ iterations = 0 /\ since = {}
  /\ visits = [k \in Keys |-> 0] /\ reported = Nothing /\ changes = 0 /\ deletions = 0

----------------------------------------------------------------------------
\* The kernel

Change == reading # "idle" /\ changes < MaxChanges /\ changes' = changes + 1
Progress == <<reading, cursor, current, iterations, visits, reported>>

Insert(k) ==
  /\ Change /\ k \notin Present
  /\ \E c \in ReaderCpus :
       elements' = [elements EXCEPT ![k] = [d \in ReaderCpus |-> IF d = c THEN 1 ELSE 0]]
  /\ UNCHANGED <<since, deletions>> /\ UNCHANGED Progress
Count(k, c) ==
  /\ k \in Present /\ elements[k][c] < MaxCount
  /\ elements' = [elements EXCEPT ![k][c] = @ + 1]
  /\ Change /\ UNCHANGED <<since, deletions>> /\ UNCHANGED Progress
\* A program deletes an element, or a map of the LRU kind evicts it.
Delete(k) ==
  /\ Change /\ k \in Present
  /\ elements' = [elements EXCEPT ![k] = NoElement]
  /\ since' = since \ {k} /\ deletions' = deletions + 1
  /\ UNCHANGED Progress

----------------------------------------------------------------------------
\* User space

\* What a value amounts to, and what it amounts to when its bytes are added one by
\* one in 8 bits, the carry of each being dropped.
Total(e) == MapThenSumSet(LAMBDA c : e[c], ReaderCpus)
SumBytes(e) ==
  LET low == MapThenSumSet(LAMBDA c : e[c] % Byte, ReaderCpus)
      high == MapThenSumSet(LAMBDA c : e[c] \div Byte, ReaderCpus)
  IN  (low % Byte) + Byte * (high % Byte)

Begin(op) ==
  /\ reading = "idle" /\ reading' = op
  /\ cursor' = NoKey /\ current' = NoKey /\ iterations' = 0
  /\ since' = Present /\ visits' = [k \in Keys |-> 0] /\ reported' = Nothing
  /\ changes' = 0 /\ deletions' = 0 /\ UNCHANGED elements
End(how) ==
  /\ reading' = how
  /\ UNCHANGED <<elements, cursor, current, iterations, since, visits, reported, changes, deletions>>

\* Fault: the key reached is not handed back, so that each round begins at the first
\* key; a Wipe, which deletes it, would not notice.
FaultAfter(k) == Present
\* bpf_map_get_next_key returns the first of these.
After(k) == IF k \in Present THEN {n \in Present : n > k} ELSE Present

\* Fault: the number of the round is compared before it is counted.
FaultMoreRounds == iterations <= MaxIterations
\* A Wipe has rounds left.
MoreRounds == iterations < MaxIterations

GetNextKey ==
  /\ reading \in {"ForEach", "Wipe"} /\ current = NoKey
  /\ reading = "Wipe" => MoreRounds
  /\ IF After(cursor) = {} THEN End("ended")
     ELSE /\ current' = Min(After(cursor))
          /\ iterations' = IF reading = "Wipe" THEN iterations + 1 ELSE iterations
          /\ UNCHANGED <<elements, reading, cursor, since, visits, reported, changes, deletions>>
WipeCapped ==
  /\ reading = "Wipe" /\ current = NoKey /\ ~MoreRounds /\ End("capped")

\* ForEach looks the key up, ends if it has gone, and hands it to fn.
Visit ==
  /\ reading = "ForEach" /\ current # NoKey
  /\ IF current \notin Present THEN End("vanished")
     ELSE /\ visits' = [visits EXCEPT ![current] = @ + 1]
          /\ reported' = [sum |-> SumBytes(elements[current]), total |-> Total(elements[current])]
          /\ cursor' = current /\ current' = NoKey
          /\ UNCHANGED <<elements, reading, iterations, since, changes, deletions>>

\* Wipe deletes it, if it is still there.
WipeKey ==
  /\ reading = "Wipe" /\ current # NoKey
  /\ elements' = [elements EXCEPT ![current] = NoElement]
  /\ since' = since \ {current} /\ cursor' = current /\ current' = NoKey
  /\ UNCHANGED <<reading, iterations, visits, reported, changes, deletions>>

ReaderNext ==
  \/ \E k \in Keys : \/ Insert(k) \/ Delete(k)
                     \/ \E c \in ReaderCpus : Count(k, c)
  \/ Begin("ForEach") \/ Begin("Wipe")
  \/ GetNextKey \/ WipeCapped \/ Visit \/ WipeKey

ReaderSpec == ReaderInit /\ [][ReaderNext]_readerVars

----------------------------------------------------------------------------
\* Properties

\* A Wipe that ends by itself leaves nothing of what was in the map when it began,
\* whatever is inserted while it goes on, although it continues each time from a key
\* it has just deleted and which may be back.  A ForEach that no deletion disturbs
\* hands over each of the keys it began with exactly once, and no key twice.
WholeIteration ==
  /\ reading = "ended" /\ iterations > 0 => since = {}
  /\ reading = "ended" /\ iterations = 0 /\ deletions = 0 => \A k \in since : visits[k] = 1
  /\ deletions = 0 => \A k \in Keys : visits[k] <= 1

\* map_reader.h promises per-key percpu summation: what fn is given is the sum
\* over the CPUs.
SumIsTotal == reported.sum = reported.total
=============================================================================
