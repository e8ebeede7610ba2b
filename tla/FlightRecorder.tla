--------------------------- MODULE FlightRecorder ---------------------------
(***************************************************************************)
(* The flight recorder: a ring of snapshot records that the kernel writes  *)
(* at all times and the collector reads while an episode is open, with no  *)
(* lock between them.  A producer claims an index by advancing ring_head,  *)
(* and the low bits of the index choose the slot.  The slot's seq is odd   *)
(* while the record is written and twice the index once it is complete.    *)
(* The reader copies a slot twice and keeps the second copy if both show   *)
(* that seq.                                                               *)
(*                                                                         *)
(* Kernels with bpf_map_lookup_percpu_elem have one producer, the timer;   *)
(* older ones have one per CPU.  A record is written and copied word by    *)
(* word: seq, the time stamp, and one more word for the rest.              *)
(***************************************************************************)
EXTENDS Integers, FiniteSets

CONSTANTS
  Producers,  \* the contexts that write records
  Cap,        \* ETD_RING_CAP, the number of slots
  GapSlack,   \* DrainPost's margin below Cap
  Cutoffs,    \* start of the window ExtractPre keeps, as a time stamp
  MaxHead     \* bound: records written

ASSUME RecorderConstants ==
  /\ IsFiniteSet(Producers) /\ Producers # {}
  /\ Cap \in Nat \ {0} /\ GapSlack \in 0..Cap
  /\ Cutoffs \subseteq Nat \ {0}   \* the host is up longer than the window
  /\ MaxHead \in Nat

VARIABLES
  head,      \* ring_head: the next index to be claimed
  slot,      \* recorder: the words of each slot
  stage,     \* what each producer does next
  claim,     \* the index each producer holds
  job,       \* what the collector is doing
  cursor, last,  \* the index its loop is at, and the last of the loop
  word,      \* the word of the slot it copies next
  copyTs,    \* the time stamp of the second copy
  cutoff,    \* the start of the pre window
  prevHead,  \* prev_head_
  pre, post, \* the records of this episode written with phase 0 and 1
  gaps,      \* the rows of deep_gap of this episode
  entryHead, cuts  \* history: ring_head at entry, and the indices that were not
                   \* complete when a drain of this episode read ring_head

ringVars == <<head, slot, stage, claim>>
loopVars == <<cursor, last, word, copyTs>>
readVars == <<job, loopVars, cutoff, prevHead, pre, post, gaps, entryHead, cuts>>
vars == <<ringVars, readVars>>

Slots == 0..(Cap - 1)
SlotOf(i) == i % Cap
TsOf(i) == i + 1     \* records are stamped in the order of their indices
Committed(i) == 2 * i
Writing(i) == 2 * i + 1

Row(i, ts, body) == [index |-> i, ts |-> ts, body |-> body]

Jobs == {"base", "enter", "pre", "deep", "post", "final"}
Rows == [index : Nat, ts : Nat, body : Nat \cup {-1}]

TypeOK ==
  /\ head \in Nat
  /\ slot \in [Slots -> [seq : Nat, ts : Nat, body : Nat \cup {-1}]]
  /\ stage \in [Producers -> {"idle", "seq", "ts", "body", "commit"}]
  /\ claim \in [Producers -> Nat]
  /\ job \in Jobs
  /\ cursor \in Nat /\ last \in Nat \cup {-1}
  /\ word \in {"check", "seq", "ts", "body"}
  /\ copyTs \in Nat /\ cutoff \in Nat
  /\ prevHead \in Nat /\ entryHead \in Nat
  /\ pre \subseteq Rows /\ post \subseteq Rows
  /\ gaps \subseteq Nat \X Nat
  /\ cuts \subseteq Nat

\* The map starts zeroed, so slot 0 looks committed before it is written.
Init ==
  /\ head = 0
  /\ slot = [s \in Slots |-> [seq |-> 0, ts |-> 0, body |-> -1]]
  /\ stage = [p \in Producers |-> "idle"]
  /\ claim = [p \in Producers |-> 0]
  /\ job = "base"
  /\ cursor = 0 /\ last = 0 /\ word = "check" /\ copyTs = 0
  /\ cutoff = 0 /\ prevHead = 0 /\ entryHead = 0
  /\ pre = {} /\ post = {} /\ gaps = {} /\ cuts = {}

---------------------------------------------------------------------------
(* rec_commit, one memory access at a time. *)

\* Bound: nobody claims the slot of a record that is still being written.  The
\* writer does not sleep, and the others would have to fill the ring meanwhile.
SlotFree ==
  \A p \in Producers : stage[p] # "idle" => head < claim[p] + Cap

Claim(p) ==
  /\ stage[p] = "idle"
  /\ head < MaxHead
  /\ SlotFree
  /\ head' = head + 1
  /\ claim' = [claim EXCEPT ![p] = head]
  /\ stage' = [stage EXCEPT ![p] = "seq"]
  /\ UNCHANGED <<slot, readVars>>

Store(p, from, to, field, value) ==
  /\ stage[p] = from
  /\ stage' = [stage EXCEPT ![p] = to]
  /\ slot' = [slot EXCEPT ![SlotOf(claim[p])][field] = value]
  /\ UNCHANGED <<head, claim, readVars>>

\* Fault: the record is marked complete before it is (WholeUnlessLapped).
FaultStoreSeq(p) == Store(p, "seq", "ts", "seq", Committed(claim[p]))

StoreSeq(p) == Store(p, "seq", "ts", "seq", Writing(claim[p]))
StoreTs(p) == Store(p, "ts", "body", "ts", TsOf(claim[p]))
StoreBody(p) == Store(p, "body", "commit", "body", claim[p])
Commit(p) == Store(p, "commit", "idle", "seq", Committed(claim[p]))

Produce(p) ==
  Claim(p) \/ StoreSeq(p) \/ StoreTs(p) \/ StoreBody(p) \/ Commit(p)

InFlight == {claim[p] : p \in {q \in Producers : stage[q] # "idle"}}

---------------------------------------------------------------------------
(* The collector. *)

\* DeepCollector::Enter notes ring_head; ExtractPre then reads it again.
Enter ==
  /\ job = "base"
  /\ job' = "enter"
  /\ prevHead' = head
  /\ entryHead' = head
  /\ pre' = {} /\ post' = {} /\ gaps' = {}
  /\ cuts' = {head} \cup InFlight
  /\ UNCHANGED <<ringVars, loopVars, cutoff>>

StartLoop(first, final) ==
  /\ cursor' = first
  /\ last' = final
  /\ word' = "check"
  /\ UNCHANGED copyTs

\* Fault: the start of the ring is not clamped at index 0 (TypeOK).
FaultExtractPre ==
  /\ job = "enter"
  /\ job' = "pre"
  /\ cutoff' \in Cutoffs
  /\ StartLoop(head - Cap, head - 1)
  /\ UNCHANGED <<ringVars, prevHead, pre, post, gaps, entryHead, cuts>>

ExtractPre ==
  /\ job = "enter"
  /\ job' = "pre"
  /\ cutoff' \in Cutoffs
  /\ StartLoop(IF head > Cap THEN head - Cap ELSE 0, head - 1)
  /\ UNCHANGED <<ringVars, prevHead, pre, post, gaps, entryHead, cuts>>

\* Fault: the margin has the wrong sign (SlackProtects).
FaultOverrun == head - prevHead > Cap + GapSlack

Overrun == head - prevHead >= Cap - GapSlack

\* DrainPost, from Tick or, as the last one of the episode, from Finalize.  Its
\* loop starts after prev_head_ and includes the head it reads.
DrainPost ==
  /\ job = "deep"
  /\ job' \in {"post", "final"}
  /\ StartLoop(prevHead + 1, head)
  /\ gaps' = IF Overrun THEN gaps \cup {<<prevHead, head>>} ELSE gaps
  /\ cuts' = cuts \cup {head} \cup InFlight
  /\ UNCHANGED <<ringVars, cutoff, prevHead, pre, post, entryHead>>

InLoop == job \in {"pre", "post", "final"} /\ cursor <= last

Skip ==
  /\ cursor' = cursor + 1
  /\ word' = "check"
  /\ UNCHANGED <<last, copyTs>>

\* Fault: any even seq will do (WholeUnlessLapped).
FaultShows(i) == slot[SlotOf(i)].seq % 2 = 0

Shows(i) == slot[SlotOf(i)].seq = Committed(i)

\* The seq of the first copy ("check") and of the second one ("seq").
LoadSeq(now, next) ==
  /\ InLoop
  /\ word = now
  /\ IF Shows(cursor) THEN word' = next /\ UNCHANGED <<cursor, last, copyTs>>
                      ELSE Skip
  /\ UNCHANGED <<ringVars, job, cutoff, prevHead, pre, post, gaps, entryHead, cuts>>

LoadTs ==
  /\ InLoop
  /\ word = "ts"
  /\ word' = "body"
  /\ copyTs' = slot[SlotOf(cursor)].ts
  /\ UNCHANGED <<ringVars, job, cursor, last, cutoff, prevHead, pre, post, gaps,
                 entryHead, cuts>>

\* The copy is complete: the record is kept, in the pre window if it is not too
\* old.
LoadBody ==
  LET row == Row(cursor, copyTs, slot[SlotOf(cursor)].body)
  IN  /\ InLoop
      /\ word = "body"
      /\ Skip
      /\ IF job = "pre"
         THEN /\ pre' = IF copyTs >= cutoff THEN pre \cup {row} ELSE pre
              /\ UNCHANGED post
         ELSE /\ post' = post \cup {row}
              /\ UNCHANGED pre
      /\ UNCHANGED <<ringVars, job, cutoff, prevHead, gaps, entryHead, cuts>>

\* Fault: prev_head_ is read anew after the loop (NothingElseLost).
FaultLoopDone ==
  /\ job \in {"pre", "post", "final"}
  /\ cursor > last
  /\ job' = IF job = "final" THEN "base" ELSE "deep"
  /\ prevHead' = IF job = "pre" THEN prevHead ELSE head
  /\ UNCHANGED <<ringVars, loopVars, cutoff, pre, post, gaps, entryHead, cuts>>

LoopDone ==
  /\ job \in {"pre", "post", "final"}
  /\ cursor > last
  /\ job' = IF job = "final" THEN "base" ELSE "deep"
  /\ prevHead' = IF job = "pre" THEN prevHead ELSE last
  /\ UNCHANGED <<ringVars, loopVars, cutoff, pre, post, gaps, entryHead, cuts>>

Collect ==
  \/ Enter \/ ExtractPre \/ DrainPost
  \/ LoadSeq("check", "seq") \/ LoadSeq("seq", "ts") \/ LoadTs \/ LoadBody
  \/ LoopDone

Next == (\E p \in Producers : Produce(p)) \/ Collect

Spec == Init /\ [][Next]_vars

---------------------------------------------------------------------------
(* Properties. *)

Whole(row) == row.ts = TsOf(row.index) /\ row.body = row.index

Kept == {row.index : row \in pre \cup post}

\* A record of another index, a half-written one or a mix of two never passes
\* for record i, until the producers have lapped the reader and claimed the slot
\* of i again.  Record 0 is excepted: the seq of a zeroed slot is its seq.
WholeUnlessLapped ==
  \A row \in pre \cup post :
    Whole(row) \/ head > row.index + Cap \/ row.index = 0

\* After a drain every record of the episode so far is in the series, except
\* those a drain found at or beyond its end or still being written, and those
\* the producers have overwritten.
NothingElseLost ==
  job \in {"base", "deep"} =>
    \A i \in entryHead..(prevHead - 1) :
      i \in Kept \/ i \in cuts \/ head > i + Cap

\* What the margin of the overrun test is for: a drain that reports no gap and
\* during which at most GapSlack records were claimed has kept, whole, every
\* record that was complete when it began.
SlackProtects ==
  /\ job \in {"post", "final"} /\ cursor > last
  /\ <<prevHead, last>> \notin gaps
  /\ head - last <= GapSlack
  => \A i \in (prevHead + 1)..(last - 1) :
       i \in cuts \/ \E row \in post : row.index = i /\ Whole(row)

\* A drain names its records in the log as [prev_head, head): each of them that stands
\* complete in its slot when the drain ends is in the series.  False of the first:
\* it was not there yet when prev_head_ was noted, and this drain begins behind it.
IntervalDrained ==
  job \in {"post", "final"} /\ cursor > last =>
    \A i \in (prevHead..(last - 1)) \ {0} : Shows(i) => i \in Kept
=============================================================================
