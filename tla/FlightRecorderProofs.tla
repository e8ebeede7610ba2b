------------------------ MODULE FlightRecorderProofs ------------------------
(***************************************************************************)
(* What FlightRecorder promises, for any number of producers, any capacity *)
(* of the ring, any margin and any window.                                 *)
(***************************************************************************)
EXTENDS FlightRecorder, TLAPS

Busy(p) == stage[p] # "idle"

\* Index i has been claimed and nobody is writing it any more.
Complete(i) == i < head /\ \A p \in Producers : Busy(p) => claim[p] # i

SlotHolds(i) == slot[SlotOf(i)] = [seq |-> Committed(i), ts |-> TsOf(i), body |-> i]

\* Producers hold different indices among the Cap last ones.
ClaimInv ==
  /\ \A p \in Producers : Busy(p) => claim[p] < head /\ head <= claim[p] + Cap
  /\ \A p, q \in Producers : Busy(p) /\ Busy(q) /\ p # q => claim[p] # claim[q]

\* What is in the slot a producer writes, at each of its stages.
WritingInv ==
  \A p \in Producers :
    LET s == slot[SlotOf(claim[p])]
    IN  /\ stage[p] = "seq" => s.seq = 0 \/ s.seq < Committed(claim[p])
        /\ stage[p] \in {"ts", "body", "commit"} => s.seq = Writing(claim[p])
        /\ stage[p] \in {"body", "commit"} => s.ts = TsOf(claim[p])
        /\ stage[p] = "commit" => s.body = claim[p]

\* No slot shows an index that has not been claimed.
SeqInv == \A s \in Slots : slot[s].seq = 0 \/ slot[s].seq < Committed(head)

\* A complete record is in its slot until its slot is claimed again.
CompleteInv == \A i \in Nat : Complete(i) /\ head <= i + Cap => SlotHolds(i)

RingInv == TypeOK /\ ClaimInv /\ WritingInv /\ SeqInv /\ CompleteInv

---------------------------------------------------------------------------
\* Slots

LEMMA SlotTyped ==
  ASSUME NEW i \in Nat  PROVE SlotOf(i) \in Slots
BY RecorderConstants DEF SlotOf, Slots

\* Facts about the place of an index in the ring.
LEMMA Division ==
  ASSUME NEW i \in Nat
  PROVE  /\ i = Cap * (i \div Cap) + SlotOf(i)
         /\ i \div Cap \in Int /\ SlotOf(i) \in Nat
BY RecorderConstants DEF SlotOf

LEMMA Multiples ==
  ASSUME NEW q \in Int, NEW r \in Int, q < r
  PROVE  Cap * q + Cap <= Cap * r
<1>1. Cap * (r - q) >= Cap
  BY RecorderConstants
<1> QED
  BY <1>1, RecorderConstants

\* Two indices less than Cap apart have different slots.
LEMMA SlotsDiffer ==
  ASSUME NEW i \in Nat, NEW j \in Nat, i # j, i < j + Cap, j < i + Cap
  PROVE  SlotOf(i) # SlotOf(j)
<1> SUFFICES ASSUME SlotOf(i) = SlotOf(j)  PROVE FALSE
  OBVIOUS
<1> DEFINE q == i \div Cap
           r == j \div Cap
<1>1. /\ i = Cap * q + SlotOf(i) /\ j = Cap * r + SlotOf(i)
      /\ q \in Int /\ r \in Int /\ SlotOf(i) \in Nat
  BY Division
<1> HIDE DEF q, r
<1>2. CASE q < r
  BY <1>1, <1>2, Multiples, RecorderConstants
<1>3. CASE r < q
  BY <1>1, <1>3, Multiples, RecorderConstants
<1>4. CASE r = q
  BY <1>1, <1>4
<1> QED
  BY <1>1, <1>2, <1>3, <1>4

---------------------------------------------------------------------------
\* The ring

\* Claiming an index, whose slot nobody is writing.
LEMMA ClaimRing ==
  ASSUME RingInv, NEW p \in Producers, Claim(p)
  PROVE  RingInv'
<1>1. /\ head \in Nat /\ head' = head + 1 /\ slot' = slot
      /\ claim' \in [Producers -> Nat] /\ claim'[p] = head /\ stage'[p] = "seq" /\ ~Busy(p)
      /\ stage' \in [Producers -> {"idle", "seq", "ts", "body", "commit"}]
      /\ \A q \in Producers \ {p} : claim'[q] = claim[q] /\ stage'[q] = stage[q]
  BY DEF RingInv, TypeOK, Claim, Busy
<1>2. TypeOK'
  BY <1>1 DEF RingInv, TypeOK, Claim, readVars, loopVars
<1>3. \A q \in Producers : Busy(q) => head < claim[q] + Cap
  BY DEF Claim, SlotFree, Busy
<1>4. ClaimInv'
  <2>1. ASSUME NEW q \in Producers, Busy(q)'
        PROVE  claim'[q] < head' /\ head' <= claim'[q] + Cap
    <3>1. CASE q = p
      BY <1>1, <3>1, RecorderConstants
    <3>2. CASE q # p
      <4>1. Busy(q) /\ claim'[q] = claim[q] /\ claim[q] \in Nat
        BY <1>1, <2>1, <3>2 DEF Busy, RingInv, TypeOK
      <4> QED
        BY <1>1, <1>3, <4>1, RecorderConstants DEF RingInv, ClaimInv
    <3> QED
      BY <3>1, <3>2
  <2>2. ASSUME NEW q \in Producers, NEW r \in Producers, Busy(q)', Busy(r)', q # r
        PROVE  claim'[q] # claim'[r]
    BY <1>1, <2>2 DEF Busy, RingInv, TypeOK, ClaimInv
  <2> QED
    BY <2>1, <2>2 DEF ClaimInv
<1>5. WritingInv'
  <2> SUFFICES ASSUME NEW q \in Producers
               PROVE  LET s == slot'[SlotOf(claim'[q])]
                      IN  /\ stage'[q] = "seq" => s.seq = 0 \/ s.seq < Committed(claim'[q])
                          /\ stage'[q] \in {"ts", "body", "commit"} => s.seq = Writing(claim'[q])
                          /\ stage'[q] \in {"body", "commit"} => s.ts = TsOf(claim'[q])
                          /\ stage'[q] = "commit" => s.body = claim'[q]
    BY DEF WritingInv, Committed, Writing, TsOf, SlotOf
  <2>1. CASE q = p
    <3>1. SlotOf(head) \in Slots
      BY <1>1, SlotTyped
    <3> QED
      BY <1>1, <2>1, <3>1 DEF RingInv, SeqInv
  <2>2. CASE q # p
    BY <1>1, <2>2 DEF RingInv, WritingInv
  <2> QED
    BY <2>1, <2>2
<1>6. SeqInv'
  BY <1>1 DEF RingInv, TypeOK, SeqInv, Committed
<1>7. CompleteInv'
  <2> SUFFICES ASSUME NEW i \in Nat, Complete(i)', head' <= i + Cap
               PROVE  SlotHolds(i)'
    BY DEF CompleteInv
  <2>1. i # head
    BY <1>1 DEF Complete, Busy
  <2>2. Complete(i)
    BY <1>1, <2>1 DEF Complete, Busy
  <2> QED
    BY <1>1, <2>2, RecorderConstants DEF RingInv, CompleteInv, SlotHolds
<1> QED
  BY <1>2, <1>4, <1>5, <1>6, <1>7 DEF RingInv

\* What the steps of rec_commit after the claim share: only the slot of p's index
\* changes, and it is then as the stage p goes to asks for.
LEMMA WriteRing ==
  ASSUME RingInv, NEW p \in Producers, Busy(p),
         NEW to \in {"idle", "seq", "ts", "body", "commit"},
         NEW rec \in [seq : Nat, ts : Nat, body : Nat \cup {-1}],
         stage' = [stage EXCEPT ![p] = to],
         slot' = [slot EXCEPT ![SlotOf(claim[p])] = rec],
         UNCHANGED <<head, claim, readVars>>,
         rec.seq <= Writing(claim[p]),
         to # "seq",
         to \in {"ts", "body", "commit"} => rec.seq = Writing(claim[p]),
         to \in {"body", "commit"} => rec.ts = TsOf(claim[p]),
         to = "commit" => rec.body = claim[p],
         to = "idle" => rec = [seq |-> Committed(claim[p]), ts |-> TsOf(claim[p]), body |-> claim[p]]
  PROVE  RingInv'
<1> DEFINE c == claim[p]
<1>1. /\ c \in Nat /\ head \in Nat /\ c < head /\ head <= c + Cap
      /\ \A q \in Producers : claim[q] \in Nat
  BY DEF RingInv, TypeOK, ClaimInv
<1>2. /\ stage'[p] = to
      /\ \A q \in Producers \ {p} : stage'[q] = stage[q]
      /\ stage' \in [Producers -> {"idle", "seq", "ts", "body", "commit"}]
  BY DEF RingInv, TypeOK
<1>3. /\ slot'[SlotOf(c)] = rec
      /\ \A s \in Slots \ {SlotOf(c)} : slot'[s] = slot[s]
      /\ slot' \in [Slots -> [seq : Nat, ts : Nat, body : Nat \cup {-1}]]
  BY <1>1, SlotTyped DEF RingInv, TypeOK
<1>4. ASSUME NEW i \in Nat, i < head, head <= i + Cap, i # c
      PROVE  slot'[SlotOf(i)] = slot[SlotOf(i)]
  <2>1. SlotOf(i) # SlotOf(c)
    BY <1>1, <1>4, SlotsDiffer, RecorderConstants
  <2> QED
    BY <1>3, <1>4, <2>1, SlotTyped
<1>5. TypeOK'
  BY <1>2, <1>3 DEF RingInv, TypeOK, readVars, loopVars
<1>6. ClaimInv'
  BY <1>2 DEF RingInv, ClaimInv, Busy
<1>7. WritingInv'
  <2> SUFFICES ASSUME NEW q \in Producers
               PROVE  LET s == slot'[SlotOf(claim[q])]
                      IN  /\ stage'[q] = "seq" => s.seq = 0 \/ s.seq < Committed(claim[q])
                          /\ stage'[q] \in {"ts", "body", "commit"} => s.seq = Writing(claim[q])
                          /\ stage'[q] \in {"body", "commit"} => s.ts = TsOf(claim[q])
                          /\ stage'[q] = "commit" => s.body = claim[q]
    BY DEF WritingInv
  <2>1. CASE q = p
    BY <1>2, <1>3, <2>1
  <2>2. CASE q # p /\ Busy(q)
    <3>1. slot'[SlotOf(claim[q])] = slot[SlotOf(claim[q])]
      BY <1>1, <1>4, <2>2 DEF RingInv, ClaimInv
    <3> QED
      BY <1>2, <2>2, <3>1 DEF RingInv, WritingInv
  <2>3. CASE q # p /\ ~Busy(q)
    BY <1>2, <2>3 DEF Busy
  <2> QED
    BY <2>1, <2>2, <2>3
<1>8. SeqInv'
  <2> SUFFICES ASSUME NEW s \in Slots
               PROVE  slot'[s].seq = 0 \/ slot'[s].seq < Committed(head)
    BY DEF SeqInv
  <2>1. CASE s = SlotOf(c)
    BY <1>1, <1>3, <2>1 DEF Writing, Committed
  <2>2. CASE s # SlotOf(c)
    BY <1>3, <2>2 DEF RingInv, SeqInv
  <2> QED
    BY <2>1, <2>2
<1>9. CompleteInv'
  <2> SUFFICES ASSUME NEW i \in Nat, Complete(i)', head <= i + Cap
               PROVE  SlotHolds(i)'
    BY DEF CompleteInv
  <2>1. i < head
    BY DEF Complete
  <2>2. CASE i = c
    <3>1. to = "idle"
      BY <1>2, <2>2 DEF Complete, Busy
    <3> QED
      BY <1>3, <2>2, <3>1 DEF SlotHolds
  <2>3. CASE i # c
    <3>1. Complete(i)
      BY <1>2, <2>3 DEF Complete, Busy
    <3> QED
      BY <1>4, <2>1, <2>3, <3>1 DEF RingInv, CompleteInv, SlotHolds
  <2> QED
    BY <2>2, <2>3
<1> QED
  BY <1>5, <1>6, <1>7, <1>8, <1>9 DEF RingInv

\* Every step of rec_commit keeps the ring in order.
LEMMA ProduceRing ==
  ASSUME RingInv, NEW p \in Producers, Produce(p)
  PROVE  RingInv'
<1> DEFINE c == claim[p]
           old == slot[SlotOf(c)]
<1>1. /\ c \in Nat /\ old \in [seq : Nat, ts : Nat, body : Nat \cup {-1}]
      /\ slot \in [Slots -> [seq : Nat, ts : Nat, body : Nat \cup {-1}]]
  BY SlotTyped DEF RingInv, TypeOK
<1>2. /\ stage[p] \in {"ts", "body", "commit"} => old.seq = Writing(c)
      /\ stage[p] \in {"body", "commit"} => old.ts = TsOf(c)
      /\ stage[p] = "commit" => old.body = c
  BY DEF RingInv, WritingInv
<1>3. /\ Writing(c) \in Nat /\ Committed(c) \in Nat /\ TsOf(c) \in Nat
      /\ Committed(c) <= Writing(c)
  BY <1>1 DEF Writing, Committed, TsOf
<1> HIDE DEF c, old
<1>4. CASE Claim(p)
  BY <1>4, ClaimRing
<1>5. CASE StoreSeq(p)
  <2> DEFINE rec == [old EXCEPT !.seq = Writing(c)]
  <2>1. rec \in [seq : Nat, ts : Nat, body : Nat \cup {-1}] /\ rec.seq = Writing(c)
    BY <1>1, <1>3
  <2>2. slot' = [slot EXCEPT ![SlotOf(c)] = rec]
    BY <1>5 DEF StoreSeq, Store, c, old
  <2> HIDE DEF rec
  <2>3. /\ stage[p] = "seq" /\ stage' = [stage EXCEPT ![p] = "ts"]
        /\ UNCHANGED <<head, claim, readVars>>
    BY <1>5 DEF StoreSeq, Store
  <2>4. rec.seq = Writing(c) /\ rec.seq <= Writing(c)
    BY <1>3, <2>1
  <2> QED
    BY <2>1, <2>2, <2>3, <2>4, WriteRing DEF Busy, c
<1>6. CASE StoreTs(p)
  <2> DEFINE rec == [old EXCEPT !.ts = TsOf(c)]
  <2>1. /\ rec \in [seq : Nat, ts : Nat, body : Nat \cup {-1}]
        /\ rec.seq = old.seq /\ rec.ts = TsOf(c)
    BY <1>1, <1>3
  <2>2. slot' = [slot EXCEPT ![SlotOf(c)] = rec]
    BY <1>6 DEF StoreTs, Store, c, old
  <2> HIDE DEF rec
  <2>3. /\ stage[p] = "ts" /\ stage' = [stage EXCEPT ![p] = "body"]
        /\ UNCHANGED <<head, claim, readVars>>
    BY <1>6 DEF StoreTs, Store
  <2>4. rec.seq = Writing(c) /\ rec.seq <= Writing(c)
    BY <1>2, <1>3, <2>1, <2>3
  <2> QED
    BY <2>1, <2>2, <2>3, <2>4, WriteRing DEF Busy, c
<1>7. CASE StoreBody(p)
  <2> DEFINE rec == [old EXCEPT !.body = c]
  <2>1. /\ rec \in [seq : Nat, ts : Nat, body : Nat \cup {-1}]
        /\ rec.seq = old.seq /\ rec.ts = old.ts /\ rec.body = c
    BY <1>1, <1>3
  <2>2. slot' = [slot EXCEPT ![SlotOf(c)] = rec]
    BY <1>7 DEF StoreBody, Store, c, old
  <2> HIDE DEF rec
  <2>3. /\ stage[p] = "body" /\ stage' = [stage EXCEPT ![p] = "commit"]
        /\ UNCHANGED <<head, claim, readVars>>
    BY <1>7 DEF StoreBody, Store
  <2>4. rec.seq = Writing(c) /\ rec.seq <= Writing(c) /\ rec.ts = TsOf(c)
    BY <1>2, <1>3, <2>1, <2>3
  <2> QED
    BY <2>1, <2>2, <2>3, <2>4, WriteRing DEF Busy, c
<1>8. CASE Commit(p)
  <2> DEFINE rec == [old EXCEPT !.seq = Committed(c)]
  <2>1. stage[p] = "commit"
    BY <1>8 DEF Commit, Store
  <2>2. /\ rec \in [seq : Nat, ts : Nat, body : Nat \cup {-1}]
        /\ rec = [seq |-> Committed(c), ts |-> TsOf(c), body |-> c]
        /\ rec.seq = Committed(c)
    BY <1>1, <1>2, <1>3, <2>1
  <2>3. slot' = [slot EXCEPT ![SlotOf(c)] = rec]
    BY <1>8 DEF Commit, Store, c, old
  <2> HIDE DEF rec
  <2> QED
    BY <1>3, <1>8, <2>1, <2>2, <2>3, WriteRing DEF Commit, Store, Busy, c
<1> QED
  BY <1>4, <1>5, <1>6, <1>7, <1>8 DEF Produce

---------------------------------------------------------------------------
\* The reader

\* Record i is safe to copy, or lapped: what the reader relies on once both copies
\* have shown its seq.
Fresh(i) == i = 0 \/ head > i + Cap \/ Complete(i)

CopyInv ==
  /\ word \in {"ts", "body"} => Fresh(cursor)
  /\ word = "body" => cursor = 0 \/ head > cursor + Cap \/ copyTs = TsOf(cursor)

Accounted(i) == i \in Kept \/ i \in cuts \/ head > i + Cap

\* What the drains of this episode have left behind them.
EpisodeInv ==
  /\ prevHead <= head
  /\ job # "base" => prevHead \in cuts
  /\ job \in {"enter", "pre"} => entryHead = prevHead
  /\ \A i \in entryHead..(prevHead - 1) : Accounted(i)

\* A drain in progress, up to its cursor.
DrainInv ==
  job \in {"post", "final"} =>
    /\ last \in cuts /\ prevHead <= last /\ last <= head
    /\ \A i \in (prevHead + 1)..(last - 1) : i \in cuts \/ Complete(i)
    /\ \A i \in (prevHead + 1)..(cursor - 1) :
         i < last => i \in cuts \/ head > i + Cap \/ \E row \in post : row.index = i
    /\ <<prevHead, last>> \notin gaps => last - prevHead < Cap - GapSlack

IInv == RingInv /\ CopyInv /\ WholeUnlessLapped /\ EpisodeInv /\ DrainInv

LEMMA InitInv == Init => IInv
<1> SUFFICES ASSUME Init  PROVE IInv
  OBVIOUS
<1>1. TypeOK
  BY DEF Init, TypeOK, Jobs, Rows
<1>2. ClaimInv /\ WritingInv
  BY DEF Init, ClaimInv, WritingInv, Busy
<1>3. SeqInv /\ CompleteInv
  BY DEF Init, SeqInv, CompleteInv, Complete
<1>4. CopyInv /\ WholeUnlessLapped /\ EpisodeInv /\ DrainInv
  BY DEF Init, CopyInv, WholeUnlessLapped, EpisodeInv, DrainInv
<1> QED
  BY <1>1, <1>2, <1>3, <1>4 DEF IInv, RingInv

\* A record whose seq the reader sees is complete, or lapped, or record 0.
LEMMA ShownIsFresh ==
  ASSUME RingInv, NEW i \in Nat, Shows(i)
  PROVE  Fresh(i)
<1> SUFFICES ASSUME i # 0, head <= i + Cap  PROVE Complete(i)
  BY RecorderConstants DEF Fresh, RingInv, TypeOK
<1>1. head \in Nat /\ slot[SlotOf(i)].seq = Committed(i) /\ Committed(i) # 0
  BY DEF RingInv, TypeOK, Shows, Committed
<1>2. i < head
  BY <1>1, SlotTyped DEF RingInv, SeqInv, Committed
<1>3. ASSUME NEW p \in Producers, Busy(p), claim[p] = i
      PROVE  FALSE
  <2>1. stage[p] = "seq" \/ stage[p] \in {"ts", "body", "commit"}
    BY <1>3 DEF RingInv, TypeOK, Busy
  <2>2. CASE stage[p] = "seq"
    BY <1>1, <1>3, <2>2 DEF RingInv, WritingInv, Committed
  <2>3. CASE stage[p] \in {"ts", "body", "commit"}
    BY <1>1, <1>3, <2>3 DEF RingInv, WritingInv, Committed, Writing
  <2> QED
    BY <2>1, <2>2, <2>3
<1> QED
  BY <1>2, <1>3 DEF Complete

\* A copy whose two seqs are the same complete one is the record of that index.
LEMMA FreshHolds ==
  ASSUME RingInv, NEW i \in Nat, Fresh(i), i # 0, ~(head > i + Cap)
  PROVE  SlotHolds(i)
BY RecorderConstants DEF RingInv, TypeOK, CompleteInv, Fresh

\* Records stay complete, and the ring does not go back.
LEMMA ProduceMonotonic ==
  ASSUME RingInv, NEW p \in Producers, Produce(p)
  PROVE  /\ head \in Nat /\ head' \in Nat /\ head <= head'
         /\ UNCHANGED readVars
         /\ \A i \in Nat : Complete(i) => Complete(i)'
<1>1. CASE Claim(p)
  <2>1. /\ head \in Nat /\ head' = head + 1 /\ claim'[p] = head /\ ~Busy(p)
        /\ \A q \in Producers \ {p} : claim'[q] = claim[q] /\ stage'[q] = stage[q]
    BY <1>1 DEF RingInv, TypeOK, Claim, Busy
  <2> QED
    BY <1>1, <2>1 DEF Claim, Complete, Busy
<1>2. CASE StoreSeq(p) \/ StoreTs(p) \/ StoreBody(p) \/ Commit(p)
  <2>1. UNCHANGED <<head, claim, readVars>> /\ Busy(p)
    BY <1>2 DEF StoreSeq, StoreTs, StoreBody, Commit, Store, Busy
  <2>2. \A q \in Producers \ {p} : stage'[q] = stage[q]
    BY <1>2 DEF StoreSeq, StoreTs, StoreBody, Commit, Store, RingInv, TypeOK
  <2> QED
    BY <2>1, <2>2 DEF Complete, Busy, RingInv, TypeOK
<1> QED
  BY <1>1, <1>2 DEF Produce

\* The producers keep the invariant of the reader as well.
LEMMA ProduceInv ==
  ASSUME IInv, NEW p \in Producers, Produce(p)
  PROVE  IInv'
<1>1. RingInv'
  BY ProduceRing DEF IInv
<1>2. /\ head \in Nat /\ head' \in Nat /\ head <= head'
      /\ UNCHANGED readVars
      /\ \A i \in Nat : Complete(i) => Complete(i)'
  BY ProduceMonotonic DEF IInv
<1>3. \A i \in Nat : /\ head > i + Cap => head' > i + Cap
                     /\ Fresh(i) => Fresh(i)'
  BY <1>2, RecorderConstants DEF Fresh
<1>4. /\ cursor \in Nat /\ prevHead \in Nat /\ entryHead \in Nat /\ last \in Nat \cup {-1}
      /\ pre \subseteq Rows /\ post \subseteq Rows
  BY DEF IInv, RingInv, TypeOK
<1>5. CopyInv'
  BY <1>2, <1>3, <1>4 DEF IInv, CopyInv, readVars, loopVars
<1>6. WholeUnlessLapped'
  BY <1>2, <1>3, <1>4 DEF IInv, WholeUnlessLapped, Whole, TsOf, Rows, readVars
<1>7. EpisodeInv'
  <2>1. \A i \in entryHead..(prevHead - 1) : Accounted(i)'
    BY <1>2, <1>3, <1>4 DEF IInv, EpisodeInv, Accounted, Kept, readVars
  <2> QED
    BY <1>2, <1>4, <2>1 DEF IInv, EpisodeInv, readVars
<1>8. DrainInv'
  BY <1>2, <1>3, <1>4, RecorderConstants DEF IInv, DrainInv, readVars, loopVars
<1> QED
  BY <1>1, <1>5, <1>6, <1>7, <1>8 DEF IInv

---------------------------------------------------------------------------
\* The steps of the collector

LEMMA CollectRing ==
  ASSUME RingInv, UNCHANGED ringVars, TypeOK'
  PROVE  /\ RingInv'
         /\ \A i : (Complete(i)' <=> Complete(i)) /\ (Fresh(i)' <=> Fresh(i))
BY DEF RingInv, ClaimInv, WritingInv, SeqInv, CompleteInv, Complete, Fresh, Busy, SlotHolds,
       ringVars

LEMMA EnterInv == ASSUME IInv, Enter  PROVE IInv'
<1>1. TypeOK'
  BY DEF IInv, RingInv, TypeOK, Enter, InFlight, ringVars, loopVars, Jobs
<1>2. RingInv' /\ (Fresh(cursor)' <=> Fresh(cursor))
  BY <1>1, CollectRing DEF IInv, Enter, loopVars
<1>3. CopyInv' /\ WholeUnlessLapped' /\ DrainInv'
  BY <1>2 DEF IInv, CopyInv, WholeUnlessLapped, DrainInv, Enter, ringVars, loopVars
<1>4. EpisodeInv'
  BY DEF IInv, RingInv, TypeOK, EpisodeInv, Enter, ringVars
<1> QED
  BY <1>2, <1>3, <1>4 DEF IInv

LEMMA ExtractPreInv == ASSUME IInv, ExtractPre  PROVE IInv'
<1>1. TypeOK'
  BY RecorderConstants DEF IInv, RingInv, TypeOK, ExtractPre, StartLoop, ringVars, Jobs
<1>2. RingInv'
  BY <1>1, CollectRing DEF IInv, ExtractPre
<1>3. CopyInv' /\ WholeUnlessLapped' /\ DrainInv'
  BY DEF IInv, CopyInv, WholeUnlessLapped, DrainInv, ExtractPre, StartLoop, ringVars, Whole
<1>4. EpisodeInv'
  BY DEF IInv, EpisodeInv, Accounted, Kept, ExtractPre, ringVars
<1> QED
  BY <1>2, <1>3, <1>4 DEF IInv

\* DrainPost begins where the last drain ended.
LEMMA DrainPostInv == ASSUME IInv, DrainPost  PROVE IInv'
<1>1. /\ head \in Nat /\ prevHead \in Nat /\ entryHead \in Nat
      /\ prevHead <= head /\ prevHead \in cuts
  BY DEF IInv, RingInv, TypeOK, EpisodeInv, DrainPost
<1>2. TypeOK'
  <2>1. InFlight \subseteq Nat
    BY DEF IInv, RingInv, TypeOK, InFlight
  <2>2. gaps' \subseteq Nat \X Nat /\ cuts' \subseteq Nat
    BY <1>1, <2>1 DEF IInv, RingInv, TypeOK, DrainPost
  <2>3. cursor' \in Nat /\ last' \in Nat /\ word' = "check" /\ job' \in Jobs
    BY <1>1 DEF DrainPost, StartLoop, Jobs
  <2> QED
    BY <2>2, <2>3 DEF IInv, RingInv, TypeOK, DrainPost, StartLoop, ringVars
<1>3. RingInv' /\ \A i : Complete(i)' <=> Complete(i)
  BY <1>2, CollectRing DEF IInv, DrainPost
<1>4. CopyInv' /\ WholeUnlessLapped'
  BY DEF IInv, CopyInv, WholeUnlessLapped, DrainPost, StartLoop, ringVars, Whole
<1>5. EpisodeInv'
  BY <1>1 DEF IInv, EpisodeInv, Accounted, Kept, DrainPost, ringVars
<1>6. \A i \in (prevHead + 1)..(head - 1) : i \in cuts' \/ Complete(i)
  BY <1>1 DEF DrainPost, Complete, InFlight, Busy
<1>7. /\ head \in cuts' /\ last' = head /\ cursor' = prevHead + 1
      /\ UNCHANGED <<head, prevHead>>
      /\ <<prevHead, head>> \notin gaps' => ~Overrun
  BY DEF DrainPost, StartLoop, ringVars
<1>8. DrainInv'
  <2>1. last' \in cuts' /\ prevHead' <= last' /\ last' <= head'
    BY <1>1, <1>7
  <2>2. \A i \in (prevHead' + 1)..(last' - 1) : i \in cuts' \/ Complete(i)'
    BY <1>3, <1>6, <1>7
  <2>3. (prevHead' + 1)..(cursor' - 1) = {}
    BY <1>1, <1>7
  <2>4. <<prevHead', last'>> \notin gaps' => last' - prevHead' < Cap - GapSlack
    BY <1>1, <1>7, RecorderConstants DEF Overrun
  <2> QED
    BY <2>1, <2>2, <2>3, <2>4 DEF DrainInv
<1> QED
  BY <1>3, <1>4, <1>5, <1>8 DEF IInv

\* A step of the loop at cursor that keeps at most the record of cursor, and goes on
\* to the next one only when that record needs no keeping or is kept.
LEMMA LoopStep ==
  ASSUME IInv, InLoop, RingInv', UNCHANGED ringVars,
         UNCHANGED <<job, last, cutoff, prevHead, gaps, entryHead, cuts>>,
         cursor' \in {cursor, cursor + 1},
         pre \subseteq pre', post \subseteq post',
         \/ cursor' = cursor
         \/ ~Shows(cursor)
         \/ job # "pre" /\ \E row \in post' : row.index = cursor
         \/ job = "pre"
  PROVE  EpisodeInv' /\ DrainInv'
<1>1. /\ cursor \in Nat /\ prevHead \in Nat /\ entryHead \in Nat /\ head \in Nat
      /\ last \in Nat \cup {-1} /\ job \in {"pre", "post", "final"} /\ cursor <= last
  BY DEF IInv, RingInv, TypeOK, InLoop
<1>2. Kept \subseteq Kept'
  BY DEF Kept
<1>3. EpisodeInv'
  BY <1>1, <1>2 DEF IInv, EpisodeInv, Accounted, ringVars
<1>4. ASSUME job \in {"post", "final"}
      PROVE  DrainInv'
  <2>1. /\ last \in cuts /\ prevHead <= last /\ last <= head
        /\ \A i \in (prevHead + 1)..(last - 1) : i \in cuts \/ Complete(i)
        /\ \A i \in (prevHead + 1)..(cursor - 1) :
             i < last => i \in cuts \/ head > i + Cap \/ \E row \in post : row.index = i
        /\ <<prevHead, last>> \notin gaps => last - prevHead < Cap - GapSlack
    BY <1>4 DEF IInv, DrainInv
  <2>2. \A i \in Nat : Complete(i)' <=> Complete(i)
    BY DEF Complete, Busy, ringVars
  <2>3. ASSUME NEW i \in (prevHead + 1)..(cursor' - 1), i < last
        PROVE  i \in cuts \/ head > i + Cap \/ \E row \in post' : row.index = i
    <3>1. CASE i \in (prevHead + 1)..(cursor - 1)
      BY <2>1, <2>3, <3>1
    <3>2. CASE i = cursor /\ cursor' # cursor
      <4>1. CASE ~Shows(cursor) /\ ~(head > cursor + Cap) /\ cursor \notin cuts
        <5>1. Complete(cursor)
          BY <1>1, <2>1, <2>3, <3>2, <4>1
        <5>2. SlotHolds(cursor)
          BY <1>1, <4>1, <5>1, RecorderConstants DEF IInv, RingInv, CompleteInv
        <5> QED
          BY <4>1, <5>2 DEF SlotHolds, Shows
      <4>2. CASE \E row \in post' : row.index = cursor
        BY <3>2, <4>2
      <4>3. CASE head > cursor + Cap \/ cursor \in cuts
        BY <3>2, <4>3
      <4> QED
        BY <1>4, <3>2, <4>1, <4>2, <4>3
    <3>3. i \in (prevHead + 1)..(cursor - 1) \/ (i = cursor /\ cursor' # cursor)
      <4>1. CASE cursor' = cursor
        BY <2>3, <4>1
      <4>2. CASE cursor' = cursor + 1
        <5>1. i \in (prevHead + 1)..cursor
          BY <1>1, <2>3, <4>2
        <5> QED
          BY <1>1, <4>2, <5>1
      <4> QED
        BY <4>1, <4>2
    <3> QED
      BY <3>1, <3>2, <3>3
  <2> QED
    <3>1. /\ prevHead' = prevHead /\ last' = last /\ cuts' = cuts /\ gaps' = gaps /\ head' = head
      BY DEF ringVars
    <3>2. \A i \in (prevHead + 1)..(last - 1) : i \in cuts \/ Complete(i)'
      BY <1>1, <2>1, <2>2
    <3> QED
      BY <2>1, <2>3, <3>1, <3>2 DEF DrainInv
<1> QED
  BY <1>3, <1>4 DEF DrainInv

\* Both reads of seq, the only ones that decide anything.
LEMMA LoadSeqInv ==
  ASSUME IInv, NEW from \in {"check", "seq"}, NEW to \in {"seq", "ts"}, LoadSeq(from, to)
  PROVE  IInv'
<1>1. TypeOK'
  BY DEF IInv, RingInv, TypeOK, LoadSeq, Skip, ringVars, InLoop
<1>2. RingInv' /\ \A i : Fresh(i)' <=> Fresh(i)
  BY <1>1, CollectRing DEF IInv, LoadSeq
<1>3. CopyInv'
  <2>1. CASE Shows(cursor)
    <3>1. Fresh(cursor)
      BY <2>1, ShownIsFresh DEF IInv, RingInv, TypeOK
    <3> QED
      BY <1>2, <2>1, <3>1 DEF CopyInv, LoadSeq
  <2>2. CASE ~Shows(cursor)
    BY <2>2 DEF CopyInv, LoadSeq, Skip
  <2> QED
    BY <2>1, <2>2
<1>4. WholeUnlessLapped'
  BY DEF IInv, WholeUnlessLapped, Whole, LoadSeq, ringVars
<1>5. EpisodeInv' /\ DrainInv'
  BY <1>2, LoopStep DEF LoadSeq, Skip
<1> QED
  BY <1>2, <1>3, <1>4, <1>5 DEF IInv

LEMMA LoadTsInv == ASSUME IInv, LoadTs  PROVE IInv'
<1>1. SlotOf(cursor) \in Slots
  BY SlotTyped DEF IInv, RingInv, TypeOK
<1>2. TypeOK'
  BY <1>1 DEF IInv, RingInv, TypeOK, LoadTs, ringVars
<1>3. RingInv' /\ \A i : Fresh(i)' <=> Fresh(i)
  BY <1>2, CollectRing DEF IInv, LoadTs
<1>4. CopyInv'
  <2>1. Fresh(cursor)
    BY DEF IInv, CopyInv, LoadTs
  <2>2. cursor = 0 \/ head > cursor + Cap \/ slot[SlotOf(cursor)].ts = TsOf(cursor)
    <3>1. RingInv /\ cursor \in Nat
      BY DEF IInv, RingInv, TypeOK
    <3>2. cursor = 0 \/ head > cursor + Cap \/ SlotHolds(cursor)
      BY <2>1, <3>1, FreshHolds
    <3> QED
      BY <3>2 DEF SlotHolds
  <2> QED
    BY <1>3, <2>1, <2>2 DEF CopyInv, LoadTs, ringVars
<1>5. WholeUnlessLapped'
  BY DEF IInv, WholeUnlessLapped, Whole, LoadTs, ringVars
<1>6. EpisodeInv' /\ DrainInv'
  BY <1>3, LoopStep DEF LoadTs
<1> QED
  BY <1>3, <1>4, <1>5, <1>6 DEF IInv

LEMMA LoadBodyInv == ASSUME IInv, LoadBody  PROVE IInv'
<1> DEFINE row == Row(cursor, copyTs, slot[SlotOf(cursor)].body)
<1>1. row \in Rows
  BY SlotTyped DEF IInv, RingInv, TypeOK, Row, Rows
<1>2. /\ pre \subseteq pre' /\ post \subseteq post'
      /\ pre' \cup post' \subseteq pre \cup post \cup {row}
      /\ job # "pre" => row \in post'
      /\ UNCHANGED <<ringVars, job, last, cutoff, prevHead, gaps, entryHead, cuts>>
      /\ InLoop /\ word = "body" /\ cursor' = cursor + 1 /\ word' = "check" /\ copyTs' = copyTs
  BY DEF LoadBody, Skip
<1>3. row.index = cursor /\ row.ts = copyTs /\ row.body = slot[SlotOf(cursor)].body
  BY DEF Row
<1> HIDE DEF row
<1>4. TypeOK'
  BY <1>1, <1>2 DEF IInv, RingInv, TypeOK, ringVars
<1>5. RingInv'
  BY <1>2, <1>4, CollectRing DEF IInv
<1>6. CopyInv'
  BY <1>2 DEF CopyInv
<1>7. WholeUnlessLapped'
  <2>1. Fresh(cursor) /\ (cursor = 0 \/ head > cursor + Cap \/ copyTs = TsOf(cursor))
    BY <1>2 DEF IInv, CopyInv
  <2>2. cursor = 0 \/ head > cursor + Cap \/ slot[SlotOf(cursor)].body = cursor
    <3>1. RingInv /\ cursor \in Nat
      BY DEF IInv, RingInv, TypeOK
    <3>2. cursor = 0 \/ head > cursor + Cap \/ SlotHolds(cursor)
      BY <2>1, <3>1, FreshHolds
    <3> QED
      BY <3>2 DEF SlotHolds
  <2>3. Whole(row) \/ head > row.index + Cap \/ row.index = 0
    BY <1>3, <2>1, <2>2 DEF Whole
  <2> QED
    BY <1>2, <2>3 DEF IInv, WholeUnlessLapped, Whole, ringVars
<1>8. EpisodeInv' /\ DrainInv'
  BY <1>2, <1>3, <1>5, LoopStep
<1> QED
  BY <1>5, <1>6, <1>7, <1>8 DEF IInv

\* The end of a loop, where the position of the next drain is kept.
LEMMA LoopDoneInv == ASSUME IInv, LoopDone  PROVE IInv'
<1>1. /\ cursor \in Nat /\ prevHead \in Nat /\ entryHead \in Nat /\ head \in Nat
      /\ last \in Nat \cup {-1} /\ job \in {"pre", "post", "final"} /\ cursor > last
      /\ job # "pre" => last \in Nat
  BY DEF IInv, RingInv, TypeOK, LoopDone, DrainInv
<1>2. TypeOK'
  BY <1>1 DEF IInv, RingInv, TypeOK, LoopDone, ringVars, loopVars, Jobs
<1>3. RingInv' /\ \A i : Fresh(i)' <=> Fresh(i)
  BY <1>2, CollectRing DEF IInv, LoopDone
<1>4. CopyInv' /\ WholeUnlessLapped' /\ DrainInv'
  BY <1>3 DEF IInv, CopyInv, WholeUnlessLapped, Whole, DrainInv, LoopDone, ringVars, loopVars
<1>5. CASE job = "pre"
  BY <1>3, <1>4, <1>5 DEF IInv, EpisodeInv, Accounted, Kept, LoopDone, ringVars
<1>6. CASE job \in {"post", "final"}
  <2>1. /\ prevHead' = last /\ job' \notin {"enter", "pre"}
        /\ UNCHANGED <<head, cuts, pre, post, entryHead>>
    BY <1>6 DEF LoopDone, ringVars
  <2>2. last \in cuts /\ prevHead <= last /\ last <= head /\ prevHead \in cuts
    BY <1>6 DEF IInv, DrainInv, EpisodeInv
  <2>3. ASSUME NEW i \in entryHead..(last - 1)
        PROVE  i \in Kept \/ i \in cuts \/ head > i + Cap
    <3>1. CASE i < prevHead
      BY <1>1, <2>3, <3>1 DEF IInv, EpisodeInv, Accounted
    <3>2. CASE i = prevHead
      BY <2>2, <3>2
    <3>3. CASE i > prevHead
      <4>1. i \in (prevHead + 1)..(cursor - 1) /\ i < last
        BY <1>1, <2>3, <3>3
      <4> QED
        BY <1>6, <4>1 DEF IInv, DrainInv, Kept
    <3> QED
      BY <1>1, <2>3, <3>1, <3>2, <3>3
  <2>4. EpisodeInv'
    BY <2>1, <2>2, <2>3 DEF EpisodeInv, Accounted, Kept
  <2> QED
    BY <1>3, <1>4, <2>4 DEF IInv
<1> QED
  BY <1>1, <1>5, <1>6

LEMMA StepInv == IInv /\ [Next]_vars => IInv'
<1> SUFFICES ASSUME IInv, [Next]_vars  PROVE IInv'
  OBVIOUS
<1>1. CASE \E p \in Producers : Produce(p)
  BY <1>1, ProduceInv
<1>2. CASE Collect
  BY <1>2, EnterInv, ExtractPreInv, DrainPostInv, LoadSeqInv, LoadTsInv, LoadBodyInv, LoopDoneInv
     DEF Collect
<1>3. CASE UNCHANGED vars
  <2>1. RingInv'
    BY <1>3 DEF IInv, RingInv, TypeOK, ClaimInv, WritingInv, SeqInv, CompleteInv, Complete,
                Busy, SlotHolds, vars, ringVars, readVars, loopVars
  <2>2. CopyInv' /\ WholeUnlessLapped'
    BY <1>3 DEF IInv, CopyInv, WholeUnlessLapped, Whole, Fresh, Complete, Busy,
                vars, ringVars, readVars, loopVars
  <2>3. EpisodeInv' /\ DrainInv'
    BY <1>3 DEF IInv, EpisodeInv, DrainInv, Accounted, Kept, Complete, Busy,
                vars, ringVars, readVars, loopVars
  <2> QED
    BY <2>1, <2>2, <2>3 DEF IInv
<1> QED
  BY <1>1, <1>2, <1>3 DEF Next

---------------------------------------------------------------------------
\* The theorems

\* The strengthening is inductive: it holds at first, and every memory access of a
\* producer or of the reader keeps it.
THEOREM InvariantHolds == Spec => []IInv
<1> QED
  BY InitInv, StepInv, PTL DEF Spec

\* Type correctness of the ring, its producers and the reader.
THEOREM RecorderTypeCorrect == Spec => []TypeOK
<1>1. IInv => TypeOK
  BY DEF IInv, RingInv
<1> QED
  BY <1>1, InvariantHolds, PTL

\* The protocol of rec_commit and ExtractPre: a copy that shows the same complete seq
\* twice is the record of that index, unless the producers have lapped the reader.
THEOREM SeqlockSound == Spec => []WholeUnlessLapped
<1>1. IInv => WholeUnlessLapped
  BY DEF IInv
<1> QED
  BY <1>1, InvariantHolds, PTL

\* Consecutive drains leave out no record but those a drain met unfinished or at its
\* end and those overwritten.
THEOREM DrainsComplete == Spec => []NothingElseLost
<1>1. IInv => NothingElseLost
  BY DEF IInv, EpisodeInv, NothingElseLost, Accounted
<1> QED
  BY <1>1, InvariantHolds, PTL

\* A drain without a gap row has kept every complete record whole, if at most GapSlack
\* records were claimed during it.
THEOREM MarginSuffices == Spec => []SlackProtects
<1>1. IInv => SlackProtects
  <2> SUFFICES ASSUME IInv, job \in {"post", "final"}, cursor > last,
                      <<prevHead, last>> \notin gaps, head - last <= GapSlack,
                      NEW i \in (prevHead + 1)..(last - 1), i \notin cuts
               PROVE  \E row \in post : row.index = i /\ Whole(row)
    BY DEF SlackProtects
  <2>1. /\ head \in Nat /\ prevHead \in Nat /\ last \in Nat /\ cursor \in Nat
        /\ last - prevHead < Cap - GapSlack
    BY DEF IInv, RingInv, TypeOK, DrainInv
  <2>2. i \in (prevHead + 1)..(cursor - 1) /\ i < last /\ i # 0 /\ ~(head > i + Cap)
    BY <2>1, RecorderConstants
  <2>3. PICK row \in post : row.index = i
    BY <2>2 DEF IInv, DrainInv
  <2> QED
    BY <2>2, <2>3 DEF IInv, WholeUnlessLapped
<1> QED
  BY <1>1, InvariantHolds, PTL

=============================================================================
