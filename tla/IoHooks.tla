------------------------------ MODULE IoHooks ------------------------------
(***************************************************************************)
(* The always-on programs that time block requests and lock contention.    *)
(* Both pair a start with an end through an entry of a map: blk_req, under *)
(* the address of the request, and lock_wait, under the thread id.  The    *)
(* block layer uses a request structure again and again, and need not fire *)
(* every event for every use; contention on one lock is interrupted by     *)
(* contention on another, in an interrupt that runs on the same thread.    *)
(*                                                                         *)
(* As in KernelHooks a time is abstracted to what took it: the use of the  *)
(* request, or the wait for a lock, at whose start it was read.            *)
(***************************************************************************)
EXTENDS Integers, Sequences

CONSTANTS
  Requests,   \* addresses of request structures
  Locks,
  MaxUses,    \* bound: uses of one request structure
  MaxNesting  \* bound: contentions of one thread inside one another

ASSUME IoConstants == MaxUses \in Nat \ {0} /\ MaxNesting \in Nat \ {0}

VARIABLES
  ioState,    \* what the block layer is doing with each request
  ioUse,      \* which use of the structure this is
  blkReq,     \* the entry of blk_req of each request
  ioCharged,  \* what the last completion added to block_io and dev_io
  waiting,    \* the locks the thread contends for, the innermost last
  lockWait,   \* its entry of lock_wait
  lockCharged \* what the last end of a contention added to lock_st and lock_hot

ioVars == <<ioState, ioUse, blkReq, ioCharged, waiting, lockWait, lockCharged>>

Unset == 0        \* issue_ts of an entry that was not issued: zero or what the stack held
NoRequest == [use |-> 0, issue |-> Unset]
NoLock == "none"

\* struct blk_req_t, with the use that stored pid and dev, and that of issue_ts; and
\* the lock_addr of struct lock_wait_t.
IoTypeOK ==
  /\ ioState \in [Requests -> {"free", "queued", "issued"}]
  /\ ioUse \in [Requests -> 0..MaxUses]
  /\ blkReq \in [Requests -> [use : 0..MaxUses, issue : 0..MaxUses]]
  /\ waiting \in UNION {[1..n -> Locks] : n \in 0..MaxNesting}
  /\ lockWait \in Locks \cup {NoLock}

IoInit ==
  /\ ioState = [r \in Requests |-> "free"] /\ ioUse = [r \in Requests |-> 0]
  /\ blkReq = [r \in Requests |-> NoRequest] /\ ioCharged = {}
  /\ waiting = <<>> /\ lockWait = NoLock /\ lockCharged = {}

----------------------------------------------------------------------------
\* The events of the block layer that are traced.

\* on_rq_insert overwrites an entry, and leaves issue_ts as the stack had it.
OnRqInsert(r, use) == [blkReq EXCEPT ![r] = [use |-> use, issue |-> Unset]]

\* Fault: an issue_ts that is set is kept.
FaultOnRqIssue(r, use) ==
  IF blkReq[r] = NoRequest \/ blkReq[r].issue # Unset THEN blkReq
  ELSE [blkReq EXCEPT ![r].issue = use]
\* on_rq_issue: only a request that has an entry.
OnRqIssue(r, use) ==
  IF blkReq[r] = NoRequest THEN blkReq ELSE [blkReq EXCEPT ![r].issue = use]

\* on_rq_complete charges the latency since issue_ts, and deletes the entry.
OnRqComplete(r) ==
  /\ ioCharged' = IF blkReq[r] = NoRequest THEN {}
                  ELSE {[request |-> r, from |-> blkReq[r].issue, state |-> ioState[r]]}
  /\ blkReq' = [blkReq EXCEPT ![r] = NoRequest]

BlockLayer(r, from, to) ==
  /\ ioState[r] = from /\ ioState' = [ioState EXCEPT ![r] = to]
  /\ UNCHANGED <<waiting, lockWait, lockCharged>>
NewUse(r) == ioUse[r] < MaxUses /\ ioUse' = [ioUse EXCEPT ![r] = @ + 1]

\* A new request is queued, or it is issued directly and no insert is traced.
RqInsert(r) ==
  /\ BlockLayer(r, "free", "queued") /\ NewUse(r)
  /\ blkReq' = OnRqInsert(r, ioUse[r] + 1) /\ ioCharged' = {}
RqDirect(r) ==
  /\ BlockLayer(r, "free", "issued") /\ NewUse(r)
  /\ blkReq' = OnRqIssue(r, ioUse[r] + 1) /\ ioCharged' = {}
RqIssue(r) ==
  /\ BlockLayer(r, "queued", "issued")
  /\ blkReq' = OnRqIssue(r, ioUse[r]) /\ ioCharged' = {} /\ UNCHANGED ioUse

\* The driver has no room: the request goes back, with an insert traced or without.
RqRequeue(r) ==
  /\ BlockLayer(r, "issued", "queued")
  /\ blkReq' \in {blkReq, OnRqInsert(r, ioUse[r])}
  /\ ioCharged' = {} /\ UNCHANGED ioUse

\* It is merged into another one, which is not traced: its entry stays.
RqMerge(r) ==
  /\ BlockLayer(r, "queued", "free")
  /\ ioCharged' = {} /\ UNCHANGED <<ioUse, blkReq>>

\* It completes, in parts perhaps, of which the first is charged; a request that
\* fails before it is issued completes from the queue.
RqComplete(r) ==
  /\ \E from \in {"queued", "issued"}, to \in {"free", "issued"} :
       /\ from = "queued" => to = "free"
       /\ BlockLayer(r, from, to)
  /\ OnRqComplete(r) /\ UNCHANGED ioUse

----------------------------------------------------------------------------
\* Contention

\* on_contention_begin, mutex_lock_slow: the entry of an outer contention is lost.
\* The slow path of a mutex may fire the event twice for one contention.
ContentionBegin(l) ==
  /\ \/ Len(waiting) < MaxNesting /\ waiting' = Append(waiting, l)
     \/ waiting # <<>> /\ l = waiting[Len(waiting)] /\ UNCHANGED waiting
  /\ lockWait' = l /\ lockCharged' = {}
  /\ UNCHANGED <<ioState, ioUse, blkReq, ioCharged>>

\* on_contention_end, mutex_lock_slow_ret: the wait is the entry's, the lock it is
\* added to in lock_hot that of the event.
ContentionEnd ==
  LET l == waiting[Len(waiting)] IN
  /\ waiting # <<>>
  /\ waiting' = SubSeq(waiting, 1, Len(waiting) - 1)
  /\ lockCharged' = IF lockWait = NoLock THEN {} ELSE {[lock |-> l, waited |-> lockWait]}
  /\ lockWait' = NoLock
  /\ UNCHANGED <<ioState, ioUse, blkReq, ioCharged>>

IoNext ==
  \/ \E r \in Requests : \/ RqInsert(r) \/ RqDirect(r) \/ RqIssue(r)
                         \/ RqRequeue(r) \/ RqMerge(r) \/ RqComplete(r)
  \/ \E l \in Locks : ContentionBegin(l)
  \/ ContentionEnd

IoSpec == IoInit /\ [][IoNext]_ioVars

----------------------------------------------------------------------------
\* Properties

\* The latency added for a request that was issued runs from an issue of this use
\* of its structure, however many uses before it were merged and left an entry,
\* and never from an issue_ts that nothing has set.
LatencyWithinOneUse ==
  \A c \in ioCharged : c.state = "issued" => c.from = ioUse[c.request]

\* What is added to a lock in lock_hot was waited for that lock: an interrupted
\* contention is lost, and never added to the lock of the interrupt or of the
\* contention it interrupted.
LockChargedToOwn == \A c \in lockCharged : c.lock = c.waited

\* What the two always-on programs charge, to a device or to a lock, was measured
\* between a start and an end of the same thing.
ChargesMatch == LatencyWithinOneUse /\ LockChargedToOwn
=============================================================================
