------------------------------ MODULE OomRing ------------------------------
(***************************************************************************)
(* OOM kills: on_mark_victim claims a sequence number, then writes the     *)
(* event to a slot of a small ring; DumpOomEvents, once per host snapshot, *)
(* visits the numbers since its last visit and inserts what the slots hold *)
(* into a table keyed by the time of the event.  The two run concurrently. *)
(* The kernel marks victims one at a time (under oom_lock).                *)
(***************************************************************************)
EXTENDS Integers

CONSTANTS
  OomCap,    \* OOM_EVENTS_CAP
  OomLimit,  \* the numbers one dump visits at most
  MaxKills   \* bound: kills of a session

ASSUME OomConstants ==
  /\ OomCap \in Nat \ {0} /\ OomLimit \in Nat \ {0} /\ MaxKills \in Nat
  /\ OomCap <= OomLimit

VARIABLES
  oomSeq,     \* oom_seq
  oomEvents,  \* number of the event each slot of oom_events holds
  writing,    \* is the last number claimed and its event not yet written?
  lastSeq,    \* last_seq of DumpOomEvents
  visit,      \* the number it visits next, or Resting
  end,        \* seq, as it was read at the beginning of the dump
  oomRows,    \* the events in the table oom_events
  passed      \* events that were not yet written when a dump counted them

oomVars == <<oomSeq, oomEvents, writing, lastSeq, visit, end, oomRows, passed>>

Resting == -1
Empty == -1       \* a zeroed slot, inserted as a row of time 0
Slots == 0..(OomCap - 1)
Kills == 0..(MaxKills - 1)

OomInit ==
  /\ oomSeq = 0 /\ oomEvents = [s \in Slots |-> Empty] /\ writing = FALSE
  /\ lastSeq = 0 /\ visit = Resting /\ end = 0 /\ oomRows = {} /\ passed = {}

\* on_mark_victim, first half and second half.
ClaimVictim ==
  /\ ~writing /\ oomSeq < MaxKills
  /\ oomSeq' = oomSeq + 1 /\ writing' = TRUE
  /\ UNCHANGED <<oomEvents, lastSeq, visit, end, oomRows, passed>>
WriteVictim ==
  /\ writing /\ writing' = FALSE
  /\ oomEvents' = [oomEvents EXCEPT ![(oomSeq - 1) % OomCap] = oomSeq - 1]
  /\ UNCHANGED <<oomSeq, lastSeq, visit, end, oomRows, passed>>

\* DumpOomEvents reads the sequence number, and returns if it has not changed.
BeginDump ==
  /\ visit = Resting /\ oomSeq # lastSeq
  /\ visit' = lastSeq /\ end' = oomSeq
  /\ passed' = IF writing THEN passed \cup {oomSeq - 1} ELSE passed
  /\ UNCHANGED <<oomSeq, oomEvents, writing, lastSeq, oomRows>>

\* Fault: the slot is taken from half of the ring.
FaultSlotOf(s) == s % (OomCap \div 2)
\* ix
SlotOf(s) == s % OomCap

\* One lookup.  A row whose time is in the table already is refused.
VisitVictim ==
  /\ visit # Resting /\ visit < end /\ visit - lastSeq < OomLimit
  /\ oomRows' = oomRows \cup {oomEvents[SlotOf(visit)]}
  /\ visit' = visit + 1
  /\ UNCHANGED <<oomSeq, oomEvents, writing, lastSeq, end, passed>>

EndDump ==
  /\ visit # Resting /\ (visit >= end \/ visit - lastSeq >= OomLimit)
  /\ lastSeq' = end /\ visit' = Resting
  /\ UNCHANGED <<oomSeq, oomEvents, writing, end, oomRows, passed>>

OomNext == ClaimVictim \/ WriteVictim \/ BeginDump \/ VisitVictim \/ EndDump

OomSpec == OomInit /\ [][OomNext]_oomVars

----------------------------------------------------------------------------
\* Properties

\* A kill that the ring still holds after a dump is in the table, also when more
\* kills than the ring or than one dump can hold happened since the last dump.
\* Exempt is a kill whose slot was written only after a dump had counted it: that
\* dump may find the slot's former content, and none comes back to it.
NewestKillsKept ==
  visit = Resting =>
    \A s \in Slots : \/ oomEvents[s] \in {Empty} \cup passed \cup oomRows
                     \/ oomEvents[s] >= lastSeq

OomTypeOK ==
  /\ oomSeq \in 0..MaxKills /\ oomEvents \in [Slots -> Kills \cup {Empty}]
  /\ writing \in BOOLEAN /\ lastSeq \in 0..oomSeq /\ visit \in {Resting} \cup 0..MaxKills
  /\ end \in 0..oomSeq /\ oomRows \subseteq Kills \cup {Empty} /\ passed \subseteq Kills
=============================================================================
