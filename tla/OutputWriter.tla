---------------------------- MODULE OutputWriter ----------------------------
(***************************************************************************)
(* The session database as the collector writes it: nested batches, single *)
(* writes, and the log lines that Logger's sink writes into the same       *)
(* database.  Any statement may fail (a reader holds the lock past the     *)
(* busy timeout, the disk is full); a failure is logged, and logging is a  *)
(* write.                                                                  *)
(*                                                                         *)
(* One thread does all of it.  Logger::Log holds its mutex while it calls  *)
(* the sink, so an error inside the sink finds the mutex taken.            *)
(***************************************************************************)
EXTENDS Integers

CONSTANTS
  MaxRows,    \* bound: rows written in one session, log lines included
  MaxDepth    \* bound: nesting of batches

ASSUME WriterConstants == MaxRows \in Nat \ {0} /\ MaxDepth \in Nat \ {0}

VARIABLES
  db,        \* the transaction and the rows, by number
  depth,     \* batch_depth_
  nextRow,   \* the number of the next row
  reported,  \* an error line has reached stderr
  status     \* "open", "closed" by Close, "killed", or "hung" in Logger::Log

vars == <<db, depth, nextRow, reported, status>>

Rows == 0..MaxRows

Databases == [inTx : BOOLEAN, pending : SUBSET Rows, stored : SUBSET Rows,
              lost : SUBSET Rows]

TypeOK ==
  /\ db \in Databases
  /\ depth \in 0..MaxDepth
  /\ nextRow \in 1..(MaxRows + 1)
  /\ reported \in BOOLEAN
  /\ status \in {"open", "closed", "killed", "hung"}

---------------------------------------------------------------------------
(* The database: what one statement does to it. *)

Inserted(d, row) ==
  IF d.inTx THEN [d EXCEPT !.pending = @ \cup {row}]
            ELSE [d EXCEPT !.stored = @ \cup {row}]

Begun(d) == [d EXCEPT !.inTx = TRUE]

Committed(d) ==
  [d EXCEPT !.inTx = FALSE, !.stored = @ \cup d.pending, !.pending = {}]

RolledBack(d) ==
  [d EXCEPT !.inTx = FALSE, !.lost = @ \cup d.pending, !.pending = {}]

\* A failed statement leaves the transaction alone, or takes it down with it.
Failures(d) == {d, RolledBack(d)}

\* Row 0 stands for the rows of the meta table, whose COMMIT is not checked.
Init ==
  /\ db \in LET new == [inTx |-> FALSE, pending |-> {}, stored |-> {}, lost |-> {}]
                meta == Inserted(Begun(new), 0)
            IN  {Committed(meta)} \cup Failures(meta)
  /\ depth = 0
  /\ nextRow = 1
  /\ reported = (db.stored = {})
  /\ status = "open"

---------------------------------------------------------------------------
(* Logger::Log with the sink in place: the line is row nextRow of logs.  If  *)
(* that write fails, Step logs the failure and waits for the mutex it holds. *)
LogLine(d) ==
  \/ /\ db' = Inserted(d, nextRow)
     /\ nextRow' = nextRow + 1
     /\ UNCHANGED status
  \/ /\ db' \in Failures(d)
     /\ status' = "hung"
     /\ UNCHANGED nextRow

LogError(d) == reported' = TRUE /\ LogLine(d)

\* Fault: errors are not logged (LossReported).
FaultExec(done, possible) ==
  \/ /\ possible
     /\ db' = done
     /\ UNCHANGED <<nextRow, reported, status>>
  \/ /\ db' \in Failures(db)
     /\ UNCHANGED <<nextRow, reported, status>>

\* Exec of a statement that makes the database done; it must fail if it is not
\* possible in the present transaction state.
Exec(done, possible) ==
  \/ /\ possible
     /\ db' = done
     /\ UNCHANGED <<nextRow, reported, status>>
  \/ \E d \in Failures(db) : LogError(d)

Running == status = "open" /\ nextRow <= MaxRows

BeginBatch ==
  /\ Running
  /\ depth < MaxDepth
  /\ depth' = depth + 1
  /\ IF depth = 0 THEN Exec(Begun(db), ~db.inTx)
                  ELSE UNCHANGED <<db, nextRow, reported, status>>

\* Fault: every CommitBatch commits (OutermostCommits).
FaultCommitBatch ==
  /\ Running
  /\ depth > 0
  /\ depth' = depth - 1
  /\ Exec(Committed(db), db.inTx)

CommitBatch ==
  /\ Running
  /\ depth > 0
  /\ depth' = depth - 1
  /\ IF depth = 1 THEN Exec(Committed(db), db.inTx)
                  ELSE UNCHANGED <<db, nextRow, reported, status>>

\* Fault: the number of a row is taken even when the row is not (TypeOK).
FaultWrite ==
  /\ Running
  /\ nextRow' = nextRow + 2
  /\ db' \in Failures(db)
  /\ UNCHANGED <<depth, reported, status>>

\* Any Write... operation: Prep, Step, and the error of either.
Write ==
  /\ Running
  /\ \/ /\ db' = Inserted(db, nextRow)
        /\ nextRow' = nextRow + 1
        /\ UNCHANGED <<reported, status>>
     \/ \E d \in Failures(db) : LogError(d)
  /\ UNCHANGED depth

\* LogInfo and its kin, called by the collector itself.
Log ==
  /\ Running
  /\ LogLine(db)
  /\ UNCHANGED <<depth, reported>>

\* RunCollector closes outside any batch: the checkpoint may fail, and closing
\* rolls an open transaction back.
Close ==
  /\ Running
  /\ depth = 0
  /\ \/ /\ db' = RolledBack(db)
        /\ status' = "closed"
        /\ UNCHANGED <<nextRow, reported>>
     \/ /\ reported' = TRUE
        /\ \/ db' = RolledBack(Inserted(db, nextRow)) /\ status' = "closed"
           \/ db' \in Failures(db) /\ status' = "hung"
        /\ nextRow' = nextRow + 1
  /\ UNCHANGED depth

\* The process dies: the log of the database holds what was committed.
Kill ==
  /\ status \in {"open", "hung"}
  /\ status' = "killed"
  /\ db' = RolledBack(db)
  /\ UNCHANGED <<depth, nextRow, reported>>

Next == BeginBatch \/ CommitBatch \/ Write \/ Log \/ Close \/ Kill

Spec == Init /\ [][Next]_vars

---------------------------------------------------------------------------
(* Properties. *)

\* Every row is accounted for, once, and a row that was accepted is lost only
\* after an error has been reported, with the process, or when it hangs: a COMMIT
\* that fails is never silent, nor is what Close later rolls back because of it.
LossReported ==
  /\ db.pending \cap db.stored = {} /\ db.lost \cap db.stored = {}
  /\ db.pending # {} => db.inTx
  /\ db.lost # {} => reported \/ status \in {"killed", "hung"}

StoredByOutermost == \A row \in db.pending : row \in db'.stored => depth = 1 /\ depth' = 0
\* The rows of a transaction are stored by the CommitBatch that leaves the
\* outermost batch and by nothing else, whatever failed within.
OutermostCommits == [][StoredByOutermost]_vars

\* "Write failures log and continue": no failure stops the collector.
FailuresLogAndContinue == status # "hung"

=============================================================================
