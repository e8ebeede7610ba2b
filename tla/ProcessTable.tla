---------------------------- MODULE ProcessTable ----------------------------
(***************************************************************************)
(* The table of processes: the iterator program task_iter prints three     *)
(* lines, A, B and C, for each task it meets, and ReadProcessTable parses  *)
(* them into rows.  Tasks start and exit while the iterator goes on.       *)
(*                                                                         *)
(* A line is abstracted to its letter, the task it is about and how sscanf *)
(* fares with it, which for an A line is a matter of the task's name: a    *)
(* space in the name makes two fields of it, and a line break two lines.   *)
(* Where the reads cut the text does not matter: leftover joins it again.  *)
(***************************************************************************)
EXTENDS Integers, Sequences, FiniteSets

CONSTANT Pids   \* the iterator goes upwards

ASSUME TableConstants == Pids \subseteq Nat \ {0} /\ IsFiniteSet(Pids)

VARIABLES
  alive,    \* the tasks there are
  names,    \* how the name of each task reads
  position, \* the last task the iterator has met
  pipe,     \* lines printed and not parsed
  rows,     \* out: the task of pid, of the fields of the A line, and of B and C
  printed,  \* the tasks met, in order
  valid     \* what ReadProcessTable returns, or Reading

tableVars == <<alive, names, position, pipe, rows, printed, valid>>

\* A word; two words, of which the second may be a number; two lines, of which the
\* second may begin with the letter of a line.
Names == {"word", "words", "number", "lines", "letter"}
Reading == "reading"

TableTypeOK ==
  /\ alive \subseteq Pids /\ names \in [Pids -> Names] /\ position \in Pids \cup {0}
  /\ Len(pipe) <= 4 /\ valid \in {Reading, "rows", "none"}
  /\ \A i \in 1..Len(rows) :
       rows[i] \in [pid : Pids, head : Pids, shifted : BOOLEAN, b : Pids \cup {0}, c : Pids \cup {0}]

TableInit ==
  /\ alive \in SUBSET Pids /\ names \in [Pids -> Names]
  /\ position = 0 /\ pipe = <<>> /\ rows = <<>> /\ printed = <<>> /\ valid = Reading

----------------------------------------------------------------------------

StartTask(p) ==
  /\ p \notin alive /\ alive' = alive \cup {p}
  /\ UNCHANGED <<names, position, pipe, rows, printed, valid>>
ExitTask(p) ==
  /\ p \in alive /\ alive' = alive \ {p}
  /\ UNCHANGED <<names, position, pipe, rows, printed, valid>>

\* The lines task_iter prints for p.
Lines(p) ==
  LET line(tag, parsed) == [tag |-> tag, pid |-> p, parsed |-> parsed] IN
  CASE names[p] = "word"   -> <<line("A", "own"), line("B", "own"), line("C", "own")>>
    [] names[p] = "number" -> <<line("A", "shifted"), line("B", "own"), line("C", "own")>>
    [] names[p] = "words"  -> <<line("A", "not"), line("B", "own"), line("C", "own")>>
    [] names[p] = "lines"  -> <<line("A", "not"), line("-", "not"), line("B", "own"), line("C", "own")>>
    [] names[p] = "letter" -> <<line("A", "not"), line("C", "not"), line("B", "own"), line("C", "own")>>

TaskIter(p) ==
  /\ valid = Reading /\ pipe = <<>>
  /\ p \in alive /\ p > position /\ \A q \in alive : q > position => q >= p
  /\ position' = p /\ printed' = Append(printed, p) /\ pipe' = Lines(p)
  /\ UNCHANGED <<alive, names, rows, valid>>

\* Fault: an A line without all its fields removes the last row, as a B or C line does.
FaultAppended(line) ==
  IF line.parsed = "not" THEN SubSeq(rows, 1, Len(rows) - 1)
  ELSE Append(rows, [pid |-> line.pid, head |-> line.pid, shifted |-> line.parsed = "shifted",
                     b |-> 0, c |-> 0])
\* An A line with all its fields appends a row.  A second word that is a number is
\* taken for the state, and each field after it for its neighbour's.
Appended(line) ==
  IF line.parsed = "not" THEN rows
  ELSE Append(rows, [pid |-> line.pid, head |-> line.pid, shifted |-> line.parsed = "shifted",
                     b |-> 0, c |-> 0])

\* A B or C line fills in the last row, pid included, or removes it.
Amended(line) ==
  LET n == Len(rows) IN
  CASE n = 0 -> rows
    [] n > 0 /\ line.parsed = "not" -> SubSeq(rows, 1, n - 1)
    [] n > 0 /\ line.parsed # "not" /\ line.tag = "B" ->
         [rows EXCEPT ![n].pid = line.pid, ![n].b = line.pid]
    [] n > 0 /\ line.parsed # "not" /\ line.tag = "C" ->
         [rows EXCEPT ![n].pid = line.pid, ![n].c = line.pid]

ReadLine ==
  /\ pipe # <<>> /\ pipe' = Tail(pipe)
  /\ rows' = CASE Head(pipe).tag = "A" -> Appended(Head(pipe))
               [] Head(pipe).tag \in {"B", "C"} -> Amended(Head(pipe))
               [] OTHER -> rows
  /\ UNCHANGED <<alive, names, position, printed, valid>>

EndOfTable ==
  /\ valid = Reading /\ pipe = <<>> /\ \A p \in alive : p <= position
  /\ valid' = IF rows # <<>> THEN "rows" ELSE "none"
  /\ UNCHANGED <<alive, names, position, pipe, rows, printed>>

TableNext ==
  \/ \E p \in Pids : StartTask(p) \/ ExitTask(p) \/ TaskIter(p)
  \/ ReadLine \/ EndOfTable

TableSpec == TableInit /\ [][TableNext]_tableVars

----------------------------------------------------------------------------
\* Properties

\* A task whose name is one word has a row of its own with its own values, whatever
\* starts and exits meanwhile, unless the task printed after it has no readable A
\* line: that one's B and C lines go into this row, and its pid.  (A name whose second
\* line begins with B or C removes a row and spoils the one before it.)  No two
\* rows have one pid all the same, so that the selector scores no process twice.
RowsWhole ==
  /\ valid # Reading =>
       \A i \in 1..Len(printed) :
         LET p == printed[i] IN
         /\ names[p] = "word"
         /\ i < Len(printed) => names[printed[i + 1]] \in {"word", "number"}
         /\ \A k \in (i + 1)..Len(printed) : names[printed[k]] # "letter"
         => \E j \in 1..Len(rows) : rows[j] = [pid |-> p, head |-> p, shifted |-> FALSE, b |-> p, c |-> p]
  /\ \A j, k \in 1..Len(rows) : j # k => rows[j].pid # rows[k].pid
=============================================================================
