----------------------------- MODULE MCSession -----------------------------
(***************************************************************************)
(* A session for TLC: its configuration and life, the batches its database *)
(* takes and the rows it refuses, and what it reads and shows.  The four   *)
(* share no variable, so that each is explored by itself: part chooses     *)
(* one, and the others keep an initial state.                              *)
(***************************************************************************)
EXTENDS OutputWriter, Session, SessionDb, Snapshots

VARIABLE part
mcVars == <<part, vars, sessionVars, dbVars, snapshotVars>>

\* Settings that are in range, above it, beyond Width, against each other, null, and
\* unknown to Sanitize.
MCFiles ==
  { Malformed, Absent,
    [rate |-> 2, max |-> 2, min |-> 2, gpu |-> "nvml", dir |-> "a"],
    [rate |-> 5, max |-> 1, min |-> 2, gpu |-> "cuda", adapter |-> "onnx"],
    [rate |-> Null, max |-> Null, gpu |-> Null, dir |-> Null, stats |-> FALSE] }
MCEnvirons ==
  { [f \in {} |-> 0],
    [rate |-> 5, gpu |-> "off", dir |-> "b"],
    [max |-> 1, min |-> 0, gpu |-> "cuda", adapter |-> "ws"] }

\* The parts that are not explored begin in one state.
Rest ==
  /\ part # "session" => file = Absent /\ Cardinality(DOMAIN environ) = 0 /\ cliDir = "" /\ found = "0"
  /\ part # "batches" => db.pending = {} /\ db.lost = {}
  /\ part # "db" => interval.host = 2 /\ interval.feature = 2
  /\ part # "snapshots" => group = "mem"

MCInit ==
  /\ part \in {"batches", "session", "db", "snapshots"}
  /\ Init /\ SessionInit /\ DbInit /\ SnapshotsInit
  /\ Rest

MCNext ==
  /\ UNCHANGED part
  /\ \/ part = "batches" /\ Next /\ UNCHANGED <<sessionVars, dbVars, snapshotVars>>
     \/ part = "session" /\ SessionNext /\ UNCHANGED <<vars, dbVars, snapshotVars>>
     \/ part = "db" /\ DbNext /\ UNCHANGED <<vars, sessionVars, snapshotVars>>
     \/ part = "snapshots" /\ SnapshotsNext /\ UNCHANGED <<vars, sessionVars, dbVars>>

MCSpec == MCInit /\ [][MCNext]_mcVars

\* The transaction, the configuration in use and the loop's times have the shape the
\* code relies on; what was sanitised stays within its ranges.
MCTypeOK == TypeOK /\ SessionTypeOK /\ DbTypeOK
=============================================================================
