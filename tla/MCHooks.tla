------------------------------ MODULE MCHooks ------------------------------
(***************************************************************************)
(* The in-kernel programs and the readers of what they leave, for TLC:     *)
(* KernelHooks, IoHooks, OomRing, MapReader and ProcessTable.  They share  *)
(* no map, so that each is explored by itself: part chooses one, and the   *)
(* others keep an initial state.                                           *)
(***************************************************************************)
EXTENDS KernelHooks, IoHooks, OomRing, MapReader, ProcessTable

VARIABLE part
mcVars == <<part, vars, ioVars, oomVars, readerVars, tableVars>>

\* The parts that are not explored begin in one state.
Rest(p) ==
  /\ p # "threads" => \A t \in Tids : doing[t] = "ready"
  /\ p # "reader" => \A k \in Keys : elements[k] = NoElement
  /\ p # "table" => alive = {} /\ \A q \in Pids : names[q] = "word"

MCInit ==
  /\ part \in {"threads", "io", "oom", "reader", "table"}
  /\ Init /\ IoInit /\ OomInit /\ ReaderInit /\ TableInit
  /\ Rest(part)

MCNext ==
  /\ UNCHANGED part
  /\ \/ part = "threads" /\ Next /\ UNCHANGED <<ioVars, oomVars, readerVars, tableVars>>
     \/ part = "io" /\ IoNext /\ UNCHANGED <<vars, oomVars, readerVars, tableVars>>
     \/ part = "oom" /\ OomNext /\ UNCHANGED <<vars, ioVars, readerVars, tableVars>>
     \/ part = "reader" /\ ReaderNext /\ UNCHANGED <<vars, ioVars, oomVars, tableVars>>
     \/ part = "table" /\ TableNext /\ UNCHANGED <<vars, ioVars, oomVars, readerVars>>

MCSpec == MCInit /\ [][MCNext]_mcVars

\* The maps, the readers and the scheduling state have the shape the programs rely on.
MCTypeOK == TypeOK /\ IoTypeOK /\ OomTypeOK /\ ReaderTypeOK /\ TableTypeOK
=============================================================================
