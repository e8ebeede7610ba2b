----------------------------- MODULE EpisodeLog -----------------------------
(***************************************************************************)
(* What the phase machine and the writer promise a reader of the session   *)
(* database, with no clocks, hooks or phases: diagnostic episodes are      *)
(* attempted one after the other under fresh ordinals, an attempt either   *)
(* opens its episode or is given up, at most one episode is open, and an   *)
(* open episode ends by being summarised, once.                            *)
(***************************************************************************)
EXTENDS Integers

VARIABLES
  attempted,   \* the number of attempts so far; ordinals count from 1
  current,     \* the ordinal of the open episode, 0 if there is none
  summarised   \* the ordinals with a complete record

logVars == <<attempted, current, summarised>>

Init == attempted = 0 /\ current = 0 /\ summarised = {}

Attempt ==
  /\ current = 0
  /\ attempted' = attempted + 1
  /\ current' \in {0, attempted'}
  /\ UNCHANGED summarised

Summarise ==
  /\ current # 0
  /\ summarised' = summarised \cup {current}
  /\ current' = 0
  /\ UNCHANGED attempted

Next == Attempt \/ Summarise

Spec == Init /\ [][Next]_logVars

=============================================================================
