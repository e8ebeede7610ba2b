-------------------------- MODULE MCFlightRecorder --------------------------
(***************************************************************************)
(* Instances of FlightRecorder for TLC: the timer as the only producer, or *)
(* the perf samplers of two CPUs, which are interchangeable.               *)
(***************************************************************************)
EXTENDS FlightRecorder, TLC

CONSTANTS timer, cpu0, cpu1

MCTimer == {timer}
MCTwoCpus == {cpu0, cpu1}
MCSymmetry == Permutations(MCTwoCpus)

=============================================================================
