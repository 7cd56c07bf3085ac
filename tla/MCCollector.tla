---------------------------- MODULE MCCollector ----------------------------
(* Instances of Collector for TLC. *)
EXTENDS Collector, TLC

\* Devices are alike, and so are handle numbers.  Used where no liveness is checked.
Symmetry == Permutations(Devices) \union Permutations(Handles)
=============================================================================
