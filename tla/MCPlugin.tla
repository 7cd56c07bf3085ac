------------------------------ MODULE MCPlugin ------------------------------
(* Instances of Plugin for TLC. *)
EXTENDS Plugin, TLC

MCDevices == 1 .. NumDevices

\* Handle numbers are alike.  Used where no liveness is checked.
Symmetry == Permutations(Handles)
=============================================================================
