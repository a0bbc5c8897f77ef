------------------------------- MODULE MCLog --------------------------------
(* Instances of the log for TLC. *)
EXTENDS Log, TLC

(* Processes and blocks are interchangeable in the safety runs. *)
Symmetry == Permutations(Proc) \cup Permutations(Block)
=============================================================================
