--------------------------- MODULE MCSpillManager ---------------------------
(* SpillManager on a machine with two usable pages. *)
EXTENDS SpillManager, TLC

PayloadSymmetry == Permutations(Data)
=============================================================================
