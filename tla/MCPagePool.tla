----------------------------- MODULE MCPagePool -----------------------------
(* PagePool on a small machine: some pages absent, one in the middle of the  *)
(* table reserved, so that runs are fragmented from the start.               *)
EXTENDS PagePool
=============================================================================
