---------------------------- MODULE MCServePush ----------------------------
(* Three pushers and two readers: an image whose blocks straddle sectors and *)
(* whose last block is empty, an image a unit short whose sectors would fill *)
(* a record, a flat file; a read that starts with an OACK and one that does  *)
(* not, both of a file that ends in an empty block; a read that misses.     *)
EXTENDS ServePush

MCClass == [c \in Pushers |-> IF c = "notes" THEN "flat" ELSE "disk"]
MCReads == [c \in Readers |-> IF c = "probe" THEN "absent" ELSE "rom"]
MCSize == [image |-> 6, bad |-> 5, notes |-> 2, rom |-> 6]

\* Any three of them at once.
MCCasts == {cast \in SUBSET Clients : Cardinality(cast) = 3}
Mcblksize == [c \in Clients |-> IF c \in {"image", "bad", "pi"} THEN 3 ELSE 2]
=============================================================================
