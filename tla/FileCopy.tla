------------------------------ MODULE FileCopy ------------------------------
(***************************************************************************)
(* What a file transfer promises: the receiver holds a prefix of the file, *)
(* the prefix only grows, one block at a time, and the receiver calls the  *)
(* transfer complete with the last block and never before it.              *)
(***************************************************************************)
EXTENDS Integers, Sequences

CONSTANT FileLen                    \* blocks of the file, the short last one included

VARIABLES copied, complete

copyVars == <<copied, complete>>

File == [i \in 1..FileLen |-> i]    \* block i of the file is the token i

Init == copied = <<>> /\ complete = FALSE

Grow == /\ ~complete
        /\ copied' = Append(copied, Len(copied) + 1)
        /\ complete' = (Len(copied) + 1 = FileLen)

Next == Grow
Spec == Init /\ [][Next]_copyVars /\ WF_copyVars(Next)
SafeSpec == Init /\ [][Next]_copyVars
=============================================================================
