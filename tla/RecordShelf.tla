----------------------------- MODULE RecordShelf -----------------------------
(***************************************************************************)
(* What the serve program promises its users about the SD card's records,  *)
(* a resource other programs share: a record that is taken is never        *)
(* written again, and what goes onto a free one is the whole of one        *)
(* client's file.                                                          *)
(***************************************************************************)
EXTENDS Integers, Sequences

CONSTANTS Clients, FreeAtStart, WholeFile(_), Acceptable(_)

VARIABLES free, shelf               \* shelf: a record number -> what is on it

Init == free = FreeAtStart /\ shelf = <<>>

Store == \E r \in free, c \in Clients :
  /\ Acceptable(c)
  /\ free' = free \ {r}
  /\ shelf' = [s \in DOMAIN shelf \cup {r} |->
                 IF s = r THEN [owner |-> c, body |-> WholeFile(c)] ELSE shelf[s]]

Next == Store
Spec == Init /\ [][Next]_<<free, shelf>>
=============================================================================
