---------------------------- MODULE TextDocument ----------------------------
(***************************************************************************)
(* What the editor's document promises, whatever blocks it is kept in: a   *)
(* sequence of lines, each with an id that is never given out twice, and a *)
(* history.  Undo puts back the document as it was before the last edit,   *)
(* ids included; Redo puts back the one Undo left; a new edit forgets what *)
(* could be redone; and at most Depth edits are remembered.                *)
(***************************************************************************)
EXTENDS Integers, Sequences

CONSTANTS Texts, Depth, MaxId

VARIABLES doc, nextID, past, future

vars == <<doc, nextID, past, future>>

Line(i, t) == [id |-> i, text |-> t]
Put(s, i, l) == SubSeq(s, 1, i) \o <<l>> \o SubSeq(s, i + 1, Len(s))
Cut(s, i) == SubSeq(s, 1, i) \o SubSeq(s, i + 2, Len(s))
Newest(s) == IF Len(s) > Depth THEN SubSeq(s, Len(s) - Depth + 1, Len(s)) ELSE s
ButLast(s) == SubSeq(s, 1, Len(s) - 1)

Init == doc = <<>> /\ nextID = 1 /\ past = <<>> /\ future = <<>>

Edited(d) == doc' = d /\ past' = Newest(Append(past, doc)) /\ future' = <<>>

Insert == \E i \in 0..Len(doc), t \in Texts :
  nextID <= MaxId /\ Edited(Put(doc, i, Line(nextID, t))) /\ nextID' = nextID + 1

Delete == \E i \in 0..Len(doc) - 1 : Edited(Cut(doc, i)) /\ UNCHANGED nextID

Undo == /\ past # <<>> /\ doc' = past[Len(past)] /\ past' = ButLast(past)
        /\ future' = Append(future, doc) /\ UNCHANGED nextID

Redo == /\ future # <<>> /\ doc' = future[Len(future)] /\ future' = ButLast(future)
        /\ past' = Newest(Append(past, doc)) /\ UNCHANGED nextID

\* The saved file holds the lines and their ids, not the history.
Reopen == /\ past' = <<>> /\ future' = <<>> /\ UNCHANGED doc
          /\ \/ doc = <<>> /\ nextID' = 1
             \/ nextID' \in {doc[i].id + 1 : i \in DOMAIN doc}
                /\ \A i \in DOMAIN doc : doc[i].id < nextID'

Next == Insert \/ Delete \/ Undo \/ Redo \/ Reopen
Spec == Init /\ [][Next]_vars
=============================================================================
