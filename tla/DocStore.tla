------------------------------ MODULE DocStore ------------------------------
(* What the spill manager promises the editor: a store of document blocks    *)
(* keyed by an id that is never issued twice.  Where a block lives (RAM page *)
(* or backend) does not show; a call may fail, and a call that fails changes *)
(* nothing.                                                                  *)
EXTENDS Naturals

CONSTANTS
  Data,    \* block payloads
  NoData,  \* no payload: what a call that returns none answers
  MaxIds   \* bound: ids issued in one behaviour

VARIABLES
  doc,     \* the live blocks: id -> payload
  issued,  \* number of ids handed out so far; the next id
  ret      \* answer of the last call: [op, id, ok, data]

vars == <<doc, issued, ret>>

Answer(op, id, ok, data) == [op |-> op, id |-> id, ok |-> ok, data |-> data]

Init == doc = [i \in {} |-> {}] /\ issued = 0 /\ ret = Answer("Init", 0, TRUE, NoData)

NewBlock(d) ==
  /\ issued < MaxIds
  /\ doc' = [i \in DOMAIN doc \cup {issued} |-> IF i = issued THEN d ELSE doc[i]]
  /\ issued' = issued + 1
  /\ ret' = Answer("NewBlock", issued, TRUE, NoData)

BlockData(id) ==
  /\ id \in DOMAIN doc
  /\ ret' = Answer("BlockData", id, TRUE, doc[id])
  /\ UNCHANGED <<doc, issued>>

FreeBlock(id) ==
  /\ id \in DOMAIN doc
  /\ doc' = [i \in DOMAIN doc \ {id} |-> doc[i]]
  /\ ret' = Answer("FreeBlock", id, TRUE, NoData)
  /\ UNCHANGED issued

\* A call that is refused, or one on pages that are not document blocks:
\* whatever it answers, no document block changes.
Other ==
  /\ \/ ret'.ok = FALSE
     \/ ret'.op \in {"Alloc", "Free"}
  /\ UNCHANGED <<doc, issued>>

Next ==
  \/ \E d \in Data : NewBlock(d)
  \/ \E id \in DOMAIN doc : BlockData(id) \/ FreeBlock(id)
  \/ Other

Spec == Init /\ [][Next]_vars
=============================================================================
