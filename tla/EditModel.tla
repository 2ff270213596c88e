------------------------------ MODULE EditModel ------------------------------
(***************************************************************************)
(* The on-SAM editor's document (tools/sam-aarch64/editmodel): lines kept  *)
(* in blocks of about half a page that split when they overflow and merge  *)
(* when they empty, a table from a line's id to the block that holds it,   *)
(* and a bounded undo journal with its redo stack.  A text is known by its *)
(* length alone, the line's overhead included.  The editor calls it from   *)
(* one thread, so each exported method is one step.                        *)
(***************************************************************************)
EXTENDS Integers, Sequences, SequencesExt

CONSTANTS
  Texts,          \* the lines one may type, as their lengths in bytes
  Capacity,       \* blockCapacityBytes
  MergeBelow,     \* blockMergeThresholdBytes
  MaxUndo,        \* maxUndoDepth
  MaxId           \* maxRecordID

ASSUME EditAssumption ==
  /\ Texts \subseteq Nat \ {0} /\ {Capacity, MergeBelow, MaxId} \subseteq Nat
  /\ MergeBelow <= Capacity /\ MaxUndo \in Nat \ {0}

VARIABLES
  blocks,         \* a sequence of [ptr, lines]; ptr is the block's address
  loc,            \* id -> address of the block that holds it
  nextID, undo, redo

vars == <<blocks, loc, nextID, undo, redo>>

Line(i, t) == [id |-> i, text |-> t]
Ids(ls) == {ls[i].id : i \in DOMAIN ls}
Bytes(ls) == FoldLeft(LAMBDA n, l : n + l.text, 0, ls)
Lines(bs) == FlattenSeq([i \in DOMAIN bs |-> bs[i].lines])
LineCount == Len(Lines(blocks))

\* The document index of the first line of block i.
Start(bs, i) == Len(Lines(SubSeq(bs, 1, i - 1)))

\* blockAndLocalIndex: <<block, offset>> of the line at document index `at',
\* or the end of the last block.
Holds(bs, i, at) == Start(bs, i) <= at /\ at < Start(bs, i) + Len(bs[i].lines)
Locate(bs, at) ==
  IF \E i \in DOMAIN bs : Holds(bs, i, at)
    THEN LET i == CHOOSE j \in DOMAIN bs : Holds(bs, j, at) IN <<i, at - Start(bs, i)>>
    ELSE <<Len(bs), Len(bs[Len(bs)].lines)>>

\* The address of a block just allocated: one that no block has.
NewPtr(bs) == CHOOSE p \in 1..Len(bs) + 1 : \A i \in DOMAIN bs : bs[i].ptr # p

\* Mutant: the lines that move to another block keep their old address.
KeepOld(m, ls, p) == m
Repoint(m, ls, p) == [i \in DOMAIN m \cup Ids(ls) |-> IF i \in Ids(ls) THEN p ELSE m[i]]

\* A document as the steps inside one method pass it on.
Doc(bs, m) == [blocks |-> bs, loc |-> m]
Now == Doc(blocks, loc)

splitBlock(d, i) ==
  LET ls == d.blocks[i].lines
      mid == Len(ls) \div 2
      right == [ptr |-> NewPtr(d.blocks), lines |-> SubSeq(ls, mid + 1, Len(ls))]
  IN  Doc(InsertAt([d.blocks EXCEPT ![i].lines = SubSeq(ls, 1, mid)], i + 1, right),
          Repoint(d.loc, right.lines, right.ptr))

\* Block i + 1 is emptied into block i, or block i into block i - 1.
Absorb(d, into, from) ==
  LET b == d.blocks[into] IN
  Doc(RemoveAt([d.blocks EXCEPT ![into].lines = @ \o d.blocks[from].lines], from),
      Repoint(d.loc, d.blocks[from].lines, b.ptr))

Fits(bs, i, j) == j \in DOMAIN bs /\ Bytes(bs[i].lines) + Bytes(bs[j].lines) <= Capacity

tryMerge(d, i) ==
  IF Fits(d.blocks, i, i + 1) THEN Absorb(d, i, i + 1)
  ELSE IF Fits(d.blocks, i, i - 1) THEN Absorb(d, i - 1, i)
  ELSE d

doInsert(d, at, l) ==
  IF d.blocks = <<>> THEN Doc(<<[ptr |-> 1, lines |-> <<l>>]>>, Repoint(d.loc, <<l>>, 1))
  ELSE LET w == Locate(d.blocks, at)
           i == w[1]
           ls == InsertAt(d.blocks[i].lines, w[2] + 1, l)
           in == Doc([d.blocks EXCEPT ![i].lines = ls],
                     Repoint(d.loc, <<l>>, d.blocks[i].ptr))
       IN  IF Bytes(ls) > Capacity /\ Len(ls) >= 2 THEN splitBlock(in, i) ELSE in

doDelete(d, at) ==
  LET w == Locate(d.blocks, at)
      i == w[1]
      ls == RemoveAt(d.blocks[i].lines, w[2] + 1)
      m == [k \in DOMAIN d.loc \ {d.blocks[i].lines[w[2] + 1].id} |-> d.loc[k]]
      out == Doc([d.blocks EXCEPT ![i].lines = ls], m)
  IN  IF ls = <<>> THEN Doc(RemoveAt(d.blocks, i), m)
      ELSE IF Bytes(ls) < MergeBelow THEN tryMerge(out, i) ELSE out

Becomes(d) == blocks' = d.blocks /\ loc' = d.loc

\* IndexOf finds a line through its block's address, and in that block only.
HeldAt(id, i, j) == /\ id \in DOMAIN loc /\ blocks[i].ptr = loc[id]
                    /\ j \in DOMAIN blocks[i].lines /\ blocks[i].lines[j].id = id
Known(id) == \E i \in DOMAIN blocks : \E j \in DOMAIN blocks[i].lines : HeldAt(id, i, j)
IndexOf(id) ==
  CHOOSE at \in 0..LineCount : \E i \in DOMAIN blocks : \E j \in DOMAIN blocks[i].lines :
    HeldAt(id, i, j) /\ at = Start(blocks, i) + j - 1
-----------------------------------------------------------------------------
Entry(op, at, l) == [op |-> op, at |-> at, line |-> l]

\* Mutant: the journal drops its newest entry.
DropNewest(e) == IF Len(undo) = MaxUndo THEN undo ELSE Append(undo, e)
pushUndo(e) == IF Len(undo) = MaxUndo THEN Append(Tail(undo), e) ELSE Append(undo, e)

\* Mutant: a fresh edit leaves the redo stack as it is.
KeepsRedo(e) == undo' = pushUndo(e) /\ UNCHANGED redo
Journal(e) == undo' = pushUndo(e) /\ redo' = <<>>

InsertLine(at, t) ==
  /\ at <= LineCount /\ nextID <= MaxId
  /\ Becomes(doInsert(Now, at, Line(nextID, t)))
  /\ nextID' = nextID + 1 /\ Journal(Entry("insert", at, Line(nextID, t)))

DeleteLine(at) ==
  /\ at < LineCount
  /\ Becomes(doDelete(Now, at)) /\ UNCHANGED nextID
  /\ Journal(Entry("delete", at, Lines(blocks)[at + 1]))

\* The effect of taking back, or putting back, one entry of the journal.  A
\* line that is to go is found by its id; an id nobody knows is a panic.
Unmake(e) == Known(e.line.id) /\ Becomes(doDelete(Now, IndexOf(e.line.id)))
Make(e) == Becomes(doInsert(Now, e.at, e.line))

Undo == /\ undo # <<>>
        /\ LET e == Last(undo) IN
             /\ \/ e.op = "insert" /\ Unmake(e)
                \/ e.op = "delete" /\ Make(e)
             /\ redo' = Append(redo, e)
        /\ undo' = Front(undo) /\ UNCHANGED nextID

Redo == /\ redo # <<>>
        /\ LET e == Last(redo) IN
             /\ \/ e.op = "insert" /\ Make(e)
                \/ e.op = "delete" /\ Unmake(e)
             /\ undo' = pushUndo(e)
        /\ redo' = Front(redo) /\ UNCHANGED nextID

\* Load fills one block after another with the lines of a saved document.
Filled(ls) ==
  LET fill[k \in 0..Len(ls)] ==
        IF k = 0 THEN <<>>
        ELSE LET bs == fill[k - 1] IN
             IF bs # <<>> /\ Bytes(Last(bs).lines) + ls[k].text <= Capacity
               THEN [bs EXCEPT ![Len(bs)].lines = Append(@, ls[k])]
               ELSE Append(bs, [ptr |-> Len(bs) + 1, lines |-> <<ls[k]>>])
  IN  fill[Len(ls)]

\* The document is saved and opened again (Serialize, then Load).
Reopen ==
  LET ls == Lines(blocks) IN
  /\ blocks' = Filled(ls)
  /\ loc' = [id \in Ids(ls) |-> LET i == CHOOSE j \in DOMAIN blocks' : id \in Ids(blocks'[j].lines)
                                IN blocks'[i].ptr]
  /\ nextID' = IF ls = <<>> THEN 1 ELSE 1 + (CHOOSE n \in Ids(ls) : \A k \in Ids(ls) : k <= n)
  /\ undo' = <<>> /\ redo' = <<>>
-----------------------------------------------------------------------------
Init == /\ blocks = <<>> /\ loc = [i \in {} |-> 0] /\ nextID = 1
        /\ undo = <<>> /\ redo = <<>>

Next == \/ \E at \in 0..LineCount : DeleteLine(at) \/ \E t \in Texts : InsertLine(at, t)
        \/ Undo \/ Redo \/ Reopen

Spec == Init /\ [][Next]_vars
-----------------------------------------------------------------------------
(* The id table names exactly the lines there are, each with the block it  *)
(* is in, and no id is on two lines: through every split, merge, undo and  *)
(* reopening (editmodel.go, checkInvariants).                              *)
LocExact ==
  /\ Cardinality(Ids(Lines(blocks))) = LineCount
  /\ DOMAIN loc = Ids(Lines(blocks))
  /\ \A i, j \in DOMAIN blocks : blocks[i].ptr = blocks[j].ptr => i = j
  /\ \A i \in DOMAIN blocks : \A id \in Ids(blocks[i].lines) : loc[id] = blocks[i].ptr

(* Undo and Redo never panic: the line an entry wants gone is in the       *)
(* document, and the one it wants back is not, at a place there is.        *)
JournalIsLive ==
  LET wants(e, gone) == IF gone THEN Known(e.line.id)
                        ELSE ~Known(e.line.id) /\ e.at <= LineCount
  IN  /\ undo # <<>> => wants(Last(undo), Last(undo).op = "insert")
      /\ redo # <<>> => wants(Last(redo), Last(redo).op = "delete")

\* The document before the edit e that led to d, and the one after it.
Pos(d, id) == CHOOSE k \in DOMAIN d : d[k].id = id
Without(d, e) == IF e.line.id \in Ids(d) THEN RemoveAt(d, Pos(d, e.line.id)) ELSE d
WithLine(d, e) == IF e.at <= Len(d) THEN InsertAt(d, e.at + 1, e.line) ELSE d
Before(d, e) == IF e.op = "insert" THEN Without(d, e) ELSE WithLine(d, e)
After(d, e) == IF e.op = "insert" THEN WithLine(d, e) ELSE Without(d, e)

\* The documents the journal remembers, from the oldest to the newest.
Chain(js, step(_, _)) ==
  LET doc[k \in 1..Len(js) + 1] ==
        IF k = Len(js) + 1 THEN Lines(blocks) ELSE step(doc[k + 1], js[k])
  IN  [k \in 1..Len(js) |-> doc[k]]

(* Refinement: whatever blocks it is in, the document is a TextDocument;   *)
(* Undo and Redo bring back exactly the documents there were, however many *)
(* splits and merges lie between and wherever the journal was cut off.     *)
Text == INSTANCE TextDocument WITH
  doc <- Lines(blocks), past <- Chain(undo, Before), future <- Chain(redo, After),
  Depth <- MaxUndo
IsTextDocument == Text!Spec
=============================================================================
