---------------------------- MODULE SpillManager ----------------------------
(* Lazy spilling of editor-document (DOC) blocks over the page table: when   *)
(* no page is Free the coldest resident block is written to the backend and  *)
(* its page handed on; a spilled block is faulted back in when it is read.   *)
(* Host authority: tools/sam-aarch64/pagepool/spill.go.  The manager is      *)
(* called from one goroutine, so each exported method is one step; the steps *)
(* inside it (evict, grab a page, load, discard, undo) can each fail.        *)
EXTENDS PageTable

CONSTANTS
  Data,        \* block payloads
  NoData,      \* nil: the payload of a spilled block, of a call that returns none
  WorkTags,    \* owner tags of the assembler's IN/OUT/scratch pages
  Backends,    \* the managers there are: with a backend (TRUE), without (FALSE)
  MaxIds,      \* bound: ids issued (nextID)
  MaxSeq       \* bound: touches (seq)

ASSUME ManagerAssumption ==
  /\ WorkTags \subseteq Tag
  /\ \A t \in WorkTags : t >= FirstOwnerTag /\ t # OwnerDoc
  /\ Backends \subseteq BOOLEAN
  /\ NoData \notin Data
  /\ MaxIds \in Nat /\ MaxSeq \in Nat

VARIABLES     \* and owner, the pool's page_owner[]
  blocks,   \* id -> docBlock
  seq,      \* LRU clock
  nextID,   \* next BlockID
  spills,   \* evictions so far
  reloads,  \* blocks faulted back in so far
  hasBackend, \* FALSE: NewManager(pool, nil), the refuse-only baseline
  store,    \* the backend: id -> payload (external)
  ret       \* answer of the last call

vars == <<owner, blocks, seq, nextID, spills, reloads, hasBackend, store, ret>>

NoPage == MaxPages   \* docBlock.page of a spilled block (-1 in the code)

Block == [page : Page \cup {NoPage}, data : Data \cup {NoData},
          lastUsed : Nat, spilled : BOOLEAN]

Answer(op, id, ok, data) == [op |-> op, id |-> id, ok |-> ok, data |-> data]

With(f, k, v)  == [i \in DOMAIN f \cup {k} |-> IF i = k THEN v ELSE f[i]]
Without(f, k)  == [i \in DOMAIN f \ {k} |-> f[i]]

Resident == {i \in DOMAIN blocks : ~blocks[i].spilled}

\* Mutant: the comparison is the wrong way round.
HottestInstead(v, protect) ==
  /\ v \in Resident \ protect
  /\ \A i \in Resident \ protect : blocks[v].lastUsed >= blocks[i].lastUsed

\* coldestResidentExcept: v is the least recently used resident block outside
\* the protected set.
Coldest(v, protect) ==
  /\ v \in Resident \ protect
  /\ \A i \in Resident \ protect : blocks[v].lastUsed <= blocks[i].lastUsed

\* The manager's memory as the steps inside one call pass it on.
Now == [owner |-> owner, blocks |-> blocks, store |-> store, spills |-> spills]

\* tick: the stamp of a touch.
Tick == seq + 1

\* The backend's Store and Discard on the copies it holds (external), and what
\* a failed Load or Discard leaves.  Mutants: the copy survives its Discard;
\* Discard is called before the Load that can fail.
Stored(st, i, d) == With(st, i, d)
DiscardKeeps(st, i) == st
Discarded(st, i) == Without(st, i)
AfterFailedLoad(st, i) == st

\* A reload that fails has grabbed page p and freed it again.  Mutant: it has
\* not freed it.
GrabKept(o)   == [o EXCEPT ![CHOOSE p \in Page : LowestFree(o, p)] = OwnerDoc]
GrabUndone(o) == o

\* The steps of an eviction: free the victim's page, mark it spilled, hand its
\* payload to Store.
PageReleased(v) == [owner EXCEPT ![blocks[v].page] = Free]
VictimData(v)   == blocks[v].data
MarkedSpilled(v) ==
  [blocks EXCEPT ![v] = [@ EXCEPT !.spilled = TRUE, !.page = NoPage, !.data = NoData]]

Evicted(v) ==
  [owner  |-> PageReleased(v),
   blocks |-> MarkedSpilled(v),
   store  |-> Stored(store, v, VictimData(v)),
   spills |-> spills + 1]

\* ensureFreePage: the memories in which it returns nil.  Empty when it
\* returns ErrPoolExhausted.
EnsureFreePage(protect) ==
  IF FreePages(owner) # {} THEN {Now}
  ELSE IF ~hasBackend THEN {}
  ELSE {Evicted(v) : v \in {u \in Resident : Coldest(u, protect)}}

\* Backend calls may fail; one that fails leaves the store as it was.  An
\* eviction is the only backend call ensureFreePage makes.
StoreMayFail(protect) ==
  /\ FreePages(owner) = {} /\ hasBackend
  /\ \E v \in Resident : Coldest(v, protect)

Refused(op, id) ==
  /\ ret' = Answer(op, id, FALSE, NoData)
  /\ UNCHANGED <<owner, blocks, seq, nextID, spills, reloads, store>>

EnsureFails(protect) == EnsureFreePage(protect) = {} \/ StoreMayFail(protect)

Touched(bs, i) == [bs EXCEPT ![i] = [@ EXCEPT !.lastUsed = Tick]]

-----------------------------------------------------------------------------
Init ==
  /\ owner = BootTable
  /\ blocks = [i \in {} |-> {}] /\ store = [i \in {} |-> {}]
  /\ seq = 0 /\ nextID = 0 /\ spills = 0 /\ reloads = 0
  /\ hasBackend \in Backends
  /\ ret = Answer("Init", 0, TRUE, NoData)

NewBlock(d) ==
  /\ nextID < MaxIds /\ seq < MaxSeq
  /\ \E m \in EnsureFreePage({}) : \E p \in Page :
       /\ LowestFree(m.owner, p)
       /\ owner' = [m.owner EXCEPT ![p] = OwnerDoc]
       /\ blocks' = With(m.blocks, nextID,
                         [page |-> p, data |-> d, lastUsed |-> Tick,
                          spilled |-> FALSE])
       /\ store' = m.store
       /\ spills' = m.spills
  /\ seq' = Tick
  /\ nextID' = nextID + 1
  /\ ret' = Answer("NewBlock", nextID, TRUE, NoData)
  /\ UNCHANGED reloads

NewBlockRefused == EnsureFails({}) /\ Refused("NewBlock", 0)

\* BlockData of a resident block.
BlockDataHit(id) ==
  /\ seq < MaxSeq
  /\ id \in Resident
  /\ blocks' = Touched(blocks, id)
  /\ seq' = Tick
  /\ ret' = Answer("BlockData", id, TRUE, blocks[id].data)
  /\ UNCHANGED <<owner, nextID, spills, reloads, store>>

\* BlockData of a spilled block: reload secures a page, loads, discards.
BlockDataReload(id) ==
  /\ seq < MaxSeq
  /\ id \in DOMAIN blocks /\ blocks[id].spilled
  /\ \E m \in EnsureFreePage({id}) : \E p \in Page :
       /\ LowestFree(m.owner, p)
       /\ id \in DOMAIN m.store
       /\ owner' = [m.owner EXCEPT ![p] = OwnerDoc]
       /\ blocks' = [m.blocks EXCEPT
                       ![id] = [page |-> p, data |-> m.store[id],
                                lastUsed |-> Tick, spilled |-> FALSE]]
       /\ store' = Discarded(m.store, id)
       /\ spills' = m.spills
       /\ ret' = Answer("BlockData", id, TRUE, m.store[id])
  /\ seq' = Tick
  /\ reloads' = reloads + 1
  /\ UNCHANGED nextID

\* reload fails before any page is grabbed ...
BlockDataRefused(id) ==
  /\ id \in DOMAIN blocks => blocks[id].spilled /\ EnsureFails({id})
  /\ Refused("BlockData", id)

\* ... or Load or Discard fails afterwards: the grabbed page is freed again,
\* but an eviction made to secure it stays.
BlockDataUndone(id) ==
  /\ id \in DOMAIN blocks /\ blocks[id].spilled
  /\ \E m \in EnsureFreePage({id}) :
       /\ owner' = GrabUndone(m.owner)
       /\ blocks' = m.blocks
       /\ store' = AfterFailedLoad(m.store, id)
       /\ spills' = m.spills
  /\ ret' = Answer("BlockData", id, FALSE, NoData)
  /\ UNCHANGED <<seq, nextID, reloads>>

FreeBlock(id) ==
  /\ id \in DOMAIN blocks
  /\ IF blocks[id].spilled
       THEN store' = Discarded(store, id) /\ UNCHANGED owner
       ELSE /\ Carries(owner, blocks[id].page, OwnerDoc)
            /\ owner' = [owner EXCEPT ![blocks[id].page] = Free]
            /\ UNCHANGED store
  /\ blocks' = Without(blocks, id)
  /\ ret' = Answer("FreeBlock", id, TRUE, NoData)
  /\ UNCHANGED <<seq, nextID, spills, reloads>>

\* Unknown id, or the backend's Discard failed.
FreeBlockRefused(id) ==
  /\ id \in DOMAIN blocks => blocks[id].spilled
  /\ Refused("FreeBlock", id)

Alloc(t) ==
  /\ \E m \in EnsureFreePage({}) : \E p \in Page :
       /\ LowestFree(m.owner, p)
       /\ owner' = [m.owner EXCEPT ![p] = t]
       /\ blocks' = m.blocks
       /\ store' = m.store
       /\ spills' = m.spills
       /\ ret' = Answer("Alloc", p, TRUE, NoData)
  /\ UNCHANGED <<seq, nextID, reloads>>

AllocRefused == EnsureFails({}) /\ Refused("Alloc", 0)

\* Manager.Free rejects OwnerDoc; otherwise it is Pool.Free. The assembler hands
\* back what it took with Alloc, so t is one of the tags it works under.
FreePage(p, t) ==
  /\ Carries(owner, p, t)
  /\ owner' = [owner EXCEPT ![p] = Free]
  /\ ret' = Answer("Free", p, TRUE, NoData)
  /\ UNCHANGED <<blocks, seq, nextID, spills, reloads, store>>

FreePageRefused(p, t) == ~Carries(owner, p, t) /\ Refused("Free", p)

BlockID == 0 .. MaxIds - 1

Call ==
  \/ \E d \in Data : NewBlock(d)
  \/ NewBlockRefused
  \/ \E id \in BlockID :
       \/ BlockDataHit(id) \/ BlockDataReload(id)
       \/ BlockDataRefused(id) \/ BlockDataUndone(id)
       \/ FreeBlock(id) \/ FreeBlockRefused(id)
  \/ \E t \in WorkTags : Alloc(t)
  \/ AllocRefused
  \/ \E p \in Page, t \in WorkTags : FreePage(p, t) \/ FreePageRefused(p, t)

Next == Call /\ UNCHANGED hasBackend

Spec == Init /\ [][Next]_vars

-----------------------------------------------------------------------------
\* Every variable has its type; a resident block holds a payload and a page.
TypeOK ==
  /\ owner \in [Page -> Tag]
  /\ DOMAIN blocks \subseteq 0 .. nextID - 1
  /\ \A i \in DOMAIN blocks : blocks[i] \in Block
  /\ DOMAIN store \subseteq Nat
  /\ \A i \in DOMAIN store : store[i] \in Data
  /\ seq \in Nat /\ nextID \in 0 .. MaxIds /\ spills \in Nat /\ reloads \in Nat
  /\ hasBackend \in Backends

\* The DOC pages of the table are exactly the pages of the resident blocks and
\* no page is shared: no page leaks when a reload is undone, none is handed to
\* two blocks (spill.go, docBlock: "when resident it owns a physical page").
DocPagesOwned ==
  /\ \A p \in Page : owner[p] = OwnerDoc => \E i \in Resident : blocks[i].page = p
  /\ \A i \in Resident : blocks[i].page \in Page /\ owner[blocks[i].page] = OwnerDoc
  /\ \A i, j \in Resident : blocks[i].page = blocks[j].page => i = j

\* The backend holds a copy of exactly the spilled blocks: a reload leaves no
\* stale copy behind and a failed one loses none, whichever step failed.
BackendExact == DOMAIN store = DOMAIN blocks \ Resident

\* "disk I/O ONLY when FREE is empty, and exactly one eviction per shortfall":
\* a step that spills found no Free page, spills one block, and no other
\* resident block was touched less recently, or at the same time ("each touch
\* orders strictly after every prior one (no ties)").
LazySpill ==
  [][ \A v \in Resident :
        v \in DOMAIN blocks' /\ blocks'[v].spilled =>
          /\ FreePages(owner) = {}
          /\ spills' = spills + 1
          /\ \A i \in Resident \ {v} :
               /\ blocks[v].lastUsed < blocks[i].lastUsed
               /\ ~blocks'[i].spilled ]_vars

\* "IN/OUT/scratch pages are the assembler's live working set and are never
\* evicted": such a page changes hands only through Free of that very page.
WorkPagesPinned ==
  [][ \A p \in Page : owner[p] \in WorkTags /\ owner'[p] # owner[p] =>
        ret'.op = "Free" /\ ret'.ok /\ ret'.id = p /\ owner'[p] = Free ]_vars

\* Without a backend the manager is the refuse-only baseline: no block is ever
\* evicted, and a call that needs a page is refused only when none is Free.
RefuseWithoutBackend ==
  [][ ~hasBackend =>
        /\ \A i \in DOMAIN blocks' : ~blocks'[i].spilled
        /\ ret'.op \in {"NewBlock", "Alloc"} /\ ~ret'.ok => FreePages(owner) = {} ]_vars

\* The manager implements the document store: a block's payload is the live
\* one while it is resident and the backend's copy while it is spilled.
Contents ==
  [i \in DOMAIN blocks |->
     IF ~blocks[i].spilled THEN blocks[i].data
     ELSE IF i \in DOMAIN store THEN store[i] ELSE NoData]

Doc == INSTANCE DocStore WITH doc <- Contents, issued <- nextID
DocSpec == Doc!Spec
=============================================================================
