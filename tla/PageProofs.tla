----------------------------- MODULE PageProofs -----------------------------
(* Proofs about the two machines over the page table, for every table.       *)
(*                                                                           *)
(* SpillManager, for every payload set and bound: a call passes through      *)
(* intermediate memories (after the eviction, before the claim), so the      *)
(* inductive invariant is a predicate on a memory (table, registry, backend) *)
(* and the clock and id counter, and each lemma takes one step inside a call *)
(* from a sound memory to a sound memory.                                    *)
(*                                                                           *)
(* PagePool, for up to 255 pages: a page passes from Free to one holder and  *)
(* back, a run is refused only when there is none, and the 8-bit arithmetic  *)
(* of the Z80 port decides as the Go methods do.                             *)
EXTENDS SpillManager, PagePool, FiniteSetTheorems, WellFoundedInduction, TLAPS

\* Types of one memory; ids below n have been issued.
Typed(o, bs, st, n) ==
  /\ o \in [Page -> Tag]
  /\ DOMAIN bs \subseteq 0 .. n - 1
  /\ \A i \in DOMAIN bs : bs[i] \in Block
  /\ \A i \in DOMAIN st : st[i] \in Data

\* A resident block has a payload and a page of its own, tagged DOC.
Placed(o, bs) ==
  /\ \A i \in DOMAIN bs : ~bs[i].spilled =>
       bs[i].page \in Page /\ o[bs[i].page] = OwnerDoc /\ bs[i].data \in Data
  /\ \A i, j \in DOMAIN bs :
       ~bs[i].spilled /\ ~bs[j].spilled /\ bs[i].page = bs[j].page => i = j

\* A page tagged DOC is the page of a resident block.
Accounted(o, bs) ==
  \A p \in Page : o[p] = OwnerDoc =>
    \E i \in DOMAIN bs : ~bs[i].spilled /\ bs[i].page = p

\* The backend holds the spilled blocks and no other.
Backed(bs, st) == \A i : i \in DOMAIN st <=> i \in DOMAIN bs /\ bs[i].spilled

\* Stamps are distinct and not ahead of the clock s.
Clocked(bs, s) ==
  /\ \A i \in DOMAIN bs : bs[i].lastUsed <= s
  /\ \A i, j \in DOMAIN bs : bs[i].lastUsed = bs[j].lastUsed => i = j

Sound(o, bs, st, s, n) ==
  /\ Typed(o, bs, st, n)
  /\ Placed(o, bs)
  /\ Accounted(o, bs)
  /\ Backed(bs, st)
  /\ Clocked(bs, s)

IInv ==
  /\ Sound(owner, blocks, store, seq, nextID)
  /\ seq \in Nat /\ nextID \in 0 .. MaxIds /\ spills \in Nat /\ reloads \in Nat

-----------------------------------------------------------------------------
\* The booted, empty manager is sound.
LEMMA InitSound == Init => IInv
  BY PagesAssumption, ManagerAssumption
  DEF Init, IInv, Sound, Typed, Placed, Accounted, Backed, Clocked, BootTable,
      Tag, Free, Reserved, OwnerDoc

\* ensureFreePage writes one block out: the memory after it is sound.
LEMMA EvictSound ==
  ASSUME IInv, NEW v \in Resident
  PROVE  /\ Sound(Evicted(v).owner, Evicted(v).blocks, Evicted(v).store, seq, nextID)
         /\ Evicted(v).spills \in Nat
<1> DEFINE o == PageReleased(v)
           bs == MarkedSpilled(v)
           st == Stored(store, v, VictimData(v))
<1>1. /\ Evicted(v).owner = o
      /\ Evicted(v).blocks = bs
      /\ Evicted(v).store = st
      /\ Evicted(v).spills = spills + 1
  BY DEF Evicted
<1>2. /\ v \in DOMAIN blocks
      /\ ~blocks[v].spilled
      /\ blocks[v] \in Block
      /\ blocks[v].page \in Page
      /\ blocks[v].data \in Data
  BY DEF IInv, Sound, Typed, Placed, Resident
<1>3. /\ DOMAIN bs = DOMAIN blocks
      /\ \A i \in DOMAIN blocks \ {v} : bs[i] = blocks[i]
      /\ bs[v] \in Block
      /\ bs[v].spilled
      /\ bs[v].lastUsed = blocks[v].lastUsed
  BY <1>2 DEF MarkedSpilled, Block, NoPage
<1>4. /\ DOMAIN st = DOMAIN store \cup {v}
      /\ st[v] = blocks[v].data
      /\ \A i \in DOMAIN store \ {v} : st[i] = store[i]
  BY DEF Stored, With, VictimData
<1>5. /\ o \in [Page -> Tag]
      /\ o[blocks[v].page] = Free
      /\ \A p \in Page \ {blocks[v].page} : o[p] = owner[p]
  BY <1>2 DEF IInv, Sound, Typed, PageReleased, Tag, Free
<1> HIDE DEF o, bs, st
<1>6. Typed(o, bs, st, nextID)
  BY <1>2, <1>3, <1>4, <1>5 DEF IInv, Sound, Typed
<1>7. Placed(o, bs)
  BY <1>2, <1>3, <1>5 DEF IInv, Sound, Typed, Placed
<1>8. Accounted(o, bs)
  BY <1>2, <1>3, <1>5 DEF IInv, Sound, Placed, Accounted, Free, OwnerDoc
<1>9. Backed(bs, st)
  BY <1>2, <1>3, <1>4 DEF IInv, Sound, Backed
<1>10. Clocked(bs, seq)
  BY <1>2, <1>3 DEF IInv, Sound, Clocked
<1> QED
  BY <1>1, <1>6, <1>7, <1>8, <1>9, <1>10 DEF Sound, IInv

\* Whatever ensureFreePage did, it left a sound memory.
LEMMA EnsureSound ==
  ASSUME IInv, NEW P, NEW m \in EnsureFreePage(P)
  PROVE  Sound(m.owner, m.blocks, m.store, seq, nextID) /\ m.spills \in Nat
<1>1. CASE m = Now
  BY <1>1 DEF Now, IInv
<1>2. CASE \E v \in Resident : m = Evicted(v)
  BY <1>2, EvictSound
<1> QED
  BY <1>1, <1>2 DEF EnsureFreePage

\* A Free page is nobody's: it can be claimed for a new block ...
LEMMA ClaimNewSound ==
  ASSUME NEW o, NEW bs, NEW st, NEW s \in Nat, NEW n \in Nat,
         NEW p \in Page, NEW d \in Data,
         Sound(o, bs, st, s, n), LowestFree(o, p)
  PROVE  Sound([o EXCEPT ![p] = OwnerDoc],
               With(bs, n, [page |-> p, data |-> d, lastUsed |-> s + 1,
                            spilled |-> FALSE]),
               st, s + 1, n + 1)
<1> DEFINE b  == [page |-> p, data |-> d, lastUsed |-> s + 1, spilled |-> FALSE]
           o2 == [o EXCEPT ![p] = OwnerDoc]
           bs2 == With(bs, n, b)
<1>1. /\ b \in Block /\ ~b.spilled /\ b.page = p /\ b.data = d /\ b.lastUsed = s + 1
  BY DEF Block
<1>2. /\ DOMAIN bs2 = DOMAIN bs \cup {n}
      /\ bs2[n] = b
      /\ n \notin DOMAIN bs
      /\ \A i \in DOMAIN bs : bs2[i] = bs[i]
  BY DEF With, Sound, Typed
<1>3. /\ o[p] = Free
      /\ o2 \in [Page -> Tag]
      /\ o2[p] = OwnerDoc
      /\ \A q \in Page \ {p} : o2[q] = o[q]
  BY DEF Sound, Typed, LowestFree, FreePages, Tag, OwnerDoc
<1> HIDE DEF b, o2, bs2
<1>4. Typed(o2, bs2, st, n + 1)
  <2>1. DOMAIN bs2 \subseteq 0 .. n
    BY <1>2 DEF Sound, Typed
  <2> QED
    BY <1>1, <1>2, <1>3, <2>1 DEF Sound, Typed
<1>5. Placed(o2, bs2)
  BY <1>1, <1>2, <1>3 DEF Sound, Placed, Free, OwnerDoc
<1>6. Accounted(o2, bs2)
  BY <1>1, <1>2, <1>3 DEF Sound, Accounted
<1>7. Backed(bs2, st)
  BY <1>1, <1>2 DEF Sound, Backed
<1>8. Clocked(bs2, s + 1)
  BY <1>1, <1>2 DEF Sound, Typed, Block, Clocked
<1> QED
  BY <1>4, <1>5, <1>6, <1>7, <1>8 DEF Sound, b, o2, bs2

\* ... for a block that is faulted back in ...
LEMMA ClaimReloadSound ==
  ASSUME NEW o, NEW bs, NEW st, NEW s \in Nat, NEW n \in Nat,
         NEW p \in Page, NEW id \in DOMAIN bs,
         Sound(o, bs, st, s, n), LowestFree(o, p), bs[id].spilled
  PROVE  Sound([o EXCEPT ![p] = OwnerDoc],
               [bs EXCEPT ![id] = [page |-> p, data |-> st[id],
                                   lastUsed |-> s + 1, spilled |-> FALSE]],
               Discarded(st, id), s + 1, n)
<1> DEFINE b  == [page |-> p, data |-> st[id], lastUsed |-> s + 1, spilled |-> FALSE]
           o2 == [o EXCEPT ![p] = OwnerDoc]
           bs2 == [bs EXCEPT ![id] = b]
           st2 == Discarded(st, id)
<1>1. /\ id \in DOMAIN st /\ st[id] \in Data
  BY DEF Sound, Typed, Backed
<1>2. /\ b \in Block /\ ~b.spilled /\ b.page = p /\ b.data = st[id]
      /\ b.lastUsed = s + 1
  BY <1>1 DEF Block
<1>3. /\ DOMAIN bs2 = DOMAIN bs
      /\ bs2[id] = b
      /\ \A i \in DOMAIN bs \ {id} : bs2[i] = bs[i]
  OBVIOUS
<1>4. /\ DOMAIN st2 = DOMAIN st \ {id}
      /\ \A i \in DOMAIN st \ {id} : st2[i] = st[i]
  BY DEF Discarded, Without
<1>5. /\ o[p] = Free
      /\ o2 \in [Page -> Tag]
      /\ o2[p] = OwnerDoc
      /\ \A q \in Page \ {p} : o2[q] = o[q]
  BY DEF Sound, Typed, LowestFree, FreePages, Tag, OwnerDoc
<1> HIDE DEF b, o2, bs2, st2
<1>6. Typed(o2, bs2, st2, n)
  BY <1>2, <1>3, <1>4, <1>5 DEF Sound, Typed
<1>7. Placed(o2, bs2)
  BY <1>1, <1>2, <1>3, <1>5 DEF Sound, Placed, Free, OwnerDoc
<1>8. Accounted(o2, bs2)
  BY <1>2, <1>3, <1>5 DEF Sound, Accounted
<1>9. Backed(bs2, st2)
  BY <1>2, <1>3, <1>4 DEF Sound, Backed
<1>10. Clocked(bs2, s + 1)
  BY <1>2, <1>3 DEF Sound, Typed, Block, Clocked
<1> QED
  BY <1>6, <1>7, <1>8, <1>9, <1>10 DEF Sound, b, o2, bs2, st2

\* ... or for the assembler's working set.
LEMMA ClaimWorkSound ==
  ASSUME NEW o, NEW bs, NEW st, NEW s, NEW n, NEW p \in Page, NEW t \in WorkTags,
         Sound(o, bs, st, s, n), LowestFree(o, p)
  PROVE  Sound([o EXCEPT ![p] = t], bs, st, s, n)
<1> DEFINE o2 == [o EXCEPT ![p] = t]
<1>1. /\ o[p] = Free
      /\ o2 \in [Page -> Tag]
      /\ o2[p] = t /\ t # OwnerDoc
      /\ \A q \in Page \ {p} : o2[q] = o[q]
  BY ManagerAssumption DEF Sound, Typed, LowestFree, FreePages
<1> HIDE DEF o2
<1>2. Typed(o2, bs, st, n) /\ Backed(bs, st) /\ Clocked(bs, s)
  BY <1>1 DEF Sound, Typed
<1>3. Placed(o2, bs)
  BY <1>1 DEF Sound, Placed, Free, OwnerDoc
<1>4. Accounted(o2, bs)
  BY <1>1 DEF Sound, Accounted
<1> QED
  BY <1>2, <1>3, <1>4 DEF Sound, o2

\* A page that is not a block's goes back to Free.
LEMMA ReleaseWorkSound ==
  ASSUME NEW o, NEW bs, NEW st, NEW s, NEW n, NEW p \in Page,
         Sound(o, bs, st, s, n), o[p] # OwnerDoc
  PROVE  Sound([o EXCEPT ![p] = Free], bs, st, s, n)
<1> DEFINE o2 == [o EXCEPT ![p] = Free]
<1>1. /\ o2 \in [Page -> Tag]
      /\ o2[p] = Free
      /\ \A q \in Page \ {p} : o2[q] = o[q]
  BY DEF Sound, Typed, Tag, Free
<1> HIDE DEF o2
<1>2. Typed(o2, bs, st, n) /\ Backed(bs, st) /\ Clocked(bs, s)
  BY <1>1 DEF Sound, Typed
<1>3. Placed(o2, bs)
  BY <1>1 DEF Sound, Placed
<1>4. Accounted(o2, bs)
  BY <1>1 DEF Sound, Accounted, Free, OwnerDoc
<1> QED
  BY <1>2, <1>3, <1>4 DEF Sound, o2

\* Freeing a block removes it, its page or its copy, and nothing else.
LEMMA FreeBlockSound ==
  ASSUME IInv, NEW id, FreeBlock(id)
  PROVE  Sound(owner', blocks', store', seq, nextID)
<1>1. id \in DOMAIN blocks /\ blocks' = Without(blocks, id)
  BY DEF FreeBlock
<1>2. /\ DOMAIN blocks' = DOMAIN blocks \ {id}
      /\ \A i \in DOMAIN blocks \ {id} : blocks'[i] = blocks[i]
  BY <1>1 DEF Without
<1>3. CASE blocks[id].spilled
  <2>1. /\ owner' = owner
        /\ DOMAIN store' = DOMAIN store \ {id}
        /\ \A i \in DOMAIN store \ {id} : store'[i] = store[i]
    BY <1>3 DEF FreeBlock, Discarded, Without
  <2>2. Typed(owner', blocks', store', nextID)
    BY <1>2, <2>1 DEF IInv, Sound, Typed
  <2>3. Placed(owner', blocks') /\ Clocked(blocks', seq) /\ Backed(blocks', store')
    BY <1>2, <2>1 DEF IInv, Sound, Placed, Clocked, Backed
  <2>4. Accounted(owner', blocks')
    BY <1>2, <1>3, <2>1 DEF IInv, Sound, Accounted
  <2> QED
    BY <2>2, <2>3, <2>4 DEF Sound
<1>4. CASE ~blocks[id].spilled
  <2> DEFINE p == blocks[id].page
  <2>1. /\ p \in Page /\ owner' = [owner EXCEPT ![p] = Free] /\ store' = store
    BY <1>4 DEF FreeBlock, Carries
  <2>2. /\ owner' \in [Page -> Tag]
        /\ owner'[p] = Free
        /\ \A q \in Page \ {p} : owner'[q] = owner[q]
    BY <2>1 DEF IInv, Sound, Typed, Tag, Free
  <2>3. Typed(owner', blocks', store', nextID)
    BY <1>2, <2>1, <2>2 DEF IInv, Sound, Typed
  <2>4. Placed(owner', blocks')
    BY <1>1, <1>2, <1>4, <2>2 DEF IInv, Sound, Placed
  <2>5. Accounted(owner', blocks')
    BY <1>2, <2>2 DEF IInv, Sound, Accounted, Free, OwnerDoc
  <2>6. Backed(blocks', store') /\ Clocked(blocks', seq)
    BY <1>2, <1>4, <2>1 DEF IInv, Sound, Backed, Clocked
  <2> QED
    BY <2>3, <2>4, <2>5, <2>6 DEF Sound
<1> QED
  BY <1>3, <1>4

-----------------------------------------------------------------------------
\* Every call, whichever of its steps failed, keeps the manager sound.
LEMMA StepSound == IInv /\ [Next]_vars => IInv'
<1> SUFFICES ASSUME IInv, [Next]_vars PROVE IInv'
  OBVIOUS
<1>1. ASSUME NEW d \in Data, NewBlock(d) PROVE IInv'
  <2>1. PICK m \in EnsureFreePage({}), p \in Page :
          /\ LowestFree(m.owner, p)
          /\ owner' = [m.owner EXCEPT ![p] = OwnerDoc]
          /\ blocks' = With(m.blocks, nextID,
                            [page |-> p, data |-> d, lastUsed |-> Tick,
                             spilled |-> FALSE])
          /\ store' = m.store
          /\ spills' = m.spills
    BY <1>1 DEF NewBlock
  <2>2. Sound(m.owner, m.blocks, m.store, seq, nextID) /\ m.spills \in Nat
    BY EnsureSound
  <2>3. Sound(owner', blocks', store', seq + 1, nextID + 1)
    BY <2>1, <2>2, ClaimNewSound DEF IInv, Tick
  <2> QED
    BY <1>1, <2>1, <2>2, <2>3, ManagerAssumption DEF NewBlock, IInv, Tick
<1>2. ASSUME NEW id, BlockDataHit(id) PROVE IInv'
  <2>1. /\ id \in DOMAIN blocks
        /\ blocks' = [blocks EXCEPT ![id] = [@ EXCEPT !.lastUsed = seq + 1]]
        /\ UNCHANGED <<owner, store, nextID, spills, reloads>>
        /\ seq' = seq + 1
    BY <1>2 DEF BlockDataHit, Resident, Touched, Tick
  <2>2. /\ DOMAIN blocks' = DOMAIN blocks
        /\ \A i \in DOMAIN blocks \ {id} : blocks'[i] = blocks[i]
        /\ blocks'[id] \in Block
        /\ blocks'[id].lastUsed = seq + 1
        /\ blocks'[id].page = blocks[id].page
        /\ blocks'[id].data = blocks[id].data
        /\ blocks'[id].spilled = blocks[id].spilled
    BY <2>1 DEF IInv, Sound, Typed, Block
  <2>3. Typed(owner', blocks', store', nextID')
    BY <2>1, <2>2 DEF IInv, Sound, Typed
  <2>4. Placed(owner', blocks') /\ Accounted(owner', blocks')
    BY <2>1, <2>2 DEF IInv, Sound, Placed, Accounted
  <2>5. Backed(blocks', store')
    BY <2>1, <2>2 DEF IInv, Sound, Backed
  <2>6. Clocked(blocks', seq')
    BY <2>1, <2>2 DEF IInv, Sound, Typed, Block, Clocked
  <2> QED
    BY <2>1, <2>3, <2>4, <2>5, <2>6 DEF IInv, Sound
<1>3. ASSUME NEW id, BlockDataReload(id) PROVE IInv'
  <2>1. PICK m \in EnsureFreePage({id}), p \in Page :
          /\ LowestFree(m.owner, p)
          /\ id \in DOMAIN m.store
          /\ owner' = [m.owner EXCEPT ![p] = OwnerDoc]
          /\ blocks' = [m.blocks EXCEPT
                          ![id] = [page |-> p, data |-> m.store[id],
                                   lastUsed |-> Tick, spilled |-> FALSE]]
          /\ store' = Discarded(m.store, id)
          /\ spills' = m.spills
    BY <1>3 DEF BlockDataReload
  <2>2. Sound(m.owner, m.blocks, m.store, seq, nextID) /\ m.spills \in Nat
    BY EnsureSound
  <2>3. id \in DOMAIN m.blocks /\ m.blocks[id].spilled
    BY <2>1, <2>2 DEF Sound, Backed
  <2>4. seq \in Nat /\ nextID \in Nat
    BY DEF IInv
  <2>5. Sound([m.owner EXCEPT ![p] = OwnerDoc],
              [m.blocks EXCEPT ![id] = [page |-> p, data |-> m.store[id],
                                        lastUsed |-> seq + 1, spilled |-> FALSE]],
              Discarded(m.store, id), seq + 1, nextID)
    BY <2>1, <2>2, <2>3, <2>4, ClaimReloadSound
  <2>6. Sound(owner', blocks', store', seq + 1, nextID)
    BY <2>1, <2>5 DEF Tick
  <2>7. seq' = seq + 1 /\ reloads' = reloads + 1 /\ nextID' = nextID
    BY <1>3 DEF BlockDataReload, Tick
  <2> QED
    BY <2>1, <2>2, <2>6, <2>7 DEF IInv
<1>4. ASSUME NEW id, BlockDataUndone(id) PROVE IInv'
  <2>1. PICK m \in EnsureFreePage({id}) :
          /\ owner' = m.owner
          /\ blocks' = m.blocks
          /\ store' = m.store
          /\ spills' = m.spills
    BY <1>4 DEF BlockDataUndone, AfterFailedLoad, GrabUndone
  <2> QED
    BY <1>4, <2>1, EnsureSound DEF BlockDataUndone, IInv
<1>5. ASSUME NEW id, FreeBlock(id) PROVE IInv'
  BY <1>5, FreeBlockSound DEF FreeBlock, IInv
<1>6. ASSUME NEW t \in WorkTags, Alloc(t) PROVE IInv'
  <2>1. PICK m \in EnsureFreePage({}), p \in Page :
          /\ LowestFree(m.owner, p)
          /\ owner' = [m.owner EXCEPT ![p] = t]
          /\ blocks' = m.blocks
          /\ store' = m.store
          /\ spills' = m.spills
    BY <1>6 DEF Alloc
  <2>2. Sound(owner', blocks', store', seq, nextID) /\ m.spills \in Nat
    BY <2>1, EnsureSound, ClaimWorkSound
  <2> QED
    BY <1>6, <2>1, <2>2 DEF Alloc, IInv
<1>7. ASSUME NEW p \in Page, NEW t \in WorkTags, FreePage(p, t) PROVE IInv'
  <2>1. owner[p] # OwnerDoc
    BY <1>7, ManagerAssumption DEF FreePage, Carries
  <2> QED
    BY <1>7, <2>1, ReleaseWorkSound DEF FreePage, IInv
<1>8. ASSUME NEW op, NEW id, Refused(op, id) PROVE IInv'
  BY <1>8 DEF Refused, IInv
<1>9. CASE UNCHANGED vars
  BY <1>9 DEF vars, IInv
<1> QED
  BY <1>1, <1>2, <1>3, <1>4, <1>5, <1>6, <1>7, <1>8, <1>9
  DEF Next, Call, NewBlockRefused, BlockDataRefused, FreeBlockRefused, AllocRefused,
      FreePageRefused

\* The inductive invariant holds in every reachable state.
THEOREM InductiveInvariant == Spec => []IInv
  BY InitSound, StepSound, PTL DEF Spec

\* Type correctness: every block record and every backend copy is well formed
\* after any sequence of calls, refusals and failed backend operations.
THEOREM TypeCorrect == Spec => []TypeOK
<1> DEFINE Configured == hasBackend \in Backends
<1>1. IInv /\ Configured => TypeOK
  BY DEF IInv, Sound, Typed, Backed, TypeOK
<1>2. Init => Configured
  BY DEF Init
<1>3. Configured /\ [Next]_vars => Configured'
  BY DEF Next, vars
<1> QED
  BY <1>1, <1>2, <1>3, InductiveInvariant, PTL DEF Spec

\* No page leaks and none is shared, whichever step of a spill or a reload
\* failed.
THEOREM DocPagesAlwaysOwned == Spec => []DocPagesOwned
<1>1. IInv => DocPagesOwned
  BY DEF IInv, Sound, Typed, Placed, Accounted, DocPagesOwned, Resident
<1> QED
  BY <1>1, InductiveInvariant, PTL

\* The backend holds the spilled blocks and nothing else.
THEOREM BackendAlwaysExact == Spec => []BackendExact
<1>1. IInv => BackendExact
  BY DEF IInv, Sound, Backed, BackendExact, Resident
<1> QED
  BY <1>1, InductiveInvariant, PTL

-----------------------------------------------------------------------------
(* Action properties. *)

\* ensureFreePage issues and retires no id.
LEMMA EnsureKeepsIds ==
  ASSUME NEW P, NEW m \in EnsureFreePage(P)
  PROVE  DOMAIN m.blocks = DOMAIN blocks
<1>1. CASE m = Now
  BY <1>1 DEF Now
<1>2. CASE \E v \in Resident : m = Evicted(v)
  <2>1. PICK v \in Resident : m = Evicted(v)
    BY <1>2
  <2>2. m.blocks = MarkedSpilled(v)
    BY <2>1 DEF Evicted
  <2> QED
    BY <2>2 DEF MarkedSpilled
<1> QED
  BY <1>1, <1>2 DEF EnsureFreePage

\* A step evicts only inside ensureFreePage: the blocks a memory loses from RAM
\* are lost because none was Free, there is one, and it was the coldest.
LEMMA EvictionIsLazy ==
  ASSUME IInv, NEW P, NEW m \in EnsureFreePage(P), P \cap Resident = {},
         NEW v \in Resident, m.blocks[v].spilled
  PROVE  /\ FreePages(owner) = {}
         /\ hasBackend
         /\ m.spills = spills + 1
         /\ \A i \in Resident \ {v} :
              blocks[v].lastUsed < blocks[i].lastUsed /\ ~m.blocks[i].spilled
<1>1. m # Now
  BY DEF Now, Resident
<1>2. /\ FreePages(owner) = {} /\ hasBackend
      /\ \E u \in Resident : Coldest(u, P) /\ m = Evicted(u)
  BY <1>1 DEF EnsureFreePage
<1>3. PICK u \in Resident : Coldest(u, P) /\ m = Evicted(u)
  BY <1>2
<1>4. /\ m.blocks = MarkedSpilled(u)
      /\ m.spills = spills + 1
  BY <1>3 DEF Evicted
<1>5. /\ u \in DOMAIN blocks
      /\ \A i \in DOMAIN blocks \ {u} : m.blocks[i] = blocks[i]
  BY <1>4 DEF MarkedSpilled, Resident
<1>6. u = v
  BY <1>5 DEF Resident
<1>7. \A i \in Resident \ {v} : blocks[v].lastUsed < blocks[i].lastUsed
  <2> SUFFICES ASSUME NEW i \in Resident \ {v}
               PROVE  blocks[v].lastUsed < blocks[i].lastUsed
    OBVIOUS
  <2>1. blocks[v].lastUsed <= blocks[i].lastUsed
    BY <1>3, <1>6 DEF Coldest
  <2>2. blocks[v].lastUsed # blocks[i].lastUsed
    BY DEF IInv, Sound, Clocked, Resident
  <2>3. blocks[v].lastUsed \in Nat /\ blocks[i].lastUsed \in Nat
    BY DEF IInv, Sound, Typed, Block, Resident
  <2> QED
    BY <2>1, <2>2, <2>3
<1> QED
  BY <1>2, <1>4, <1>5, <1>6, <1>7 DEF Resident

\* The eviction condition of LazySpill, for one block.
LazyFor(v) ==
  v \in DOMAIN blocks' /\ blocks'[v].spilled =>
    /\ FreePages(owner) = {}
    /\ hasBackend
    /\ spills' = spills + 1
    /\ \A i \in Resident \ {v} :
         /\ blocks[v].lastUsed < blocks[i].lastUsed
         /\ ~blocks'[i].spilled

\* A block that a step spills was spilled by its ensureFreePage.
LEMMA StepIsLazy ==
  ASSUME IInv, [Next]_vars, NEW v \in Resident
  PROVE  LazyFor(v)
<1> SUFFICES ASSUME v \in DOMAIN blocks', blocks'[v].spilled
             PROVE  LazyFor(v)
  BY DEF LazyFor
<1>0. /\ v \in DOMAIN blocks /\ ~blocks[v].spilled
      /\ DOMAIN blocks \subseteq 0 .. nextID - 1 /\ nextID \in Nat
  BY DEF Resident, IInv, Sound, Typed
<1>1. ASSUME NEW d \in Data, NewBlock(d) PROVE LazyFor(v)
  <2>1. PICK m \in EnsureFreePage({}), p \in Page :
          /\ blocks' = With(m.blocks, nextID,
                            [page |-> p, data |-> d, lastUsed |-> Tick,
                             spilled |-> FALSE])
          /\ spills' = m.spills
    BY <1>1 DEF NewBlock
  <2>2. Typed(m.owner, m.blocks, m.store, nextID)
    BY EnsureSound DEF Sound
  <2>3. \A i \in DOMAIN blocks : i # nextID
    BY <1>0
  <2>4. \A i \in DOMAIN m.blocks : i # nextID /\ blocks'[i] = m.blocks[i]
    BY <2>1, <2>2, <1>0 DEF With, Typed
  <2>5. DOMAIN m.blocks = DOMAIN blocks
    BY EnsureKeepsIds
  <2>6. \A i \in Resident : blocks'[i] = m.blocks[i]
    BY <2>4, <2>5 DEF Resident
  <2>7. {} \cap Resident = {}
    OBVIOUS
  <2> QED
    BY <2>1, <2>6, <2>7, EvictionIsLazy DEF LazyFor
<1>2. ASSUME NEW id, BlockDataReload(id) PROVE LazyFor(v)
  <2>1. PICK m \in EnsureFreePage({id}), p \in Page :
          /\ blocks' = [m.blocks EXCEPT
                          ![id] = [page |-> p, data |-> m.store[id],
                                   lastUsed |-> Tick, spilled |-> FALSE]]
          /\ spills' = m.spills
    BY <1>2 DEF BlockDataReload
  <2>2. id \in DOMAIN blocks /\ id \notin Resident
    BY <1>2 DEF BlockDataReload, Resident
  <2>3. DOMAIN m.blocks = DOMAIN blocks
    BY EnsureKeepsIds
  <2>4. \A i \in Resident : blocks'[i] = m.blocks[i]
    BY <2>1, <2>2, <2>3 DEF Resident
  <2> QED
    BY <2>1, <2>2, <2>4, EvictionIsLazy DEF LazyFor
<1>3. ASSUME NEW id, BlockDataUndone(id) PROVE LazyFor(v)
  <2>1. PICK m \in EnsureFreePage({id}) : blocks' = m.blocks /\ spills' = m.spills
    BY <1>3 DEF BlockDataUndone
  <2>2. {id} \cap Resident = {}
    BY <1>3 DEF BlockDataUndone, Resident
  <2> QED
    BY <2>1, <2>2, EvictionIsLazy DEF LazyFor
<1>4. ASSUME NEW t \in WorkTags, Alloc(t) PROVE LazyFor(v)
  <2>1. PICK m \in EnsureFreePage({}) : blocks' = m.blocks /\ spills' = m.spills
    BY <1>4 DEF Alloc
  <2> QED
    BY <2>1, EvictionIsLazy DEF LazyFor
<1>5. ASSUME NEW id, BlockDataHit(id) PROVE LazyFor(v)
  <2>1. blocks'[v].spilled = blocks[v].spilled
    BY <1>0, <1>5 DEF BlockDataHit, Touched, IInv, Sound, Typed, Block, Resident
  <2> QED
    BY <1>0, <2>1
<1>6. ASSUME NEW id, FreeBlock(id) PROVE LazyFor(v)
  BY <1>0, <1>6 DEF FreeBlock, Without
<1>7. ASSUME blocks' = blocks PROVE LazyFor(v)
  BY <1>0, <1>7
<1> QED
  BY <1>1, <1>2, <1>3, <1>4, <1>5, <1>6, <1>7
  DEF Next, Call, vars, Refused, NewBlockRefused, BlockDataRefused, FreeBlockRefused,
      AllocRefused, FreePageRefused, FreePage

\* Spilling is lazy: only when no page is Free, one block at a time, and always
\* the one least recently used (design 4.5).
THEOREM SpillsAreLazy == Spec => LazySpill
<1>1. IInv /\ [Next]_vars =>
        [\A v \in Resident :
           v \in DOMAIN blocks' /\ blocks'[v].spilled =>
             /\ FreePages(owner) = {}
             /\ spills' = spills + 1
             /\ \A i \in Resident \ {v} :
                  /\ blocks[v].lastUsed < blocks[i].lastUsed
                  /\ ~blocks'[i].spilled]_vars
  BY StepIsLazy DEF LazyFor
<1> QED
  BY <1>1, InductiveInvariant, PTL DEF Spec, LazySpill

-----------------------------------------------------------------------------
(* The assembler's pages are never evicted. *)

\* An eviction frees a DOC page, so it leaves the assembler's pages alone.
LEMMA EnsureKeepsWork ==
  ASSUME IInv, NEW P, NEW m \in EnsureFreePage(P), NEW p \in Page, owner[p] \in WorkTags
  PROVE  m.owner[p] = owner[p]
<1>1. CASE m = Now
  BY <1>1 DEF Now
<1>2. CASE \E v \in Resident : m = Evicted(v)
  <2>0. PICK v \in Resident : m = Evicted(v)
    BY <1>2
  <2>1. m.owner = [owner EXCEPT ![blocks[v].page] = Free]
    BY <2>0 DEF Evicted, PageReleased
  <2>2. owner[blocks[v].page] = OwnerDoc
    BY DEF IInv, Sound, Placed, Resident
  <2>3. OwnerDoc \notin WorkTags /\ owner \in [Page -> Tag]
    BY ManagerAssumption DEF IInv, Sound, Typed
  <2> QED
    BY <2>1, <2>2, <2>3
<1> QED
  BY <1>1, <1>2 DEF EnsureFreePage

\* A page is claimed from the Free ones only, which are nobody's.
LEMMA ClaimKeepsWork ==
  ASSUME IInv, NEW P, NEW m \in EnsureFreePage(P), NEW q \in Page, LowestFree(m.owner, q),
         NEW t, owner' = [m.owner EXCEPT ![q] = t],
         NEW p \in Page, owner[p] \in WorkTags
  PROVE  owner'[p] = owner[p]
<1>1. m.owner[p] = owner[p]
  BY EnsureKeepsWork
<1>2. m.owner[q] = Free /\ Free \notin WorkTags
  BY ManagerAssumption DEF LowestFree, FreePages, Free, FirstOwnerTag
<1>3. m.owner \in [Page -> Tag]
  BY EnsureSound DEF Sound, Typed
<1> QED
  BY <1>1, <1>2, <1>3

\* What a step may do to a page of the assembler's: free it on its request.
LEMMA StepPinsWork ==
  ASSUME IInv, Next, NEW p \in Page, owner[p] \in WorkTags, owner'[p] # owner[p]
  PROVE  ret'.op = "Free" /\ ret'.ok /\ ret'.id = p /\ owner'[p] = Free
<1>1. ASSUME NEW d, NewBlock(d) PROVE FALSE
  BY <1>1, ClaimKeepsWork DEF NewBlock
<1>2. ASSUME NEW id, BlockDataReload(id) PROVE FALSE
  BY <1>2, ClaimKeepsWork DEF BlockDataReload
<1>3. ASSUME NEW id, BlockDataUndone(id) PROVE FALSE
  BY <1>3, EnsureKeepsWork DEF BlockDataUndone, GrabUndone
<1>4. ASSUME NEW t, Alloc(t) PROVE FALSE
  BY <1>4, ClaimKeepsWork DEF Alloc
<1>5. ASSUME NEW id, FreeBlock(id) PROVE FALSE
  <2>1. owner' = [owner EXCEPT ![blocks[id].page] = Free] /\ owner[blocks[id].page] = OwnerDoc
    BY <1>5 DEF FreeBlock, Carries
  <2>2. OwnerDoc \notin WorkTags
    BY ManagerAssumption
  <2> QED
    BY <2>1, <2>2 DEF IInv, Sound, Typed
<1>6. ASSUME NEW q \in Page, NEW t, FreePage(q, t)
      PROVE  ret'.op = "Free" /\ ret'.ok /\ ret'.id = p /\ owner'[p] = Free
  <2>1. q = p
    BY <1>6 DEF FreePage, IInv, Sound, Typed
  <2> QED
    BY <1>6, <2>1 DEF FreePage, Answer, IInv, Sound, Typed
<1>7. ASSUME NEW op, NEW id, Refused(op, id) PROVE FALSE
  BY <1>7 DEF Refused
<1>8. ASSUME NEW id, BlockDataHit(id) PROVE FALSE
  BY <1>8 DEF BlockDataHit
<1> QED
  BY <1>1, <1>2, <1>3, <1>4, <1>5, <1>6, <1>7, <1>8
  DEF Next, Call, NewBlockRefused, BlockDataRefused, FreeBlockRefused, AllocRefused,
      FreePageRefused

\* A page of the assembler's working set changes hands only through Free of
\* that very page: no shortage of memory evicts it (spill.go: IN/OUT/scratch
\* pages "are never evicted").
THEOREM WorkPagesAlwaysPinned == Spec => WorkPagesPinned
<1>1. IInv /\ [Next]_vars =>
        [\A p \in Page : owner[p] \in WorkTags /\ owner'[p] # owner[p] =>
           ret'.op = "Free" /\ ret'.ok /\ ret'.id = p /\ owner'[p] = Free]_vars
  BY StepPinsWork
<1> QED
  BY <1>1, InductiveInvariant, PTL DEF Spec, WorkPagesPinned

-----------------------------------------------------------------------------
(* Without a backend nothing is spilled, so nothing is refused needlessly. *)

NoneSpilled == ~hasBackend => \A i \in DOMAIN blocks : ~blocks[i].spilled

\* Without a backend ensureFreePage does nothing, or refuses for want of a page.
LEMMA EnsureWithoutBackend ==
  ASSUME ~hasBackend
  PROVE  /\ \A P : \A m \in EnsureFreePage(P) : m = Now
         /\ \A P : EnsureFails(P) => FreePages(owner) = {}
  BY DEF EnsureFreePage, EnsureFails, StoreMayFail

\* A step without a backend spills nothing and refuses a page only for want of one.
LEMMA StepWithoutBackend ==
  ASSUME IInv, NoneSpilled, Next, ~hasBackend
  PROVE  /\ \A i \in DOMAIN blocks' : ~blocks'[i].spilled
         /\ ret'.op \in {"NewBlock", "Alloc"} /\ ~ret'.ok => FreePages(owner) = {}
<1> DEFINE Kept == \A i \in DOMAIN blocks' : ~blocks'[i].spilled
           Reason == ret'.op \in {"NewBlock", "Alloc"} /\ ~ret'.ok => FreePages(owner) = {}
<1>0. \A i \in DOMAIN blocks : ~blocks[i].spilled /\ blocks[i] \in Block
  BY DEF NoneSpilled, IInv, Sound, Typed
<1>1. ASSUME NEW d, NewBlock(d) PROVE Kept /\ Reason
  <2>1. PICK m \in EnsureFreePage({}), p \in Page :
          blocks' = With(m.blocks, nextID, [page |-> p, data |-> d, lastUsed |-> Tick,
                                            spilled |-> FALSE])
    BY <1>1 DEF NewBlock
  <2>2. m.blocks = blocks
    BY EnsureWithoutBackend DEF Now
  <2>3. Kept
    BY <1>0, <2>1, <2>2 DEF With
  <2> QED
    BY <1>1, <2>3 DEF NewBlock, Answer
<1>2. ASSUME NEW id, BlockDataHit(id) PROVE Kept /\ Reason
  <2>1. blocks' = [blocks EXCEPT ![id] = [@ EXCEPT !.lastUsed = Tick]]
    BY <1>2 DEF BlockDataHit, Touched
  <2>2. Kept
    BY <1>0, <2>1 DEF Block
  <2> QED
    BY <1>2, <2>2 DEF BlockDataHit, Answer
<1>3. ASSUME NEW id, BlockDataReload(id) \/ BlockDataUndone(id) PROVE FALSE
  BY <1>0, <1>3 DEF BlockDataReload, BlockDataUndone
<1>4. ASSUME NEW id, FreeBlock(id) PROVE Kept /\ Reason
  BY <1>0, <1>4 DEF FreeBlock, Without, Answer
<1>5. ASSUME NEW t, Alloc(t) PROVE Kept /\ Reason
  <2>1. PICK m \in EnsureFreePage({}), p \in Page :
          blocks' = m.blocks /\ ret' = Answer("Alloc", p, TRUE, NoData)
    BY <1>5 DEF Alloc
  <2>2. m.blocks = blocks
    BY EnsureWithoutBackend DEF Now
  <2> QED
    BY <1>0, <2>1, <2>2 DEF Answer
<1>6. ASSUME NEW op, NEW id, Refused(op, id), op \in {"NewBlock", "Alloc"} => EnsureFails({})
      PROVE  Kept /\ Reason
  BY <1>0, <1>6, EnsureWithoutBackend DEF Refused, Answer
<1>7. ASSUME NEW p, NEW t, FreePage(p, t) PROVE Kept /\ Reason
  BY <1>0, <1>7 DEF FreePage, Answer
<1> QED
  BY <1>1, <1>2, <1>3, <1>4, <1>5, <1>6, <1>7
  DEF Next, Call, NewBlockRefused, BlockDataRefused, FreeBlockRefused, AllocRefused,
      FreePageRefused

\* Without a backend the manager is the baseline that refuses: it spills nothing
\* and refuses a page only when none is Free (NewManager(pool, nil)).
THEOREM RefusesOnlyWithoutPages == Spec => RefuseWithoutBackend
<1>1. Init => NoneSpilled
  BY DEF Init, NoneSpilled
<1>2. IInv /\ NoneSpilled /\ [Next]_vars => NoneSpilled'
  <2> SUFFICES ASSUME IInv, NoneSpilled, [Next]_vars, ~hasBackend'
               PROVE  \A i \in DOMAIN blocks' : ~blocks'[i].spilled
    BY DEF NoneSpilled
  <2>1. CASE Next
    BY <2>1, StepWithoutBackend DEF Next
  <2>2. CASE UNCHANGED vars
    BY <2>2 DEF vars, NoneSpilled
  <2> QED
    BY <2>1, <2>2
<1>3. IInv /\ NoneSpilled /\ [Next]_vars =>
        [~hasBackend =>
           /\ \A i \in DOMAIN blocks' : ~blocks'[i].spilled
           /\ ret'.op \in {"NewBlock", "Alloc"} /\ ~ret'.ok => FreePages(owner) = {}]_vars
  BY StepWithoutBackend
<1> QED
  BY <1>1, <1>2, <1>3, InductiveInvariant, PTL DEF Spec, RefuseWithoutBackend

-----------------------------------------------------------------------------
(* The manager implements the document store. *)

\* Contents as a function of one memory.
ContentsOf(bs, st) ==
  [i \in DOMAIN bs |->
     IF ~bs[i].spilled THEN bs[i].data
     ELSE IF i \in DOMAIN st THEN st[i] ELSE NoData]

\* An eviction moves a payload; it changes none.
LEMMA EnsureKeepsContents ==
  ASSUME IInv, NEW P, NEW m \in EnsureFreePage(P)
  PROVE  ContentsOf(m.blocks, m.store) = ContentsOf(blocks, store)
<1>1. CASE m = Now
  BY <1>1 DEF Now
<1>2. CASE \E v \in Resident : m = Evicted(v)
  <2>1. PICK v \in Resident : m = Evicted(v)
    BY <1>2
  <2>2. m.blocks = MarkedSpilled(v) /\ m.store = Stored(store, v, VictimData(v))
    BY <2>1 DEF Evicted
  <2>3. v \in DOMAIN blocks /\ blocks[v] \in Block /\ ~blocks[v].spilled
    BY DEF IInv, Sound, Typed, Resident
  <2>4. /\ DOMAIN m.blocks = DOMAIN blocks
        /\ m.blocks[v].spilled
        /\ \A i \in DOMAIN blocks \ {v} : m.blocks[i] = blocks[i]
    BY <2>2, <2>3 DEF MarkedSpilled, Block
  <2>5. /\ DOMAIN m.store = DOMAIN store \cup {v}
        /\ m.store[v] = blocks[v].data
        /\ \A i \in DOMAIN store \ {v} : m.store[i] = store[i]
    BY <2>2 DEF Stored, With, VictimData
  <2> QED
    BY <2>3, <2>4, <2>5 DEF ContentsOf
<1> QED
  BY <1>1, <1>2 DEF EnsureFreePage

\* Contents reads a block where it lives, in RAM or in the backend.
LEMMA ReadsContents ==
  ASSUME IInv, NEW id \in DOMAIN blocks
  PROVE  Contents[id] = IF blocks[id].spilled THEN store[id] ELSE blocks[id].data
  BY DEF IInv, Sound, Backed, Contents

\* Every call is a call of the document store, or none.
LEMMA StepRefines == IInv /\ [Next]_vars => [Doc!Next]_(Doc!vars)
<1> SUFFICES ASSUME IInv, [Next]_vars PROVE [Doc!Next]_(Doc!vars)
  OBVIOUS
<1> USE DEF Doc!Answer
<1>0. /\ Contents = ContentsOf(blocks, store)
      /\ Contents' = ContentsOf(blocks', store')
      /\ DOMAIN Contents = DOMAIN blocks
  BY DEF Contents, ContentsOf
<1>1. ASSUME NEW d \in Data, NewBlock(d) PROVE Doc!NewBlock(d)
  <2>1. PICK m \in EnsureFreePage({}), p \in Page :
          /\ blocks' = With(m.blocks, nextID,
                            [page |-> p, data |-> d, lastUsed |-> Tick,
                             spilled |-> FALSE])
          /\ store' = m.store
    BY <1>1 DEF NewBlock
  <2>2. /\ DOMAIN blocks' = DOMAIN m.blocks \cup {nextID}
        /\ ~blocks'[nextID].spilled /\ blocks'[nextID].data = d
        /\ \A i \in DOMAIN m.blocks \ {nextID} : blocks'[i] = m.blocks[i]
    BY <2>1 DEF With
  <2>3. DOMAIN m.blocks = DOMAIN blocks
    BY EnsureKeepsIds
  <2>4. ContentsOf(m.blocks, m.store) = Contents
    BY <1>0, EnsureKeepsContents
  <2>5. Contents' = [i \in DOMAIN Contents \cup {nextID} |->
                       IF i = nextID THEN d ELSE Contents[i]]
    <3>1. \A i \in DOMAIN m.blocks \ {nextID} :
            ContentsOf(blocks', store')[i] = ContentsOf(m.blocks, m.store)[i]
      BY <2>1, <2>2 DEF ContentsOf
    <3>2. ContentsOf(blocks', store')[nextID] = d
      BY <2>2 DEF ContentsOf
    <3>3. Contents' = [i \in DOMAIN blocks' |-> ContentsOf(blocks', store')[i]]
      BY <1>0 DEF ContentsOf
    <3> QED
      BY <1>0, <2>2, <2>3, <2>4, <3>1, <3>2, <3>3
  <2> QED
    BY <1>1, <2>5 DEF NewBlock, Answer, Doc!NewBlock
<1>2. ASSUME NEW id, BlockDataHit(id) PROVE id \in DOMAIN Contents /\ Doc!BlockData(id)
  <2>1. /\ id \in DOMAIN blocks /\ ~blocks[id].spilled /\ blocks[id] \in Block
        /\ blocks' = [blocks EXCEPT ![id] = [@ EXCEPT !.lastUsed = Tick]]
        /\ store' = store /\ nextID' = nextID
    BY <1>2 DEF BlockDataHit, Resident, Touched, IInv, Sound, Typed
  <2>2. /\ DOMAIN blocks' = DOMAIN blocks
        /\ \A i \in DOMAIN blocks :
             blocks'[i].spilled = blocks[i].spilled /\ blocks'[i].data = blocks[i].data
    BY <2>1 DEF Block, IInv, Sound, Typed
  <2>3. Contents' = Contents
    BY <1>0, <2>1, <2>2 DEF ContentsOf
  <2>4. Contents[id] = blocks[id].data
    BY <2>1, ReadsContents
  <2> QED
    BY <1>0, <1>2, <2>1, <2>3, <2>4 DEF BlockDataHit, Answer, Doc!BlockData
<1>3. ASSUME NEW id, BlockDataReload(id) PROVE id \in DOMAIN Contents /\ Doc!BlockData(id)
  <2>1. PICK m \in EnsureFreePage({id}), p \in Page :
          /\ id \in DOMAIN m.store
          /\ blocks' = [m.blocks EXCEPT
                          ![id] = [page |-> p, data |-> m.store[id],
                                   lastUsed |-> Tick, spilled |-> FALSE]]
          /\ store' = Discarded(m.store, id)
          /\ ret' = Answer("BlockData", id, TRUE, m.store[id])
    BY <1>3 DEF BlockDataReload
  <2>2. /\ Sound(m.owner, m.blocks, m.store, seq, nextID)
        /\ DOMAIN m.blocks = DOMAIN blocks
        /\ ContentsOf(m.blocks, m.store) = Contents
    BY <1>0, EnsureSound, EnsureKeepsIds, EnsureKeepsContents
  <2>3. id \in DOMAIN m.blocks /\ m.blocks[id].spilled
    BY <2>1, <2>2 DEF Sound, Backed
  <2>4. Contents[id] = m.store[id]
    BY <2>1, <2>2, <2>3 DEF ContentsOf
  <2>5. /\ DOMAIN blocks' = DOMAIN m.blocks
        /\ ~blocks'[id].spilled /\ blocks'[id].data = m.store[id]
        /\ \A i \in DOMAIN m.blocks \ {id} : blocks'[i] = m.blocks[i]
    BY <2>1, <2>3
  <2>6. /\ DOMAIN store' = DOMAIN m.store \ {id}
        /\ \A i \in DOMAIN m.store \ {id} : store'[i] = m.store[i]
    BY <2>1 DEF Discarded, Without
  <2>7. ContentsOf(blocks', store') = ContentsOf(m.blocks, m.store)
    BY <2>1, <2>3, <2>5, <2>6 DEF ContentsOf
  <2>8. id \in DOMAIN Contents /\ nextID' = nextID
    BY <1>0, <1>3 DEF BlockDataReload
  <2> QED
    BY <1>0, <2>1, <2>2, <2>4, <2>7, <2>8 DEF Answer, Doc!BlockData
<1>4. ASSUME NEW id, BlockDataUndone(id) PROVE Doc!Other
  <2>1. PICK m \in EnsureFreePage({id}) : blocks' = m.blocks /\ store' = m.store
    BY <1>4 DEF BlockDataUndone, AfterFailedLoad
  <2>2. Contents' = Contents
    BY <1>0, <2>1, EnsureKeepsContents
  <2> QED
    BY <1>4, <2>2 DEF BlockDataUndone, Answer, Doc!Other
<1>5. ASSUME NEW id, FreeBlock(id) PROVE id \in DOMAIN Contents /\ Doc!FreeBlock(id)
  <2>1. /\ id \in DOMAIN blocks /\ blocks' = Without(blocks, id)
        /\ store' = store \/ store' = Without(store, id)
        /\ nextID' = nextID /\ ret' = Answer("FreeBlock", id, TRUE, NoData)
    BY <1>5 DEF FreeBlock, Discarded
  <2>2. /\ DOMAIN blocks' = DOMAIN blocks \ {id}
        /\ \A i \in DOMAIN blocks \ {id} : blocks'[i] = blocks[i]
        /\ \A i \in DOMAIN blocks \ {id} :
             /\ i \in DOMAIN store' <=> i \in DOMAIN store
             /\ i \in DOMAIN store => store'[i] = store[i]
    BY <2>1 DEF Without
  <2>3. Contents' = [i \in DOMAIN Contents \ {id} |-> Contents[i]]
    BY <1>0, <2>2 DEF ContentsOf
  <2> QED
    BY <1>0, <2>1, <2>3 DEF Answer, Doc!FreeBlock
<1>6. ASSUME NEW t \in WorkTags, Alloc(t) PROVE Doc!Other
  <2>1. PICK m \in EnsureFreePage({}), p \in Page :
          blocks' = m.blocks /\ store' = m.store /\ ret' = Answer("Alloc", p, TRUE, NoData)
    BY <1>6 DEF Alloc
  <2>2. Contents' = Contents
    BY <1>0, <2>1, EnsureKeepsContents
  <2> QED
    BY <1>6, <2>1, <2>2 DEF Alloc, Answer, Doc!Other
<1>7. ASSUME NEW op, NEW id, Refused(op, id) PROVE Doc!Other
  BY <1>0, <1>7 DEF Refused, Answer, Doc!Other
<1>8. ASSUME NEW p, NEW t, FreePage(p, t) PROVE Doc!Other
  BY <1>0, <1>8 DEF FreePage, Answer, Doc!Other
<1>9. CASE UNCHANGED vars
  BY <1>0, <1>9 DEF vars, Doc!vars
<1> QED
  BY <1>1, <1>2, <1>3, <1>4, <1>5, <1>6, <1>7, <1>8, <1>9
  DEF Next, Call, NewBlockRefused, BlockDataRefused, FreeBlockRefused, AllocRefused,
      FreePageRefused, Doc!Next

\* Whatever is spilled, reloaded or refused on the way, the manager behaves as a
\* store of blocks under ids never issued twice: no payload is lost or mixed up.
THEOREM ManagerImplementsDocStore == Spec => DocSpec
<1>1. Init => Doc!Init
  BY DEF Init, Doc!Init, Contents, Answer, Doc!Answer
<1> QED
  BY <1>1, StepRefines, InductiveInvariant, PTL DEF Spec, DocSpec, Doc!Spec

-----------------------------------------------------------------------------
(* The page pool.                                                          *)
USE PagesAssumption, PoolAssumption DEF Page

PoolTypeOK == owner \in [Page -> Tag]

-----------------------------------------------------------------------------
\* Every tag a call may write is one of the table's.
LEMMA TagsAreTags == Free \in Tag /\ Reserved \in Tag /\ Tags \subseteq Tag
  BY DEF Tag, Free, Reserved

\* Writing tags keeps a table of tags, one page or a run of them at a time.
LEMMA OneTagWritten ==
  ASSUME PoolTypeOK, NEW p \in Page, NEW t \in Tag, owner' = [owner EXCEPT ![p] = t]
  PROVE  PoolTypeOK'
<1> USE DEF PoolTypeOK
<1> HIDE DEF Page
<1> QED
  OBVIOUS

LEMMA RunOfTagsWritten ==
  ASSUME PoolTypeOK, NEW s, NEW n, NEW t \in Tag, owner' = TagRun(owner, s, n, t)
  PROVE  PoolTypeOK'
<1> HIDE DEF Page
<1>1. ASSUME NEW p \in Page PROVE (IF p \in s .. s + n - 1 THEN t ELSE owner[p]) \in Tag
  BY DEF PoolTypeOK
<1> QED
  BY <1>1 DEF PoolTypeOK, TagRun

LEMMA NothingWritten == PoolTypeOK /\ owner' = owner => PoolTypeOK'
  BY Zenon DEF PoolTypeOK

\* Every step leaves a table of tags.
LEMMA TableStaysTyped == PoolTypeOK /\ [PoolNext]_poolVars => PoolTypeOK'
<1> SUFFICES ASSUME PoolTypeOK, [PoolNext]_poolVars PROVE PoolTypeOK'
  OBVIOUS
<1>1. ASSUME NEW p \in Page, Reserve(p) PROVE PoolTypeOK'
  <2>1. owner' = [owner EXCEPT ![p] = Reserved]
    BY <1>1, Zenon DEF Reserve
  <2> QED
    BY <2>1, TagsAreTags, OneTagWritten, Zenon
<1>2. ASSUME NEW t \in Tags, PoolAlloc(t) PROVE PoolTypeOK'
  <2>1. \/ \E p \in Page : owner' = [owner EXCEPT ![p] = t]
        \/ owner' = owner
    BY <1>2, Zenon DEF PoolAlloc
  <2>2. t \in Tag
    BY TagsAreTags, Zenon
  <2> QED
    BY <2>1, <2>2, OneTagWritten, NothingWritten, Zenon
<1>3. ASSUME NEW n, NEW t \in Tags, AllocRun(n, t) PROVE PoolTypeOK'
  <2>1. \/ \E s \in Page : owner' = TagRun(owner, s, n, t)
        \/ owner' = owner
    BY <1>3, Zenon DEF AllocRun
  <2>2. t \in Tag
    BY TagsAreTags, Zenon
  <2> QED
    BY <2>1, <2>2, RunOfTagsWritten, NothingWritten, Zenon
<1>4. ASSUME NEW p \in Page, NEW t, PoolFree(p, t) PROVE PoolTypeOK'
  <2>1. owner' = [owner EXCEPT ![p] = Free] \/ owner' = owner
    BY <1>4, Zenon DEF PoolFree
  <2> QED
    BY <2>1, TagsAreTags, OneTagWritten, NothingWritten, Zenon
<1>5. ASSUME NEW p, NEW n, NEW t, FreeRun(p, n, t) PROVE PoolTypeOK'
  <2>1. owner' = TagRun(owner, p, n, Free) \/ owner' = owner
    BY <1>5, Zenon DEF FreeRun
  <2> QED
    BY <2>1, TagsAreTags, RunOfTagsWritten, NothingWritten, Zenon
<1>6. CASE UNCHANGED poolVars
  BY <1>6, NothingWritten, Zenon DEF poolVars
<1> QED
  BY <1>1, <1>2, <1>3, <1>4, <1>5, <1>6, Zenon DEF PoolNext

\* The table is always one tag per page (Pool.owner).
THEOREM TableTyped == PoolSpec => []PoolTypeOK
<1>1. PoolInit => PoolTypeOK
  BY DEF PoolInit, PoolTypeOK, Tag, Free, Reserved
<1> QED
  BY <1>1, TableStaysTyped, PTL DEF PoolSpec

-----------------------------------------------------------------------------
(* Handouts. *)

\* What HandoutsAreFresh says of one step.
FreshStep ==
  /\ \A p \in Page : owner'[p] # owner[p] /\ answer'.op # "Reserve" =>
       /\ p \in answer'.page .. answer'.page + answer'.n - 1
       /\ {owner[p], owner'[p]} = {Free, answer'.tag}
       /\ owner'[p] = Free <=> answer'.op \in {"Free", "FreeRun"}
  /\ answer'.ok /\ answer'.op \in {"Alloc", "AllocRun"} =>
       \A p \in answer'.page .. answer'.page + answer'.n - 1 : owner'[p] = answer'.tag
  /\ ~answer'.ok => owner' = owner

\* A tag that allocations use is not Free.
LEMMA HoldersAreNotFree == \A t \in Tags : t # Free
  BY DEF FirstOwnerTag, Free

\* A run of one page is that page.
LEMMA OnePageRun ==
  ASSUME NEW s \in Page, NEW first, NEW n, first = s, n = 1
  PROVE  first .. first + n - 1 = {s}
<1>1. s .. s + 1 - 1 = {s}
  OBVIOUS
<1> QED
  BY <1>1

\* A run of Free pages, tagged: each page of it changes from Free to the tag.
LEMMA AllocRunIsFresh ==
  ASSUME PoolTypeOK, NEW n \in 1 .. MaxRun, NEW t \in Tags, AllocRun(n, t)
  PROVE  FreshStep
<1>1. CASE \E s \in Page : /\ FirstFit(owner, s, n)
                           /\ owner' = TagRun(owner, s, n, t)
                           /\ answer' = PoolAnswer("AllocRun", TRUE, s, n, t)
  <2>1. PICK s \in Page : /\ FreeRunAt(owner, s, n)
                          /\ owner' = TagRun(owner, s, n, t)
                          /\ answer' = PoolAnswer("AllocRun", TRUE, s, n, t)
    BY <1>1 DEF FirstFit
  <2>2. /\ s .. s + n - 1 \subseteq Page
        /\ \A p \in s .. s + n - 1 : owner[p] = Free /\ owner'[p] = t
        /\ \A p \in Page \ (s .. s + n - 1) : owner'[p] = owner[p]
    BY <2>1 DEF FreeRunAt, TagRun
  <2>3. /\ answer'.op = "AllocRun" /\ answer'.ok /\ answer'.page = s /\ answer'.n = n /\ answer'.tag = t
    BY <2>1 DEF PoolAnswer
  <2>4. answer'.page .. answer'.page + answer'.n - 1 = s .. s + n - 1
    BY <2>3
  <2>5. t # Free
    BY HoldersAreNotFree
  <2>6. ASSUME NEW p \in Page, owner'[p] # owner[p], answer'.op # "Reserve"
        PROVE  /\ p \in answer'.page .. answer'.page + answer'.n - 1
               /\ {owner[p], owner'[p]} = {Free, answer'.tag}
               /\ owner'[p] = Free <=> answer'.op \in {"Free", "FreeRun"}
    <3>1. p \in s .. s + n - 1
      BY <2>2, <2>6
    <3>2. owner[p] = Free /\ owner'[p] = t
      BY <3>1, <2>2
    <3> QED
      BY <3>1, <3>2, <2>3, <2>4, <2>5
  <2>7. \A p \in answer'.page .. answer'.page + answer'.n - 1 : owner'[p] = answer'.tag
    BY <2>2, <2>3, <2>4
  <2> QED
    BY <2>3, <2>6, <2>7 DEF FreshStep
<1>2. CASE answer' = PoolAnswer("AllocRun", FALSE, 0, n, t) /\ UNCHANGED owner
  BY <1>2 DEF FreshStep, PoolAnswer
<1> QED
  BY <1>1, <1>2 DEF AllocRun

\* The same for one page.
LEMMA AllocIsFresh ==
  ASSUME PoolTypeOK, NEW t \in Tags, PoolAlloc(t)
  PROVE  FreshStep
<1>1. CASE \E p \in Page : /\ LowestFree(owner, p)
                           /\ owner' = [owner EXCEPT ![p] = t]
                           /\ answer' = PoolAnswer("Alloc", TRUE, p, 1, t)
  <2>1. PICK s \in Page : /\ owner[s] = Free
                          /\ owner' = [owner EXCEPT ![s] = t]
                          /\ answer' = PoolAnswer("Alloc", TRUE, s, 1, t)
    BY <1>1 DEF LowestFree, FreePages
  <2>2. /\ owner'[s] = t
        /\ \A p \in Page \ {s} : owner'[p] = owner[p]
    BY <2>1 DEF PoolTypeOK
  <2>3. /\ answer'.op = "Alloc" /\ answer'.ok /\ answer'.page = s /\ answer'.n = 1 /\ answer'.tag = t
    BY <2>1 DEF PoolAnswer
  <2>4. answer'.page .. answer'.page + answer'.n - 1 = {s}
    BY <2>3, OnePageRun
  <2>5. t # Free
    BY HoldersAreNotFree
  <2>6. ASSUME NEW p \in Page, owner'[p] # owner[p], answer'.op # "Reserve"
        PROVE  /\ p \in answer'.page .. answer'.page + answer'.n - 1
               /\ {owner[p], owner'[p]} = {Free, answer'.tag}
               /\ owner'[p] = Free <=> answer'.op \in {"Free", "FreeRun"}
    <3>1. p = s
      BY <2>2, <2>6
    <3>2. owner[p] = Free /\ owner'[p] = t
      BY <3>1, <2>1, <2>2
    <3> QED
      BY <3>1, <3>2, <2>3, <2>4, <2>5
  <2>7. \A p \in answer'.page .. answer'.page + answer'.n - 1 : owner'[p] = answer'.tag
    BY <2>2, <2>3, <2>4
  <2> QED
    BY <2>3, <2>6, <2>7 DEF FreshStep
<1>2. CASE answer' = PoolAnswer("Alloc", FALSE, 0, 1, t) /\ UNCHANGED owner
  BY <1>2 DEF FreshStep, PoolAnswer
<1> QED
  BY <1>1, <1>2 DEF PoolAlloc

\* A release of one page under its tag, or a refusal that changes nothing.
LEMMA FreePageIsFresh ==
  ASSUME PoolTypeOK, NEW s \in Page, NEW t \in FreeTags, PoolFree(s, t)
  PROVE  FreshStep
<1>1. /\ answer'.op = "Free" /\ (answer'.ok <=> Carries(owner, s, t))
      /\ answer'.page = s /\ answer'.n = 1 /\ answer'.tag = t
  BY DEF PoolFree, PoolAnswer
<1>2. answer'.page .. answer'.page + answer'.n - 1 = {s}
  BY <1>1, OnePageRun
<1>3. CASE Carries(owner, s, t)
  <2>1. owner[s] = t /\ owner' = [owner EXCEPT ![s] = Free]
    BY <1>3 DEF PoolFree, Carries
  <2>2. owner'[s] = Free /\ \A p \in Page \ {s} : owner'[p] = owner[p]
    BY <2>1 DEF PoolTypeOK
  <2>3. ASSUME NEW p \in Page, owner'[p] # owner[p], answer'.op # "Reserve"
        PROVE  /\ p \in answer'.page .. answer'.page + answer'.n - 1
               /\ {owner[p], owner'[p]} = {Free, answer'.tag}
               /\ owner'[p] = Free <=> answer'.op \in {"Free", "FreeRun"}
    <3>1. p = s
      BY <2>2, <2>3
    <3>2. owner[p] = t /\ owner'[p] = Free
      BY <3>1, <2>1, <2>2
    <3> QED
      BY <3>1, <3>2, <1>1, <1>2
  <2> QED
    BY <1>1, <1>3, <2>3 DEF FreshStep
<1>4. CASE ~Carries(owner, s, t)
  BY <1>1, <1>4 DEF PoolFree, FreshStep
<1> QED
  BY <1>3, <1>4

\* A release of a whole run under its tag, or a refusal that changes nothing.
LEMMA FreeRunIsFresh ==
  ASSUME PoolTypeOK, NEW s \in Page, NEW n \in 1 .. MaxRun, NEW t \in FreeTags, FreeRun(s, n, t)
  PROVE  FreshStep
<1>1. /\ answer'.op = "FreeRun" /\ (answer'.ok <=> CarriesRun(owner, s, n, t))
      /\ answer'.page = s /\ answer'.n = n /\ answer'.tag = t
  BY DEF FreeRun, PoolAnswer
<1>2. CASE CarriesRun(owner, s, n, t)
  <2>1. /\ s .. s + n - 1 \subseteq Page
        /\ \A p \in s .. s + n - 1 : owner[p] = t /\ owner'[p] = Free
        /\ \A p \in Page \ (s .. s + n - 1) : owner'[p] = owner[p]
    BY <1>2 DEF FreeRun, CarriesRun, TagRun
  <2>2. answer'.page .. answer'.page + answer'.n - 1 = s .. s + n - 1
    BY <1>1
  <2>3. ASSUME NEW p \in Page, owner'[p] # owner[p], answer'.op # "Reserve"
        PROVE  /\ p \in answer'.page .. answer'.page + answer'.n - 1
               /\ {owner[p], owner'[p]} = {Free, answer'.tag}
               /\ owner'[p] = Free <=> answer'.op \in {"Free", "FreeRun"}
    <3>1. p \in s .. s + n - 1
      BY <2>1, <2>3
    <3>2. owner[p] = t /\ owner'[p] = Free
      BY <3>1, <2>1
    <3> QED
      BY <3>1, <3>2, <1>1, <2>2
  <2> QED
    BY <1>1, <1>2, <2>3 DEF FreshStep
<1>3. CASE ~CarriesRun(owner, s, n, t)
  BY <1>1, <1>3 DEF FreeRun, FreshStep
<1> QED
  BY <1>2, <1>3

\* A page passes from Free to one holder and back, all of a run or none of it,
\* and a refused call moves no page (PoolAlloc, AllocRun, Free, FreeRun).
THEOREM HandoutsAlwaysFresh == PoolSpec => HandoutsAreFresh
<1>1. PoolTypeOK /\ [PoolNext]_poolVars => [FreshStep]_poolVars
  <2> SUFFICES ASSUME PoolTypeOK, PoolNext PROVE FreshStep
    OBVIOUS
  <2>1. ASSUME NEW p, Reserve(p) PROVE FreshStep
    BY <2>1 DEF Reserve, PoolAnswer, FreshStep
  <2> QED
    BY <2>1, AllocIsFresh, AllocRunIsFresh, FreePageIsFresh, FreeRunIsFresh DEF PoolNext
<1>2. [][FreshStep]_poolVars <=> HandoutsAreFresh
  BY PTL DEF HandoutsAreFresh, FreshStep
<1> QED
  BY <1>1, <1>2, TableTyped, PTL DEF PoolSpec

-----------------------------------------------------------------------------
(* Refusals. *)

\* A set of naturals that is not empty has a least element.
LEMMA Least == ASSUME NEW S \in SUBSET Nat, S # {} PROVE \E lo \in S : \A x \in S : lo <= x
<1>1. PICK lo \in S : \A x \in S : ~(<<x, lo>> \in OpToRel(<, Nat))
  BY NatLessThanWellFounded, WFMin
<1>2. \A x \in S : lo <= x
  <2> SUFFICES ASSUME NEW x \in S, x < lo PROVE FALSE
    OBVIOUS
  <2>1. <<x, lo>> \in OpToRel(<, Nat)
    BY DEF OpToRel
  <2> QED
    BY <1>1, <2>1
<1> QED
  BY <1>2

\* A set of pages that is not empty has a greatest element.
LEMMA Greatest ==
  ASSUME NEW S \in SUBSET Page, S # {}
  PROVE  \E hi \in S : \A x \in S : x <= hi
<1> DEFINE Down == {MaxPages - x : x \in S}
<1>1. Down \in SUBSET Nat /\ Down # {}
  OBVIOUS
<1>2. PICK lo \in Down : \A y \in Down : lo <= y
  BY <1>1, Least
<1>3. PICK hi \in S : lo = MaxPages - hi
  BY <1>2
<1>4. ASSUME NEW x \in S PROVE x <= hi
  <2>1. MaxPages - hi <= MaxPages - x
    BY <1>2, <1>3
  <2> QED
    BY <2>1
<1> QED
  BY <1>4

\* n adjacent Free pages are a run that FreeRunAt sees.
LEMMA AdjacentPagesAreARun ==
  ASSUME NEW n \in Nat \ {0}, NEW S \in SUBSET FreePages(owner), Cardinality(S) = n,
         \A a, b \in S : \A c \in a .. b : c \in S
  PROVE  \E s \in Page : FreeRunAt(owner, s, n)
<1>1. S \in SUBSET Page /\ \A p \in S : p < NPages /\ owner[p] = Free
  BY DEF FreePages
<1>2. S # {}
  BY FS_EmptySet
<1>3. PICK lo \in S : \A x \in S : lo <= x
  BY <1>1, <1>2, Least
<1>4. PICK hi \in S : \A x \in S : x <= hi
  BY <1>1, <1>2, Greatest
<1>5. lo \in Int /\ hi \in Int /\ lo <= hi
  BY <1>1, <1>3
<1>6. S = lo .. hi
  <2>1. \A x \in S : x \in lo .. hi
    BY <1>1, <1>3, <1>4
  <2>2. \A x \in lo .. hi : x \in S
    BY <1>3, <1>4
  <2> QED
    BY <2>1, <2>2
<1>7. n = hi - lo + 1
  BY <1>5, <1>6, FS_Interval
<1>8. hi = lo + n - 1 /\ hi < NPages /\ lo \in Page
  BY <1>1, <1>5, <1>7
<1>9. \A i \in lo .. lo + n - 1 : owner[i] = Free
  BY <1>1, <1>6, <1>8
<1>10. lo + n <= NPages
  BY <1>5, <1>8
<1> QED
  BY <1>8, <1>9, <1>10 DEF FreeRunAt

\* A run is refused only when no n adjacent Free pages exist, however the table
\* came to be fragmented (PoolAlloc, AllocRun).
THEOREM RefusedOnlyWithoutRun == PoolSpec => RefusedOnlyWhenNoRun
<1> DEFINE NoRun == ~\E S \in SUBSET FreePages(owner) :
                       /\ Cardinality(S) = answer'.n
                       /\ \A a, b \in S : \A c \in a .. b : c \in S
           Step == answer'.op \in {"Alloc", "AllocRun"} /\ ~answer'.ok => NoRun
<1>1. ASSUME NEW t \in Tags, PoolAlloc(t), ~answer'.ok PROVE NoRun
  <2>1. FreePages(owner) = {} /\ answer'.n = 1
    BY <1>1 DEF PoolAlloc, PoolAnswer
  <2> QED
    BY <2>1, FS_EmptySet
<1>2. ASSUME NEW n \in 1 .. MaxRun, NEW t \in Tags, AllocRun(n, t), ~answer'.ok PROVE NoRun
  <2>1. (\A s \in Page : ~FreeRunAt(owner, s, n)) /\ answer'.n = n
    BY <1>2 DEF AllocRun, PoolAnswer
  <2> QED
    BY <2>1, AdjacentPagesAreARun
<1>3. [PoolNext]_poolVars => [Step]_poolVars
  BY <1>1, <1>2 DEF PoolNext, Reserve, PoolFree, FreeRun, PoolAnswer
<1> QED
  BY <1>3, PTL DEF PoolSpec, RefusedOnlyWhenNoRun

-----------------------------------------------------------------------------
(* The Z80 port. *)

\* pp_alloc_run finds the page that AllocRun finds, or fails with it: the count
\* of start positions does not overflow its register.
LEMMA PortAllocAgrees ==
  ASSUME NEW n \in 1 .. 255, NEW s \in 0 .. 255
  PROVE  PortAllocRun(owner, n) = s /\ s # PP_FAIL <=> s \in Page /\ FirstFit(owner, s, n)
<1> USE DEF PP_FAIL
<1> DEFINE starts == 0 .. ((NPages - n + 1) % 256) - 1
           hits == {r \in starts : \A k \in 0 .. n - 1 : owner[r + k] = Free}
<1>1. CASE NPages < n
  BY <1>1 DEF PortAllocRun, FirstFit, FreeRunAt
<1>2. CASE ~(NPages < n)
  <2>1. (NPages - n + 1) % 256 = NPages - n + 1
    BY <1>2
  <2>2. starts = 0 .. NPages - n
    BY <2>1
  <2>3. \A r \in Nat : r \in hits <=> FreeRunAt(owner, r, n)
    <3> SUFFICES ASSUME NEW r \in Nat PROVE r \in hits <=> FreeRunAt(owner, r, n)
      OBVIOUS
    <3>1. r \in starts <=> r + n <= NPages
      BY <2>2
    <3>2. (\A k \in 0 .. n - 1 : owner[r + k] = Free) <=> \A i \in r .. r + n - 1 : owner[i] = Free
      <4>1. ASSUME \A k \in 0 .. n - 1 : owner[r + k] = Free, NEW i \in r .. r + n - 1
            PROVE  owner[i] = Free
        <5>1. i - r \in 0 .. n - 1 /\ r + (i - r) = i
          OBVIOUS
        <5> QED
          BY <4>1, <5>1
      <4>2. ASSUME \A i \in r .. r + n - 1 : owner[i] = Free, NEW k \in 0 .. n - 1
            PROVE  owner[r + k] = Free
        <5>1. r + k \in r .. r + n - 1
          OBVIOUS
        <5> QED
          BY <4>2, <5>1
      <4> QED
        BY <4>1, <4>2
    <3> QED
      BY <3>1, <3>2 DEF FreeRunAt
  <2>4. PortAllocRun(owner, n) = IF hits = {} THEN PP_FAIL
                                 ELSE CHOOSE x \in hits : \A r \in hits : x <= r
    BY <1>2 DEF PortAllocRun
  <2>5. hits \in SUBSET Nat /\ \A r \in hits : r \in Page /\ r # PP_FAIL
    BY <2>2
  <2> HIDE DEF hits
  <2>6. FirstFit(owner, s, n) <=> s \in hits /\ \A r \in hits : s <= r
    <3>1. FirstFit(owner, s, n) <=> s \in hits /\ \A r \in 0 .. s - 1 : r \notin hits
      BY <2>3 DEF FirstFit
    <3>2. (\A r \in 0 .. s - 1 : r \notin hits) <=> \A r \in hits : s <= r
      BY <2>5
    <3> QED
      BY <3>1, <3>2
  <2>7. CASE hits = {}
    BY <2>4, <2>6, <2>7
  <2>8. CASE hits # {}
    <3>1. PICK lo \in hits : \A r \in hits : lo <= r
      BY <2>5, <2>8, Least
    <3>2. (CHOOSE x \in hits : \A r \in hits : x <= r) = lo
      <4>1. \A x \in hits : (\A r \in hits : x <= r) => x = lo
        <5> SUFFICES ASSUME NEW x \in hits, \A r \in hits : x <= r PROVE x = lo
          OBVIOUS
        <5>1. x \in Nat /\ lo \in Nat /\ x <= lo /\ lo <= x
          BY <2>5, <3>1
        <5> QED
          BY <5>1
      <4> QED
        BY <3>1, <4>1
    <3>3. PortAllocRun(owner, n) = lo
      BY <2>4, <2>8, <3>2
    <3>4. s = lo <=> s \in hits /\ \A r \in hits : s <= r
      <4>1. ASSUME s \in hits, \A r \in hits : s <= r PROVE s = lo
        <5>1. lo \in Nat /\ s <= lo /\ lo <= s
          BY <2>5, <3>1, <4>1
        <5> QED
          BY <5>1
      <4> QED
        BY <3>1, <4>1
    <3> QED
      BY <2>5, <2>6, <3>1, <3>3, <3>4
  <2> QED
    BY <2>7, <2>8
<1> QED
  BY <1>1, <1>2

\* pp_free_run accepts what FreeRun accepts: the carry of the 8-bit sum and the
\* comparison with PP_MAX_PAGES together are the bound s + n <= MaxPages.
LEMMA PortFreeAgrees ==
  ASSUME NEW n \in 0 .. 255, NEW s \in 0 .. 255, NEW t
  PROVE  /\ PortFreeRunOK(owner, s, n, t) <=> CarriesRun(owner, s, n, t)
         /\ PortFreeOK(owner, s, t) <=> Carries(owner, s, t)
<1>1. /\ (s + n) \div 256 = 0 /\ (s + n) % 256 < MaxPages + 1 <=> s + n <= MaxPages
  OBVIOUS
<1>2. (\A k \in 0 .. n - 1 : owner[s + k] = t) <=> \A i \in s .. s + n - 1 : owner[i] = t
  <2>1. ASSUME \A k \in 0 .. n - 1 : owner[s + k] = t, NEW i \in s .. s + n - 1
        PROVE  owner[i] = t
    <3>1. i - s \in 0 .. n - 1 /\ s + (i - s) = i
      OBVIOUS
    <3> QED
      BY <2>1, <3>1
  <2>2. ASSUME \A i \in s .. s + n - 1 : owner[i] = t, NEW k \in 0 .. n - 1
        PROVE  owner[s + k] = t
    <3>1. s + k \in s .. s + n - 1
      OBVIOUS
    <3> QED
      BY <2>2, <3>1
  <2> QED
    BY <2>1, <2>2
<1>3. n # 0 <=> n > 0
  OBVIOUS
<1> QED
  BY <1>1, <1>2, <1>3 DEF PortFreeRunOK, CarriesRun, PortFreeOK, Carries

\* On every table, for every register value, the port's routines decide as the
\* Go methods do (pagepool.asm: "identical outcome to the Go oracle").
THEOREM PortAlwaysAgrees == PoolSpec => []PortRunsAgree
<1>1. PortRunsAgree
  <2>1. Regs \subseteq 0 .. 255
    OBVIOUS
  <2>2. ASSUME NEW n \in Regs, NEW s \in Regs, n > 0
        PROVE  PortAllocRun(owner, n) = s /\ s # PP_FAIL <=> s \in Page /\ FirstFit(owner, s, n)
    <3>1. n \in 1 .. 255 /\ s \in 0 .. 255
      BY <2>1, <2>2
    <3> QED
      BY <3>1, PortAllocAgrees
  <2>3. ASSUME NEW n \in Regs, NEW s \in Regs, NEW t \in FreeTags
        PROVE  /\ PortFreeRunOK(owner, s, n, t) <=> CarriesRun(owner, s, n, t)
               /\ PortFreeOK(owner, s, t) <=> Carries(owner, s, t)
    BY <2>1, PortFreeAgrees
  <2> QED
    BY <2>2, <2>3 DEF PortRunsAgree
<1> QED
  BY <1>1, PTL
=============================================================================
