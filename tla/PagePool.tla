------------------------------ MODULE PagePool ------------------------------
(* The page allocator itself: Pool's exported methods over page_owner[],     *)
(* and the Z80 port's routines (src/pagepool.asm) with their 8-bit registers *)
(* as functions of the same table, for the same arguments.                   *)
EXTENDS PageTable, FiniteSets

CONSTANTS
  Tags,      \* owner tags callers allocate under
  FreeTags,  \* tags callers pass to Free and FreeRun as "expected"
  MaxRun,    \* bound: longest run asked for
  Regs       \* register values the port's routines are compared on

\* A page number is a byte, and &FF is the port's failure answer.
ASSUME PoolAssumption ==
  /\ MaxPages <= 255
  /\ Tags \subseteq {t \in Tag : t >= FirstOwnerTag}
  /\ FreeTags \subseteq Tag
  /\ MaxRun \in Nat
  /\ Regs \subseteq 0 .. 255

VARIABLE
  answer   \* answer of the last call: [op, ok, page, n, tag]

poolVars == <<owner, answer>>

PoolAnswer(op, ok, page, n, tag) ==
  [op |-> op, ok |-> ok, page |-> page, n |-> n, tag |-> tag]

\* Boot (pool_boot_init): size the table, then reserve the system pages one by
\* one before anything is allocated.
PoolInit ==
  /\ owner = [p \in Page |-> IF p < NPages THEN Free ELSE Reserved]
  /\ answer = PoolAnswer("Init", TRUE, 0, 0, Reserved)

Reserve(p) ==
  /\ p \in SysPages
  /\ \A q \in Page : owner[q] < FirstOwnerTag
  /\ owner' = [owner EXCEPT ![p] = Reserved]
  /\ answer' = PoolAnswer("Reserve", TRUE, p, 1, Reserved)

Booted == \A p \in SysPages : owner[p] # Free

PoolAlloc(t) ==
  /\ Booted
  /\ \/ \E p \in Page :
          /\ LowestFree(owner, p)
          /\ owner' = [owner EXCEPT ![p] = t]
          /\ answer' = PoolAnswer("Alloc", TRUE, p, 1, t)
     \/ /\ FreePages(owner) = {}
        /\ answer' = PoolAnswer("Alloc", FALSE, 0, 1, t)
        /\ UNCHANGED owner

PoolFree(p, t) ==
  /\ owner' = IF Carries(owner, p, t) THEN [owner EXCEPT ![p] = Free] ELSE owner
  /\ answer' = PoolAnswer("Free", Carries(owner, p, t), p, 1, t)

AllocRun(n, t) ==
  /\ Booted
  /\ \/ \E s \in Page :
          /\ FirstFit(owner, s, n)
          /\ owner' = TagRun(owner, s, n, t)
          /\ answer' = PoolAnswer("AllocRun", TRUE, s, n, t)
     \/ /\ \A s \in Page : ~FreeRunAt(owner, s, n)
        /\ answer' = PoolAnswer("AllocRun", FALSE, 0, n, t)
        /\ UNCHANGED owner

FreeRun(s, n, t) ==
  /\ owner' = IF CarriesRun(owner, s, n, t) THEN TagRun(owner, s, n, Free)
                                            ELSE owner
  /\ answer' = PoolAnswer("FreeRun", CarriesRun(owner, s, n, t), s, n, t)

PoolNext ==
  \/ \E p \in Page : Reserve(p)
  \/ \E t \in Tags : PoolAlloc(t)
  \/ \E n \in 1 .. MaxRun, t \in Tags : AllocRun(n, t)
  \/ \E p \in Page, t \in FreeTags : PoolFree(p, t)
  \/ \E p \in Page, n \in 1 .. MaxRun, t \in FreeTags : FreeRun(p, n, t)

PoolSpec == PoolInit /\ [][PoolNext]_poolVars

-----------------------------------------------------------------------------
(* The Z80 port: what each routine answers, PP_FAIL being &FF.               *)

PP_FAIL == 255

\* Mutant: the count of start positions lacks its INC A.
PortMissesLastStart(o, n) ==
  IF n = 0 \/ NPages < n THEN PP_FAIL
  ELSE LET hits == {s \in 0 .. NPages - n - 1 : \A k \in 0 .. n - 1 : o[s + k] = Free}
       IN  IF hits = {} THEN PP_FAIL
           ELSE CHOOSE s \in hits : \A r \in hits : s <= r

\* pp_alloc_run(A = t, B = n): NPAGES - n must not borrow; start positions are
\* tried upwards, each checked page by page.
PortAllocRun(o, n) ==
  IF n = 0 \/ NPages < n THEN PP_FAIL
  ELSE LET starts == 0 .. ((NPages - n + 1) % 256) - 1
           hits   == {s \in starts : \A k \in 0 .. n - 1 : o[s + k] = Free}
       IN  IF hits = {} THEN PP_FAIL
           ELSE CHOOSE s \in hits : \A r \in hits : s <= r

\* pp_free_run(A = s, B = n, C = t): the 8-bit sum s + n must not carry and
\* must not pass PP_MAX_PAGES; the tags are read before any page is freed.
PortFreeRunOK(o, s, n, t) ==
  /\ n # 0
  /\ (s + n) \div 256 = 0
  /\ (s + n) % 256 < MaxPages + 1
  /\ \A k \in 0 .. n - 1 : o[s + k] = t

\* pp_free_page(A = p, B = t).
PortFreeOK(o, p, t) == p < MaxPages /\ o[p] = t

-----------------------------------------------------------------------------
\* pagepool.asm: "identical outcome to the Go oracle AllocRun for an identical
\* op sequence", in the register values around every 8-bit edge, on every
\* table a run reaches.
PortRunsAgree ==
  \A n \in Regs, s \in Regs :
    /\ n > 0 => (PortAllocRun(owner, n) = s /\ s # PP_FAIL
                   <=> s \in Page /\ FirstFit(owner, s, n))
    /\ \A t \in FreeTags : 
         /\ PortFreeRunOK(owner, s, n, t) <=> CarriesRun(owner, s, n, t)
         /\ PortFreeOK(owner, s, t) <=> Carries(owner, s, t)

\* A page passes from Free to one holder and back: an allocation takes Free
\* pages only, all or nothing; a held page leaves its holder only through a
\* release that names its tag and covers it; a refused call moves no page.
HandoutsAreFresh ==
  [][ /\ \A p \in Page : owner'[p] # owner[p] /\ answer'.op # "Reserve" =>
           /\ p \in answer'.page .. answer'.page + answer'.n - 1
           /\ {owner[p], owner'[p]} = {Free, answer'.tag}
           /\ owner'[p] = Free <=> answer'.op \in {"Free", "FreeRun"}
      /\ answer'.ok /\ answer'.op \in {"Alloc", "AllocRun"} =>
           \A p \in answer'.page .. answer'.page + answer'.n - 1 : owner'[p] = answer'.tag
      /\ ~answer'.ok => owner' = owner ]_poolVars

\* A run is refused only when no n adjacent Free pages exist anywhere among the
\* present pages, however they came to be fragmented.
RefusedOnlyWhenNoRun ==
  [][ answer'.op \in {"Alloc", "AllocRun"} /\ ~answer'.ok =>
        ~\E S \in SUBSET FreePages(owner) :
           /\ Cardinality(S) = answer'.n
           /\ \A a, b \in S : \A c \in a .. b : c \in S ]_poolVars
=============================================================================
