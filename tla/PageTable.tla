----------------------------- MODULE PageTable -----------------------------
(* The page_owner[] table of the on-SAM IDE: one ownership tag per physical  *)
(* page, and the scans and updates Pool's methods make on it.  Host          *)
(* authority: tools/sam-aarch64/pagepool/pagepool.go.  A method is split     *)
(* into the condition under which it succeeds and the table it leaves, so    *)
(* that the modules above can compose several calls into one step.           *)
EXTENDS Naturals

CONSTANTS
  MaxPages,  \* size of page_owner[] (32 in the code)
  NPages,    \* physical pages present on this machine
  SysPages   \* pages Reserve'd at boot: ROM, BASIC, DOS, resident code

ASSUME PagesAssumption ==
  /\ MaxPages \in Nat
  /\ NPages \in 0 .. MaxPages
  /\ SysPages \subseteq 0 .. MaxPages - 1

VARIABLE owner  \* page_owner[]

Page == 0 .. MaxPages - 1

\* Owner tags, numbered as in the code.
Reserved == 0
Free     == 1
OwnerDoc == 2
OwnerIn  == 3
OwnerOut == 4
OwnerScratch == 5
FirstOwnerTag == 2
Tag == 0 .. 8

\* Pool.Init followed by one Reserve per system page.
BootTable ==
  [p \in Page |-> IF p < NPages /\ p \notin SysPages THEN Free ELSE Reserved]

FreePages(o) == {p \in Page : p < NPages /\ o[p] = Free}

\* Pool.Alloc succeeds with page p, the lowest-numbered Free page.
LowestFree(o, p) == p \in FreePages(o) /\ \A q \in FreePages(o) : p <= q

\* Pool.Free(p, t) succeeds: the page still carries the caller's tag.
Carries(o, p, t) == p \in Page /\ o[p] = t

\* The pages of the run [s, s+n), all of them Free and present.
FreeRunAt(o, s, n) ==
  s + n <= NPages /\ \A i \in s .. s + n - 1 : o[i] = Free

\* Pool.AllocRun succeeds with the lowest start s.
FirstFit(o, s, n) ==
  FreeRunAt(o, s, n) /\ \A r \in 0 .. s - 1 : ~FreeRunAt(o, r, n)

\* Mutant: the validation pass stops after the first page.
ChecksFirstPageOnly(o, s, n, t) ==
  n > 0 /\ s + n <= MaxPages /\ o[s] = t

\* Pool.FreeRun(s, n, t) succeeds: every page of the run carries the tag.
CarriesRun(o, s, n, t) ==
  n > 0 /\ s + n <= MaxPages /\ \A i \in s .. s + n - 1 : o[i] = t

\* The table after pages [s, s+n) are tagged t (a handout or a release).
TagRun(o, s, n, t) ==
  [p \in Page |-> IF p \in s .. s + n - 1 THEN t ELSE o[p]]
=============================================================================
