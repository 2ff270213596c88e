----------------------- MODULE RegistryProofs -----------------------
(***************************************************************************)
(* The registry for every set of processes, every registry to start from   *)
(* and every bound: what the lock excludes, that ids are minted once, that *)
(* the files always pass the validator, what the derived statuses and the  *)
(* repaired queue are, and what follows for refusals, `ready` and gates.   *)
(***************************************************************************)
EXTENDS Registry, FiniteSetTheorems, WellFoundedInduction, TLAPS

USE RegistryAssumption
-----------------------------------------------------------------------------
(* What a command does, for the arguments about processes and locks.       *)

(* A step of p that leaves it running: everybody's command, the lock and   *)
(* the record of who was overtaken stay as they are.                       *)
GoesOn(p) ==
  /\ Running(p)
  /\ \E at \in PcValues \ {"idle"} : pc' = [pc EXCEPT ![p] = at]
  /\ UNCHANGED <<cmd, lock, stale, raced, torn>>

LEMMA ApplyGoesOn ==
  ASSUME NEW p \in Procs, NEW new, Running(p), Apply(p, new)
  PROVE  GoesOn(p) /\ UNCHANGED files
<1>1. \/ pc' = [pc EXCEPT ![p] = "write items"]
      \/ pc' = [pc EXCEPT ![p] = "refused"]
  BY Zenon DEF Apply
<1>2. UNCHANGED <<files, lock, cmd, ghosts>> BY DEF Apply
<1> QED BY <1>1, <1>2 DEF GoesOn, ghosts, PcValues

LEMMA PriorityChangeGoesOn ==
  ASSUME NEW p \in Procs, NEW order, Running(p), ApplyPriorityChange(p, order)
  PROVE  GoesOn(p) /\ UNCHANGED files /\ UNCHANGED ledger
BY DEF ApplyPriorityChange, GoesOn, ghosts, PcValues

LEMMA MutateGoesOn ==
  ASSUME NEW p \in Procs, Mutate(p) PROVE GoesOn(p) /\ UNCHANGED files
<1>1. pc[p] = "loaded" /\ Running(p)
  BY DEF Mutate, AddItem, AddQuestion, Split, SetStatus, SetTitle, SetDesc, SetOwner, SetPR,
         DepAdd, DepRm, Answer, Prioritize, Move, Loaded, Running
<1>2. \/ \E new : Apply(p, new)
      \/ \E order : ApplyPriorityChange(p, order)
  <2>1. CASE AddItem(p) BY <2>1 DEF AddItem
  <2>2. CASE AddQuestion(p) BY <2>2 DEF AddQuestion
  <2>3. CASE Split(p) BY <2>3 DEF Split
  <2>4. CASE SetStatus(p) BY <2>4 DEF SetStatus, Change
  <2>5. CASE SetTitle(p) BY <2>5 DEF SetTitle, Change
  <2>6. CASE SetDesc(p) BY <2>6 DEF SetDesc, Change
  <2>7. CASE SetOwner(p) BY <2>7 DEF SetOwner, Change
  <2>8. CASE SetPR(p) BY <2>8 DEF SetPR, Change
  <2>9. CASE DepAdd(p) BY <2>9 DEF DepAdd, Change
  <2>10. CASE DepRm(p) BY <2>10 DEF DepRm, Change
  <2>11. CASE Answer(p) BY <2>11 DEF Answer
  <2>12. CASE Prioritize(p) BY <2>12 DEF Prioritize
  <2>13. CASE Move(p) BY <2>13 DEF Move
  <2> QED BY <2>1, <2>2, <2>3, <2>4, <2>5, <2>6, <2>7, <2>8, <2>9, <2>10, <2>11, <2>12, <2>13
          DEF Mutate
<1> QED BY <1>1, <1>2, ApplyGoesOn, PriorityChangeGoesOn

LEMMA LoadGoesOn ==
  ASSUME NEW p \in Procs, LoadItems(p) \/ LoadQuestions(p) \/ LoadQueue(p)
  PROVE  GoesOn(p) /\ UNCHANGED files /\ UNCHANGED ledger
BY DEF LoadItems, LoadQuestions, LoadQueue, GoesOn, Running, ghosts, PcValues

(* The writes: the process goes on or ends; whoever else runs past the read *)
(* of that file is overtaken.                                              *)
Writes(p) == WriteItems(p) \/ WriteQuestions(p) \/ WriteQueue(p)
-----------------------------------------------------------------------------
(* The lock. As long as no command that does not take it overlapped        *)
(* another, a process that runs is alone: it holds the lock, or nobody     *)
(* else runs. So nobody is ever overtaken.                                 *)
Alone ==
  \A p \in Procs : Running(p) =>
    IF cmd[p] \in MutatingCommands THEN lock = p
    ELSE \A q \in Procs : Running(q) => q = p

LockInv ==
  /\ DOMAIN pc = Procs /\ DOMAIN cmd = Procs
  /\ stale \subseteq Procs
  /\ ~raced => Alone /\ stale = {}

LEMMA OnlyOneRuns ==
  ASSUME LockInv, ~raced, NEW p \in Procs, NEW q \in Procs, Running(p), Running(q)
  PROVE  p = q
BY DEF LockInv, Alone

LEMMA GoesOnLock == ASSUME NEW p \in Procs, LockInv, GoesOn(p) PROVE LockInv'
<1>1. DOMAIN pc' = Procs /\ \A q \in Procs : Running(q)' <=> Running(q)
  BY DEF GoesOn, LockInv, Running, PcValues
<1> QED BY <1>1 DEF GoesOn, LockInv, Alone

LEMMA EndLock ==
  ASSUME NEW p \in Procs, LockInv, Running(p),
         pc' = [pc EXCEPT ![p] = "idle"], cmd' = [cmd EXCEPT ![p] = "none"],
         lock' = IF lock = p THEN Nobody ELSE lock,
         stale' \subseteq Procs, raced' = raced, ~raced => stale' = {}
  PROVE  LockInv'
<1>1. DOMAIN pc' = Procs /\ DOMAIN cmd' = Procs BY DEF LockInv
<1>2. ~Running(p)' /\ \A q \in Procs \ {p} : (Running(q)' <=> Running(q)) /\ cmd'[q] = cmd[q]
  BY DEF LockInv, Running
<1>3. ~raced => \A q \in Procs : ~Running(q)' BY <1>2, OnlyOneRuns
<1> QED BY <1>1, <1>3 DEF LockInv, Alone

LEMMA BeginLock ==
  ASSUME NEW p \in Procs, NEW c \in Commands, LockInv, Begin(p, c) PROVE LockInv'
<1>1. /\ ~Running(p) /\ (c \in MutatingCommands => lock = Nobody)
      /\ lock' = IF c \in MutatingCommands THEN p ELSE lock
      /\ pc' = [pc EXCEPT ![p] = "items"] /\ cmd' = [cmd EXCEPT ![p] = c]
      /\ raced' = (raced \/ \E r \in Procs : Running(r) /\ {c, cmd[r]} \ MutatingCommands # {})
      /\ stale' = stale
  BY DEF Begin
<1>2. DOMAIN pc' = Procs /\ DOMAIN cmd' = Procs BY <1>1 DEF LockInv
<1>3. /\ Running(p)' /\ cmd'[p] = c
      /\ \A q \in Procs \ {p} : (Running(q)' <=> Running(q)) /\ cmd'[q] = cmd[q]
  BY <1>1 DEF LockInv, Running
<1>4. ~raced' => \A q \in Procs : ~Running(q)
  <2> SUFFICES ASSUME ~raced', NEW q \in Procs, Running(q) PROVE FALSE
    OBVIOUS
  <2>1. ~raced /\ c \in MutatingCommands /\ cmd[q] \in MutatingCommands BY <1>1
  <2>2. lock = q BY <2>1 DEF LockInv, Alone
  <2> QED BY <2>1, <2>2, <1>1
<1>5. ~raced' => Alone'
  <2> SUFFICES ASSUME ~raced', NEW q \in Procs, Running(q)'
               PROVE  IF cmd'[q] \in MutatingCommands THEN lock' = q
                      ELSE \A r \in Procs : Running(r)' => r = q
    BY DEF Alone
  <2> QED BY <1>1, <1>3, <1>4
<1>6. ~raced' => stale' = {} BY <1>1 DEF LockInv
<1> QED BY <1>1, <1>2, <1>5, <1>6 DEF LockInv

LEMMA NobodyOvertaken ==
  ASSUME NEW p \in Procs, NEW notYet, LockInv, ~raced, Running(p)
  PROVE  Overtaken(p, notYet) = {}
BY OnlyOneRuns DEF Overtaken, LockInv, Running

LEMMA WriteLock == ASSUME NEW p \in Procs, LockInv, Writes(p) PROVE LockInv'
<1>1. Running(p) BY DEF Writes, WriteItems, WriteQuestions, WriteQueue, Running
<1>2. CASE WriteItems(p) \/ WriteQuestions(p)
  <2>1. /\ \E at \in PcValues \ {"idle"} : pc' = [pc EXCEPT ![p] = at]
        /\ UNCHANGED <<cmd, lock, raced>>
        /\ \E notYet : stale' = Overtaken(p, notYet)
    BY <1>2 DEF WriteItems, WriteQuestions, PcValues
  <2>2. stale' \subseteq Procs /\ (~raced => stale' = {})
    BY <1>1, <2>1, NobodyOvertaken DEF Overtaken, LockInv
  <2>3. DOMAIN pc' = Procs /\ \A q \in Procs : Running(q)' <=> Running(q)
    BY <1>1, <2>1 DEF LockInv, Running
  <2> QED BY <2>1, <2>2, <2>3 DEF LockInv, Alone
<1>3. CASE WriteQueue(p)
  <2>1. /\ pc' = [pc EXCEPT ![p] = "idle"] /\ cmd' = [cmd EXCEPT ![p] = "none"]
        /\ lock' = (IF lock = p THEN Nobody ELSE lock) /\ raced' = raced
        /\ \E notYet : stale' = Overtaken(p, notYet) \ {p}
    BY <1>3 DEF WriteQueue
  <2>2. stale' \subseteq Procs /\ (~raced => stale' = {})
    BY <1>1, <2>1, NobodyOvertaken DEF Overtaken, LockInv
  <2> QED BY <1>1, <2>1, <2>2, EndLock
<1> QED BY <1>2, <1>3 DEF Writes

LEMMA EndsLock ==
  ASSUME NEW p \in Procs, LockInv, Reject(p) \/ Refuse(p) \/ Crash(p) PROVE LockInv'
<1>1. Running(p) /\ End(p) /\ raced' = raced BY DEF Reject, Refuse, Crash, Running
<1>2. stale' \subseteq Procs /\ (~raced => stale' = {}) BY <1>1 DEF End, LockInv
<1> QED BY <1>1, <1>2, EndLock DEF End

LEMMA LockInvHolds == Spec => []LockInv
<1>1. Init => LockInv BY DEF Init, LockInv, Alone, Running
<1>2. LockInv /\ [Next]_vars => LockInv'
  <2> SUFFICES ASSUME LockInv, [Next]_vars PROVE LockInv'
    OBVIOUS
  <2>1. ASSUME NEW p \in Procs, NEW c \in Commands, Begin(p, c) PROVE LockInv'
    BY <2>1, BeginLock
  <2>2. ASSUME NEW p \in Procs, NEW c \in Commands, GiveUp(p, c) PROVE LockInv'
    BY <2>2 DEF GiveUp, ghosts, LockInv, Alone, Running
  <2>3. ASSUME NEW p \in Procs, Step(p) PROVE LockInv'
    BY <2>3, LoadGoesOn, MutateGoesOn, GoesOnLock, WriteLock, EndsLock DEF Step, Writes
  <2>4. ASSUME NEW p \in Procs, Crash(p) PROVE LockInv' BY <2>4, EndsLock
  <2>5. CASE UNCHANGED vars BY <2>5 DEF vars, LockInv, Alone, Running
  <2> QED BY <2>1, <2>2, <2>3, <2>4, <2>5 DEF Next
<1> QED BY <1>1, <1>2, PTL DEF Spec

(* Commands that all take the lock never write a copy that another's write *)
(* overtook, for any number of processes, killed ones too (lock.go's       *)
(* acquireLock around every mutating command).                             *)
THEOREM LockedUpdatesAreKept == Spec => NoUpdateIsLost
<1>1. LockInv => [\A p \in Procs : WriteItems(p) \/ WriteQuestions(p) \/ WriteQueue(p) =>
                    p \notin stale \/ raced]_vars
  BY DEF LockInv
<1> QED BY <1>1, LockInvHolds, PTL DEF NoUpdateIsLost
-----------------------------------------------------------------------------
(* Numbers. *)

(* A set of naturals that is not empty has a least element.                *)
LEMMA LeastExists == ASSUME NEW S \in SUBSET Nat, S # {} PROVE \E lo \in S : \A x \in S : lo <= x
<1>1. PICK lo \in S : \A x \in S : ~(<<x, lo>> \in OpToRel(<, Nat))
  BY NatLessThanWellFounded, WFMin
<1>2. \A x \in S : lo <= x
  <2> SUFFICES ASSUME NEW x \in S, x < lo PROVE FALSE
    OBVIOUS
  <2>1. <<x, lo>> \in OpToRel(<, Nat) BY DEF OpToRel
  <2> QED BY <1>1, <2>1
<1> QED BY <1>2

LEMMA MinIsLeast ==
  ASSUME NEW S \in SUBSET Nat, S # {} PROVE Min(S) \in S /\ \A x \in S : Min(S) <= x
BY LeastExists DEF Min

(* The bound is the least one, which must be in the set.                   *)
LEMMA MaxIsGreatest ==
  ASSUME NEW S \in SUBSET Nat, S # {}, NEW b \in Nat, \A x \in S : x <= b
  PROVE  Max(S) \in S /\ \A x \in S : Max(S) >= x
<1> DEFINE Bounds == {n \in Nat : \A x \in S : x <= n}
<1>1. PICK hi \in Bounds : \A n \in Bounds : hi <= n
  <2>1. Bounds \in SUBSET Nat /\ Bounds # {} OBVIOUS
  <2> HIDE DEF Bounds
  <2> QED BY <2>1, LeastExists
<1>2. hi \in S
  <2> SUFFICES ASSUME hi \notin S PROVE FALSE
    OBVIOUS
  <2>1. hi \in Nat /\ \A x \in S : x <= hi OBVIOUS
  <2>2. \A x \in S : x \in Nat /\ x <= hi - 1 BY <2>1
  <2>3. hi - 1 \in Nat
    <3>1. PICK x \in S : TRUE OBVIOUS
    <3>2. x \in Nat /\ x <= hi - 1 BY <3>1, <2>2
    <3> QED BY <3>2, <2>1
  <2>4. hi - 1 \in Bounds BY <2>2, <2>3
  <2> QED BY <1>1, <2>1, <2>4
<1>3. \A x \in S : hi >= x BY <1>1
<1> QED BY <1>2, <1>3 DEF Max

(* The numbers of a sequence are bounded: take the shortest prefix of which *)
(* it is not so.                                                           *)
LEMMA SequenceBounded ==
  ASSUME NEW f \in Seq(Nat) PROVE \E b \in Nat : \A k \in DOMAIN f : f[k] <= b
<1> DEFINE Bad == {n \in 0 .. Len(f) : \A b \in Nat : ~ \A k \in 1 .. n : f[k] <= b}
<1>a. Len(f) \in Nat /\ DOMAIN f = 1 .. Len(f) /\ \A k \in 1 .. Len(f) : f[k] \in Nat OBVIOUS
<1>1. CASE Bad = {}
  <2>1. Len(f) \in 0 .. Len(f) BY <1>a
  <2>2. Len(f) \notin Bad BY <1>1
  <2> QED BY <1>a, <2>1, <2>2
<1>2. CASE Bad # {}
  <2>1. PICK n \in Bad : \A m \in Bad : n <= m
    <3>1. Bad \in SUBSET Nat OBVIOUS
    <3> HIDE DEF Bad
    <3> QED BY <3>1, <1>2, LeastExists
  <2>2. n \in 0 .. Len(f) /\ \A b \in Nat : ~ \A k \in 1 .. n : f[k] <= b OBVIOUS
  <2>3. n # 0
    <3> SUFFICES ASSUME n = 0 PROVE FALSE
      OBVIOUS
    <3>1. \A k \in 1 .. n : f[k] <= 0 OBVIOUS
    <3> QED BY <3>1, <2>2
  <2>4. n \in Nat /\ n - 1 \in 0 .. Len(f) /\ n \in 1 .. Len(f) BY <1>a, <2>2, <2>3
  <2>a. n - 1 \notin Bad
    <3> HIDE DEF Bad
    <3> QED BY <2>1, <2>4
  <2>5. PICK b \in Nat : \A k \in 1 .. n - 1 : f[k] <= b BY <2>4, <2>a
  <2>6. f[n] \in Nat BY <1>a, <2>4
  <2> DEFINE c == IF b <= f[n] THEN f[n] ELSE b
  <2>7. c \in Nat /\ b <= c /\ f[n] <= c
    <3> HIDE DEF Bad
    <3> QED BY <2>6
  <2>8. \A k \in 1 .. n : f[k] <= c
    <3> HIDE DEF Bad, c
    <3> SUFFICES ASSUME NEW k \in 1 .. n PROVE f[k] <= c
      OBVIOUS
    <3>1. f[k] \in Nat /\ (k = n \/ k \in 1 .. n - 1) BY <1>a, <2>4
    <3> QED BY <3>1, <2>5, <2>7
  <2> QED BY <2>2, <2>7, <2>8
<1> QED BY <1>1, <1>2
-----------------------------------------------------------------------------
(* The ledger. *)

Line(id) == \E k \in DOMAIN ledger : ledger[k] = id

LedgerTyped == ledger \in Seq(Seq(Nat)) /\ \A k \in DOMAIN ledger : IsId(ledger[k])

LEMMA LinesOfLedger == \A id : id \in ToSet(ledger) <=> Line(id)
BY DEF ToSet, Line

LEMMA LedgerFinite == ASSUME LedgerTyped PROVE IsFiniteSet(ToSet(ledger))
<1>0. Len(ledger) \in Nat /\ DOMAIN ledger = 1 .. Len(ledger) /\ ledger \in [1 .. Len(ledger) -> Seq(Nat)]
  BY DEF LedgerTyped
<1>1. ledger \in Surjection(1 .. Len(ledger), ToSet(ledger)) BY <1>0 DEF Surjection, ToSet
<1>2. IsFiniteSet(1 .. Len(ledger)) BY <1>0, FS_Interval
<1> QED BY <1>1, <1>2, FS_Surjection

(* A seed's ids, each on a line of its own (FS_PigeonHole: the injection   *)
(* SetToSeq chooses leaves none out).                                      *)
LEMMA LedgerOf ==
  ASSUME NEW S, IsFiniteSet(S)
  PROVE  /\ SetToSeq(S) \in Seq(S) /\ IsInjective(SetToSeq(S)) /\ ToSet(SetToSeq(S)) = S
<1> DEFINE n == Cardinality(S)
           f == SetToSeq(S)
<1>1. n \in Nat /\ \E g \in [1 .. n -> S] : IsInjective(g)
  BY FS_CardinalityType DEF ExistsBijection, Bijection, Injection
<1>2. f \in [1 .. n -> S] /\ IsInjective(f) BY <1>1 DEF SetToSeq
<1> HIDE DEF f
<1>3. f \in Seq(S) /\ DOMAIN f = 1 .. n BY <1>1, <1>2
<1>4. ASSUME NEW x \in S, \A k \in 1 .. n : f[k] # x PROVE FALSE
  <2>1. IsFiniteSet(S \ {x}) /\ Cardinality(S \ {x}) = n - 1 BY FS_RemoveElement
  <2>2. IsFiniteSet(1 .. n) /\ Cardinality(1 .. n) = n
    <3>1. IsFiniteSet(1 .. n) /\ Cardinality(1 .. n) = IF 1 > n THEN 0 ELSE n - 1 + 1
      BY <1>1, FS_Interval
    <3> QED BY <3>1, <1>1
  <2>3. f \in [1 .. n -> S \ {x}] BY <1>2, <1>4
  <2>4. Cardinality(S \ {x}) < Cardinality(1 .. n) BY <1>1, <2>1, <2>2
  <2>5. \E a, b \in 1 .. n : a # b /\ f[a] = f[b]
    <3> HIDE DEF n
    <3> QED BY <2>1, <2>2, <2>3, <2>4, FS_PigeonHole
  <2> QED BY <2>5, <1>2, <1>3 DEF IsInjective
<1>5. ToSet(f) = S BY <1>2, <1>3, <1>4 DEF ToSet
<1> QED BY <1>2, <1>3, <1>5 DEF f
-----------------------------------------------------------------------------
(* Minting. *)

(* The number after the highest of those on the ledger is on no line.      *)
LEMMA ItemIDIsNew ==
  ASSUME LedgerTyped, NEW its, DOMAIN its \subseteq ToSet(ledger)
  PROVE  LET id == NextItemID(its, ToSet(ledger)) IN IsId(id) /\ id \notin ToSet(ledger)
<1> DEFINE L == ToSet(ledger)
           used == {id[1] : id \in {i \in DOMAIN its \cup L : Len(i) = 1}}
           f == [k \in DOMAIN ledger |-> IF Len(ledger[k]) = 1 THEN ledger[k][1] ELSE 0]
<1>1. \A id \in L : IsId(id) BY DEF LedgerTyped, ToSet
<1>2. DOMAIN its \cup L = L OBVIOUS
<1>3. used \in SUBSET Nat BY <1>1, <1>2 DEF IsId
<1>4. f \in Seq(Nat)
  <2>1. \A k \in 1 .. Len(ledger) : Len(ledger[k]) = 1 => ledger[k][1] \in Nat
    BY DEF LedgerTyped
  <2>2. Len(ledger) \in Nat /\ DOMAIN ledger = 1 .. Len(ledger) BY DEF LedgerTyped
  <2>3. f \in [1 .. Len(ledger) -> Nat] BY <2>1, <2>2
  <2> HIDE DEF f
  <2> QED BY <2>2, <2>3
<1>5. PICK b \in Nat : \A k \in DOMAIN f : f[k] <= b
  <2> HIDE DEF f
  <2> QED BY <1>4, SequenceBounded
<1>6. \A x \in used : x <= b
  <2> SUFFICES ASSUME NEW id \in L, Len(id) = 1 PROVE id[1] <= b
    BY <1>2
  <2>1. PICK k \in DOMAIN ledger : ledger[k] = id BY DEF ToSet
  <2> QED BY <2>1, <1>5
<1>7. PICK n \in Nat \ {0} : n \notin used /\ NextItemID(its, L) = <<n>>
  <2>1. CASE used = {} BY <2>1 DEF NextItemID, TopLevel
  <2>2. CASE used # {}
    <3> DEFINE m == Max(used)
    <3>1. m \in used /\ \A x \in used : m >= x
      <4> HIDE DEF used, L
      <4> QED BY <2>2, <1>3, <1>6, MaxIsGreatest
    <3>2. NextItemID(its, L) = <<m + 1>> BY <2>2 DEF NextItemID, TopLevel
    <3> HIDE DEF m, used
    <3>3. m \in Nat /\ m + 1 \notin used BY <3>1, <1>3
    <3> QED BY <3>2, <3>3
  <2> QED BY <2>1, <2>2
<1>8. <<n>> \notin L
  <2> SUFFICES ASSUME <<n>> \in L PROVE FALSE
    OBVIOUS
  <2>1. Len(<<n>>) = 1 /\ <<n>>[1] = n OBVIOUS
  <2>2. n \in used BY <2>1, <1>2
  <2> QED BY <2>2, <1>7
<1>9. IsId(<<n>>) BY DEF IsId, IsQuestion
<1> QED BY <1>7, <1>8, <1>9

LEMMA QuestionIDIsNew ==
  ASSUME LedgerTyped, NEW qs, qs \subseteq ToSet(ledger)
  PROVE  LET id == NextQuestionID(qs, ToSet(ledger)) IN IsId(id) /\ id \notin ToSet(ledger)
<1> DEFINE L == ToSet(ledger)
           used == {id[2] : id \in {i \in qs \cup L : IsQuestion(i)}}
           f == [k \in DOMAIN ledger |-> IF IsQuestion(ledger[k]) THEN ledger[k][2] ELSE 0]
<1>1. \A id \in L : IsId(id) BY DEF LedgerTyped, ToSet
<1>2. qs \cup L = L OBVIOUS
<1>3. used \in SUBSET Nat
  <2>1. \A id \in L : IsQuestion(id) => id[2] \in Nat BY <1>1 DEF IsId
  <2> QED BY <1>2, <2>1
<1>4. f \in Seq(Nat)
  <2>1. \A k \in 1 .. Len(ledger) : IsQuestion(ledger[k]) => ledger[k][2] \in Nat
    BY DEF LedgerTyped, IsId
  <2>2. Len(ledger) \in Nat /\ DOMAIN ledger = 1 .. Len(ledger) BY DEF LedgerTyped
  <2>3. f \in [1 .. Len(ledger) -> Nat] BY <2>1, <2>2
  <2> HIDE DEF f
  <2> QED BY <2>2, <2>3
<1>5. PICK b \in Nat : \A k \in DOMAIN f : f[k] <= b
  <2> HIDE DEF f
  <2> QED BY <1>4, SequenceBounded
<1>6. \A x \in used : x <= b
  <2> SUFFICES ASSUME NEW id \in L, IsQuestion(id) PROVE id[2] <= b
    BY <1>2
  <2>1. PICK k \in DOMAIN ledger : ledger[k] = id BY DEF ToSet
  <2> QED BY <2>1, <1>5
<1>7. PICK n \in Nat \ {0} : n \notin used /\ NextQuestionID(qs, L) = <<0, n>>
  <2>1. CASE used = {} BY <2>1 DEF NextQuestionID, Question
  <2>2. CASE used # {}
    <3> DEFINE m == Max(used)
    <3>1. m \in used /\ \A x \in used : m >= x
      <4> HIDE DEF used, L
      <4> QED BY <2>2, <1>3, <1>6, MaxIsGreatest
    <3>2. NextQuestionID(qs, L) = <<0, m + 1>> BY <2>2 DEF NextQuestionID, Question
    <3> HIDE DEF m, used
    <3>3. m \in Nat /\ m + 1 \notin used BY <3>1, <1>3
    <3> QED BY <3>2, <3>3
  <2> QED BY <2>1, <2>2
<1>8. <<0, n>> \notin L
  <2> SUFFICES ASSUME <<0, n>> \in L PROVE FALSE
    OBVIOUS
  <2>1. IsQuestion(<<0, n>>) /\ <<0, n>>[2] = n BY DEF IsQuestion
  <2>2. n \in used BY <2>1, <1>2
  <2> QED BY <2>2, <1>7
<1>9. IsId(<<0, n>>) BY DEF IsId, IsQuestion
<1> QED BY <1>7, <1>8, <1>9

LEMMA SubIDIsNew ==
  ASSUME LedgerTyped, NEW taken, taken = ToSet(ledger), NEW parent \in taken,
         NEW id \in SubIDs(parent, taken)
  PROVE  IsId(id) /\ id \notin taken
<1> DEFINE free == {n \in 1 .. Cardinality(taken) + 1 : Append(parent, n) \notin taken}
           allowed == {n \in free : Len(parent) \in {1, 3} => n <= Letters}
<1>1. Cardinality(taken) \in Nat BY LedgerFinite, FS_CardinalityType
<1>2. allowed \in SUBSET Nat BY <1>1
<1>3. allowed # {} /\ id = Append(parent, Min(allowed)) BY DEF SubIDs
<1>4. Min(allowed) \in allowed
  <2> HIDE DEF allowed
  <2> QED BY <1>2, <1>3, MinIsLeast
<1>5. PICK n \in Nat : id = Append(parent, n) /\ id \notin taken BY <1>2, <1>3, <1>4
<1>6. IsId(parent) BY DEF LedgerTyped, ToSet
<1>7. /\ parent \in Seq(Nat) /\ Len(parent) \in Nat /\ Len(parent) >= 1
  BY <1>6 DEF IsId
<1>8. id \in Seq(Nat) /\ Len(id) = Len(parent) + 1 BY <1>5, <1>7
<1> QED BY <1>5, <1>7, <1>8 DEF IsId

-----------------------------------------------------------------------------
(* Induction and recursion over numbers, without operators for arguments.  *)

(* What holds of 0, and of n + 1 when it does of n, holds of every number. *)
LEMMA Climb ==
  ASSUME NEW S, 0 \in S, \A n \in Nat : n \in S => n + 1 \in S
  PROVE  \A n \in Nat : n \in S
<1> DEFINE Bad == {n \in Nat : n \notin S}
<1> SUFFICES ASSUME Bad # {} PROVE FALSE
  OBVIOUS
<1>1. PICK lo \in Bad : \A m \in Bad : lo <= m
  <2>1. Bad \in SUBSET Nat OBVIOUS
  <2> HIDE DEF Bad
  <2> QED BY <2>1, LeastExists
<1>2. lo \in Nat /\ lo \notin S OBVIOUS
<1>3. lo - 1 \in Nat /\ lo = (lo - 1) + 1 /\ ~(lo <= lo - 1) BY <1>2
<1>4. lo - 1 \notin Bad
  <2> HIDE DEF Bad
  <2> QED BY <1>1, <1>3
<1>5. lo - 1 \in S BY <1>3, <1>4
<1> QED BY <1>2, <1>3, <1>5

(* A value for each of n steps, given the first and how each is made.      *)
Stepped(g, n, V, v, s) ==
  g \in [0 .. n -> V] /\ g[0] = v /\ \A i \in 1 .. n : g[i] = s[i][g[i - 1]]

LEMMA Recursion ==
  ASSUME NEW n \in Nat, NEW V, NEW v \in V, NEW s \in [1 .. n -> [V -> V]]
  PROVE  \E g : Stepped(g, n, V, v, s)
<1> DEFINE S == {m \in Nat : m <= n => \E g : Stepped(g, m, V, v, s)}
<1>1. 0 \in S
  <2>1. PICK g : g = [i \in 0 .. 0 |-> v] OBVIOUS
  <2>2. g \in [0 .. 0 -> V] /\ g[0] = v BY <2>1
  <2>3. \A i \in 1 .. 0 : FALSE OBVIOUS
  <2>4. Stepped(g, 0, V, v, s) BY <2>2, <2>3, Zenon DEF Stepped
  <2> QED BY <2>4
<1>2. ASSUME NEW m \in Nat, m \in S PROVE m + 1 \in S
  <2> SUFFICES ASSUME m + 1 <= n PROVE \E g : Stepped(g, m + 1, V, v, s)
    OBVIOUS
  <2>1. PICK p \in 1 .. n : p = m + 1 /\ p - 1 = m /\ m <= n OBVIOUS
  <2>2. PICK g : Stepped(g, m, V, v, s) BY <1>2, <2>1
  <2>3. g \in [0 .. m -> V] /\ g[0] = v /\ \A i \in 1 .. m : g[i] = s[i][g[i - 1]]
    BY <2>2, Zenon DEF Stepped
  <2>4. m \in 0 .. m /\ 0 \in 0 .. m /\ m \in 0 .. p /\ 0 \in 0 .. p BY <2>1
  <2>5. PICK c \in V : c = s[p][g[m]]
    <3>1. g[m] \in V /\ s[p] \in [V -> V] BY <2>3, <2>4, Zenon
    <3> QED BY <3>1
  <2>6. PICK f : f = [i \in 0 .. p |-> IF i = p THEN c ELSE g[i]] OBVIOUS
  <2>7. \A i \in 0 .. p : i = p \/ i \in 0 .. m BY <2>1
  <2>8. \A i \in 0 .. m : i # p /\ i \in 0 .. p BY <2>1
  <2>9. \A i \in 0 .. m : f[i] = g[i] BY <2>6, <2>8, Zenon
  <2>10. p \in 0 .. p /\ f[p] = c
    <3>1. p \in 0 .. p BY <2>1
    <3> QED BY <2>6, <3>1, Zenon
  <2>11. f \in [0 .. p -> V]
    <3>1. \A i \in 0 .. p : f[i] \in V BY <2>3, <2>7, <2>9, <2>10, Zenon
    <3> QED BY <2>6, <3>1, Zenon
  <2>12. f[0] = v BY <2>3, <2>4, <2>9, Zenon
  <2>13. ASSUME NEW i \in 1 .. p PROVE f[i] = s[i][f[i - 1]]
    <3>1. CASE i = p
      <4>1. f[m] = g[m] BY <2>4, <2>9, Zenon
      <4> QED BY <2>1, <2>5, <2>10, <3>1, <4>1, Zenon
    <3>2. CASE i # p
      <4>1. i \in 1 .. m /\ i \in 0 .. m /\ i - 1 \in 0 .. m BY <2>1, <3>2
      <4>2. f[i] = g[i] /\ f[i - 1] = g[i - 1] BY <2>9, <4>1, Zenon
      <4> QED BY <2>3, <4>1, <4>2, Zenon
    <3> QED BY <3>1, <3>2
  <2>14. Stepped(f, p, V, v, s) BY <2>11, <2>12, <2>13, Zenon DEF Stepped
  <2> QED BY <2>1, <2>14, Zenon
<1>3. \A m \in Nat : m \in S
  <2> HIDE DEF S
  <2> QED BY <1>1, <1>2, Climb
<1>4. n \in S BY <1>3, Zenon
<1> QED BY <1>4

-----------------------------------------------------------------------------
LEMMA ClimbTo ==
  ASSUME NEW n \in Nat, NEW S, 0 \in S, \A m \in 0 .. n : m < n /\ m \in S => m + 1 \in S
  PROVE  \A m \in 0 .. n : m \in S
<1> DEFINE T == {m \in Nat : m <= n => m \in S}
<1>1. 0 \in T OBVIOUS
<1>2. ASSUME NEW m \in Nat, m \in T PROVE m + 1 \in T
  <2> SUFFICES ASSUME m + 1 <= n PROVE m + 1 \in S
    OBVIOUS
  <2>1. m \in 0 .. n /\ m < n /\ m \in S BY <1>2
  <2> QED BY <2>1
<1>3. \A m \in Nat : m \in T
  <2> HIDE DEF T
  <2> QED BY <1>1, <1>2, Climb
<1>4. ASSUME NEW m \in 0 .. n PROVE m \in S
  <2>1. m \in Nat /\ m <= n OBVIOUS
  <2>2. m \in T BY <1>3, <2>1, Zenon
  <2> QED BY <2>1, <2>2
<1> QED BY <1>4, Zenon

(* Sequences. *)
LEMMA SeqFacts ==
  ASSUME NEW X, NEW s \in Seq(X)
  PROVE  /\ Len(s) \in Nat /\ DOMAIN s = 1 .. Len(s) /\ \A k \in 1 .. Len(s) : s[k] \in X
         /\ ToSet(s) \subseteq X /\ s \in Seq(ToSet(s))
         /\ s = <<>> <=> ToSet(s) = {}
<1>1. Len(s) \in Nat /\ DOMAIN s = 1 .. Len(s) /\ s \in [1 .. Len(s) -> X] OBVIOUS
<1>2. s \in [1 .. Len(s) -> ToSet(s)] BY <1>1 DEF ToSet
<1>3. s = <<>> <=> ToSet(s) = {}
  <2>1. CASE Len(s) = 0
    <3>1. s = <<>> BY <2>1
    <3>2. ToSet(s) = {} BY <1>1, <2>1 DEF ToSet
    <3> QED BY <3>1, <3>2
  <2>2. CASE Len(s) # 0
    <3>1. s[1] \in ToSet(s) BY <1>1, <2>2 DEF ToSet
    <3>2. s # <<>> BY <2>2
    <3> QED BY <3>1, <3>2
  <2> QED BY <2>1, <2>2
<1>4. s \in Seq(ToSet(s)) BY <1>1, <1>2
<1> QED BY <1>1, <1>3, <1>4 DEF ToSet

LEMMA SeqConcat ==
  ASSUME NEW X, NEW s \in Seq(X), NEW t \in Seq(X)
  PROVE  s \o t \in Seq(X) /\ ToSet(s \o t) = ToSet(s) \cup ToSet(t)
<1>1. ToSet(s \o t) = ToSet(s) \cup ToSet(t)
  <2>1. ASSUME NEW y \in ToSet(s \o t) PROVE y \in ToSet(s) \cup ToSet(t)
    <3>1. PICK i \in DOMAIN (s \o t) : (s \o t)[i] = y BY DEF ToSet
    <3>2. i \in 1 .. Len(s) + Len(t) BY <3>1
    <3>3. CASE i \in 1 .. Len(s) BY <3>1, <3>3 DEF ToSet
    <3>4. CASE i \notin 1 .. Len(s)
      <4>1. i - Len(s) \in DOMAIN t /\ (s \o t)[i] = t[i - Len(s)] BY <3>2, <3>4
      <4> QED BY <3>1, <4>1 DEF ToSet
    <3> QED BY <3>3, <3>4
  <2>2. ASSUME NEW y \in ToSet(s) PROVE y \in ToSet(s \o t)
    <3>1. PICK i \in DOMAIN s : s[i] = y BY DEF ToSet
    <3>2. i \in DOMAIN (s \o t) /\ (s \o t)[i] = y BY <3>1
    <3> QED BY <3>2 DEF ToSet
  <2>3. ASSUME NEW y \in ToSet(t) PROVE y \in ToSet(s \o t)
    <3>1. PICK i \in DOMAIN t : t[i] = y BY DEF ToSet
    <3>2. Len(s) + i \in DOMAIN (s \o t) /\ (s \o t)[Len(s) + i] = y BY <3>1
    <3> QED BY <3>2 DEF ToSet
  <2> QED BY <2>1, <2>2, <2>3
<1> QED BY <1>1

LEMMA SeqAppend ==
  ASSUME NEW X, NEW s \in Seq(X), NEW x \in X
  PROVE  Append(s, x) \in Seq(X) /\ ToSet(Append(s, x)) = ToSet(s) \cup {x}
<1>2. ToSet(Append(s, x)) = ToSet(s) \cup {x}
  <2>1. ASSUME NEW y \in ToSet(Append(s, x)) PROVE y \in ToSet(s) \cup {x}
    <3>1. PICK i \in DOMAIN Append(s, x) : Append(s, x)[i] = y BY DEF ToSet
    <3>2. i \in 1 .. Len(s) + 1 BY <3>1
    <3>3. CASE i = Len(s) + 1 BY <3>1, <3>3
    <3>4. CASE i # Len(s) + 1
      <4>1. i \in DOMAIN s /\ Append(s, x)[i] = s[i] BY <3>2, <3>4
      <4> QED BY <3>1, <4>1 DEF ToSet
    <3> QED BY <3>3, <3>4
  <2>2. ASSUME NEW y \in ToSet(s) PROVE y \in ToSet(Append(s, x))
    <3>1. PICK i \in DOMAIN s : s[i] = y BY DEF ToSet
    <3>2. i \in DOMAIN Append(s, x) /\ Append(s, x)[i] = y BY <3>1
    <3> QED BY <3>2 DEF ToSet
  <2>3. x \in ToSet(Append(s, x))
    <3>1. Len(s) + 1 \in DOMAIN Append(s, x) /\ Append(s, x)[Len(s) + 1] = x OBVIOUS
    <3> QED BY <3>1 DEF ToSet
  <2> QED BY <2>1, <2>2, <2>3
<1> QED BY <1>2

LEMMA SeqOne == ASSUME NEW X, NEW x \in X PROVE <<x>> \in Seq(X) /\ ToSet(<<x>>) = {x}
<1>1. DOMAIN <<x>> = {1} /\ <<x>>[1] = x OBVIOUS
<1> QED BY <1>1 DEF ToSet

(* Among keeps of a sequence what is in the set.                           *)
KeepIs(f, seq, S) ==
  f = [k \in 0 .. Len(seq) |->
         IF k = 0 THEN <<>>
         ELSE IF seq[k] \in S THEN Append(f[k - 1], seq[k]) ELSE f[k - 1]]

LEMMA KeepExists ==
  ASSUME NEW X, NEW seq \in Seq(X), NEW S PROVE \E f : KeepIs(f, seq, S)
<1> DEFINE n == Len(seq)
           V == Seq(X)
<1>1. n \in Nat /\ \A k \in 1 .. n : seq[k] \in X BY SeqFacts
<1>2. PICK s : s = [k \in 1 .. n |-> [a \in V |-> IF seq[k] \in S THEN Append(a, seq[k]) ELSE a]]
  OBVIOUS
<1>3. s \in [1 .. n -> [V -> V]]
  <2>1. \A k \in 1 .. n : [a \in V |-> IF seq[k] \in S THEN Append(a, seq[k]) ELSE a] \in [V -> V]
    BY <1>1
  <2> HIDE DEF n, V
  <2> QED BY <1>2, <2>1
<1>4. <<>> \in V OBVIOUS
<1> HIDE DEF V, n
<1>5. PICK g : Stepped(g, n, V, <<>>, s) BY <1>1, <1>3, <1>4, Recursion
<1>6. g \in [0 .. n -> V] /\ g[0] = <<>> /\ \A i \in 1 .. n : g[i] = s[i][g[i - 1]]
  BY <1>5, Zenon DEF Stepped
<1>7. ASSUME NEW k \in 0 .. n
      PROVE  g[k] = IF k = 0 THEN <<>>
                    ELSE IF seq[k] \in S THEN Append(g[k - 1], seq[k]) ELSE g[k - 1]
  <2>1. CASE k = 0 BY <1>6, <2>1
  <2>2. CASE k # 0
    <3>1. k \in 1 .. n /\ k - 1 \in 0 .. n BY <1>1, <2>2
    <3>2. g[k - 1] \in V BY <1>6, <3>1
    <3>3. s[k] = [a \in V |-> IF seq[k] \in S THEN Append(a, seq[k]) ELSE a] BY <1>2, <3>1, Zenon
    <3>4. s[k][g[k - 1]] = IF seq[k] \in S THEN Append(g[k - 1], seq[k]) ELSE g[k - 1]
      BY <3>2, <3>3, Zenon
    <3> QED BY <1>6, <2>2, <3>1, <3>4, Zenon
  <2> QED BY <2>1, <2>2
<1>8. g = [k \in 0 .. n |-> g[k]] BY <1>6, Zenon
<1> QED BY <1>7, <1>8, Zenon DEF KeepIs, n

LEMMA AmongIs ==
  ASSUME NEW X, NEW seq \in Seq(X), NEW S
  PROVE  Among(seq, S) \in Seq(X) /\ ToSet(Among(seq, S)) = ToSet(seq) \cap S
<1>1. PICK f : KeepIs(f, seq, S) /\ Among(seq, S) = f[Len(seq)]
  <2>1. PICK g : KeepIs(g, seq, S) BY KeepExists
  <2>2. PICK f : f = (CHOOSE h : KeepIs(h, seq, S)) /\ KeepIs(f, seq, S) BY <2>1, Zenon
  <2>3. Among(seq, S) = f[Len(seq)] BY <2>2, Zenon DEF Among, KeepIs
  <2> QED BY <2>2, <2>3
<1> DEFINE n == Len(seq)
           Upto(m) == {seq[i] : i \in 1 .. m}
           T == {m \in 0 .. n : f[m] \in Seq(X) /\ ToSet(f[m]) = Upto(m) \cap S}
<1>2. n \in Nat /\ \A k \in 1 .. n : seq[k] \in X BY SeqFacts
<1>3. /\ f[0] = <<>>
      /\ \A k \in 1 .. n : f[k] = IF seq[k] \in S THEN Append(f[k - 1], seq[k]) ELSE f[k - 1]
  <2>1. 0 \in 0 .. n /\ \A k \in 1 .. n : k \in 0 .. n /\ k # 0 BY <1>2
  <2> QED BY <1>1, <2>1, Zenon DEF KeepIs
<1>4. 0 \in T
  <2>1. Upto(0) = {} OBVIOUS
  <2>2. f[0] \in Seq(X) /\ ToSet(f[0]) = {} BY <1>3 DEF ToSet
  <2> QED BY <1>2, <2>1, <2>2
<1>5. ASSUME NEW m \in 0 .. n, m < n, m \in T PROVE m + 1 \in T
  <2>1. PICK k \in 1 .. n : k = m + 1 /\ k - 1 = m /\ k \in 0 .. n BY <1>2, <1>5
  <2>2. f[m] \in Seq(X) /\ ToSet(f[m]) = Upto(m) \cap S BY <1>5
  <2>3. Upto(k) = Upto(m) \cup {seq[k]}
    <3>1. \A i : i \in 1 .. k <=> i \in 1 .. m \/ i = k BY <2>1
    <3> QED BY <3>1
  <2>4. seq[k] \in X BY <1>2
  <2>5. f[k] = IF seq[k] \in S THEN Append(f[m], seq[k]) ELSE f[m] BY <1>3, <2>1, Zenon
  <2> HIDE DEF Upto
  <2>6. f[k] \in Seq(X) /\ ToSet(f[k]) = Upto(k) \cap S
    <3>1. CASE seq[k] \in S
      <4>1. Append(f[m], seq[k]) \in Seq(X)
            /\ ToSet(Append(f[m], seq[k])) = ToSet(f[m]) \cup {seq[k]}
        <5>1. f[m] \in Seq(X) BY <2>2
        <5> QED BY <2>4, <5>1, SeqAppend
      <4> QED BY <2>2, <2>3, <2>5, <3>1, <4>1
    <3>2. CASE seq[k] \notin S BY <2>2, <2>3, <2>5, <3>2
    <3> QED BY <3>1, <3>2
  <2> QED BY <2>1, <2>6
<1>6. n \in T
  <2>1. n \in 0 .. n BY <1>2
  <2> HIDE DEF T
  <2> QED BY <1>2, <1>4, <1>5, <2>1, ClimbTo
<1>7. Upto(n) = ToSet(seq) BY SeqFacts DEF ToSet
<1> QED BY <1>1, <1>6, <1>7

(* FlattenSeq has what its sequences have.                                 *)
FlatIs(f, ss) ==
  f = [i \in 1 .. Len(ss) |-> IF i = 1 THEN ss[i] ELSE f[i - 1] \o ss[i]]

LEMMA FlatExists ==
  ASSUME NEW X, NEW ss \in Seq(Seq(X)) PROVE \E f : FlatIs(f, ss)
<1> DEFINE n == Len(ss)
           V == Seq(X)
<1>1. n \in Nat /\ \A k \in 1 .. n : ss[k] \in Seq(X) BY SeqFacts
<1>2. PICK s : s = [k \in 1 .. n |-> [a \in V |-> IF k = 1 THEN ss[k] ELSE a \o ss[k]]]
  OBVIOUS
<1>3. s \in [1 .. n -> [V -> V]]
  <2>1. \A k \in 1 .. n : [a \in V |-> IF k = 1 THEN ss[k] ELSE a \o ss[k]] \in [V -> V]
    BY <1>1
  <2> HIDE DEF n, V
  <2> QED BY <1>2, <2>1
<1>4. <<>> \in V OBVIOUS
<1> HIDE DEF V, n
<1>5. PICK g : Stepped(g, n, V, <<>>, s) BY <1>1, <1>3, <1>4, Recursion
<1>6. g \in [0 .. n -> V] /\ \A i \in 1 .. n : g[i] = s[i][g[i - 1]]
  BY <1>5, Zenon DEF Stepped
<1>7. PICK f : f = [i \in 1 .. n |-> g[i]] OBVIOUS
<1>8. ASSUME NEW k \in 1 .. n PROVE f[k] = IF k = 1 THEN ss[k] ELSE f[k - 1] \o ss[k]
  <2>1. k \in 0 .. n /\ k - 1 \in 0 .. n BY <1>1
  <2>2. g[k - 1] \in V BY <1>6, <2>1
  <2>3. s[k] = [a \in V |-> IF k = 1 THEN ss[k] ELSE a \o ss[k]] BY <1>2, Zenon
  <2>4. g[k] = IF k = 1 THEN ss[k] ELSE g[k - 1] \o ss[k] BY <1>6, <2>2, <2>3, Zenon
  <2>5. k # 1 => k - 1 \in 1 .. n BY <1>1
  <2> QED BY <1>7, <2>4, <2>5, Zenon
<1>9. FlatIs(f, ss)
  <2>1. f = [k \in 1 .. n |-> f[k]] BY <1>7, Zenon
  <2> QED BY <1>8, <2>1, Zenon DEF FlatIs, n
<1> QED BY <1>9, Zenon

LEMMA FlattenIs ==
  ASSUME NEW X, NEW ss \in Seq(Seq(X))
  PROVE  /\ FlattenSeq(ss) \in Seq(X)
         /\ \A x : x \in ToSet(FlattenSeq(ss)) <=> \E k \in DOMAIN ss : x \in ToSet(ss[k])
<1> DEFINE n == Len(ss)
<1>1. n \in Nat /\ DOMAIN ss = 1 .. n /\ \A k \in 1 .. n : ss[k] \in Seq(X) BY SeqFacts
<1>2. CASE n = 0
  <2>1. ss = <<>> /\ DOMAIN ss = {} BY <1>1, <1>2
  <2>2. FlattenSeq(ss) = <<>> BY <1>2, <2>1 DEF FlattenSeq
  <2>3. ToSet(<<>>) = {} /\ <<>> \in Seq(X) BY DEF ToSet
  <2>4. ~\E k \in DOMAIN ss : TRUE BY <2>1
  <2> HIDE DEF n
  <2> QED BY <2>2, <2>3, <2>4, Zenon
<1>3. CASE n # 0
  <2>1. PICK f : FlatIs(f, ss) /\ FlattenSeq(ss) = f[n]
    <3>1. PICK g : FlatIs(g, ss) BY FlatExists
    <3>2. PICK f : f = (CHOOSE h : FlatIs(h, ss)) /\ FlatIs(f, ss) BY <3>1, Zenon
    <3>3. FlattenSeq(ss) = f[Len(ss)] BY <1>3, <3>2, Zenon DEF FlattenSeq, FlatIs
    <3> QED BY <3>2, <3>3
  <2> DEFINE T == {m \in 0 .. n : m # 0 =>
                     /\ f[m] \in Seq(X)
                     /\ \A x : x \in ToSet(f[m]) <=> \E k \in 1 .. m : x \in ToSet(ss[k])}
  <2>2. \A k \in 1 .. n : f[k] = IF k = 1 THEN ss[k] ELSE f[k - 1] \o ss[k]
    BY <2>1, Zenon DEF FlatIs
  <2>3. 0 \in T BY <1>1
  <2>4. ASSUME NEW m \in 0 .. n, m < n, m \in T PROVE m + 1 \in T
    <3>1. PICK k \in 1 .. n : k = m + 1 /\ k - 1 = m /\ k \in 0 .. n BY <1>1, <2>4
    <3>2. ss[k] \in Seq(X) BY <1>1
    <3>3. CASE m = 0
      <4>1. f[k] = ss[k] /\ \A i : i \in 1 .. k <=> i = k BY <2>2, <3>1, <3>3
      <4> QED BY <3>1, <3>2, <4>1
    <3>4. CASE m # 0
      <4>0. k # 1 BY <3>1, <3>4
      <4>1. f[k] = f[m] \o ss[k] BY <2>2, <3>1, <4>0, Zenon
      <4>2. f[m] \in Seq(X) BY <2>4, <3>4
      <4>3. \A x : x \in ToSet(f[m]) <=> \E i \in 1 .. m : x \in ToSet(ss[i]) BY <2>4, <3>4
      <4>4. f[k] \in Seq(X) /\ ToSet(f[k]) = ToSet(f[m]) \cup ToSet(ss[k])
        BY <3>2, <4>1, <4>2, SeqConcat
      <4>5. \A i : i \in 1 .. k <=> i \in 1 .. m \/ i = k BY <3>1
      <4>6. \A x : x \in ToSet(f[k]) <=> \E i \in 1 .. k : x \in ToSet(ss[i])
        BY <4>3, <4>4, <4>5, Zenon
      <4> QED BY <3>1, <4>4, <4>6
    <3> QED BY <3>3, <3>4
  <2>5. n \in T
    <3>1. n \in 0 .. n BY <1>1
    <3> HIDE DEF T
    <3> QED BY <1>1, <2>3, <2>4, <3>1, ClimbTo
  <2>6. /\ f[n] \in Seq(X)
        /\ \A x : x \in ToSet(f[n]) <=> \E k \in 1 .. n : x \in ToSet(ss[k])
    BY <1>3, <2>5
  <2> QED BY <1>1, <2>1, <2>6
<1> QED BY <1>2, <1>3

-----------------------------------------------------------------------------
(* The order of the ids. *)
Agree(a, b, k) == \A i \in 1 .. k - 1 : i \in DOMAIN a /\ a[i] = b[i]

LEMMA PrecedesIs ==
  ASSUME NEW a, NEW b
  PROVE  Precedes(a, b) <=> \E k \in 1 .. Len(b) : Agree(a, b, k) /\ (k \in DOMAIN a => a[k] < b[k])
BY DEF Precedes, Agree

LEMMA PrecedesNever == ASSUME NEW a \in Seq(Nat) PROVE ~Precedes(a, a)
<1>1. \A k \in 1 .. Len(a) : k \in DOMAIN a /\ a[k] \in Nat BY SeqFacts
<1> QED BY <1>1, PrecedesIs

LEMMA PrecedesOn ==
  ASSUME NEW a \in Seq(Nat), NEW b \in Seq(Nat), NEW c \in Seq(Nat), Precedes(a, b), Precedes(b, c)
  PROVE  Precedes(a, c)
<1>1. PICK k \in 1 .. Len(b) : Agree(a, b, k) /\ (k \in DOMAIN a => a[k] < b[k]) BY PrecedesIs
<1>2. PICK l \in 1 .. Len(c) : Agree(b, c, l) /\ (l \in DOMAIN b => b[l] < c[l]) BY PrecedesIs
<1>3. /\ Len(a) \in Nat /\ Len(b) \in Nat /\ Len(c) \in Nat
      /\ DOMAIN a = 1 .. Len(a) /\ DOMAIN b = 1 .. Len(b) /\ DOMAIN c = 1 .. Len(c)
      /\ \A i \in DOMAIN a : a[i] \in Nat
      /\ \A i \in DOMAIN b : b[i] \in Nat
      /\ \A i \in DOMAIN c : c[i] \in Nat
  <2>1. Len(a) \in Nat /\ DOMAIN a = 1 .. Len(a) /\ \A i \in 1 .. Len(a) : a[i] \in Nat BY SeqFacts
  <2>2. Len(b) \in Nat /\ DOMAIN b = 1 .. Len(b) /\ \A i \in 1 .. Len(b) : b[i] \in Nat BY SeqFacts
  <2>3. Len(c) \in Nat /\ DOMAIN c = 1 .. Len(c) /\ \A i \in 1 .. Len(c) : c[i] \in Nat BY SeqFacts
  <2> QED BY <2>1, <2>2, <2>3
<1>4. CASE k < l
  <2>1. k \in DOMAIN b /\ b[k] = c[k] BY <1>2, <1>3, <1>4 DEF Agree
  <2>2. Agree(a, c, k) BY <1>1, <1>2, <1>3, <1>4 DEF Agree
  <2>3. k \in 1 .. Len(c) BY <1>3, <1>4
  <2>4. k \in DOMAIN a => a[k] < c[k] BY <1>1, <2>1
  <2> QED BY <2>2, <2>3, <2>4, PrecedesIs
<1>5. CASE l < k
  <2>1. Agree(a, c, l) BY <1>1, <1>2, <1>3, <1>5 DEF Agree
  <2>2. l \in DOMAIN a /\ a[l] = b[l] BY <1>1, <1>3, <1>5 DEF Agree
  <2>3. l \in DOMAIN b BY <1>1, <1>3, <1>5
  <2>4. a[l] < c[l] BY <1>2, <2>2, <2>3
  <2> QED BY <2>1, <2>4, PrecedesIs
<1>6. CASE l = k
  <2>1. Agree(a, c, l) BY <1>1, <1>2, <1>3, <1>6 DEF Agree
  <2>2. ASSUME l \in DOMAIN a PROVE a[l] < c[l]
    <3>1. a[l] < b[l] /\ b[l] < c[l] BY <1>1, <1>2, <1>3, <1>6, <2>2
    <3>2. a[l] \in Nat /\ b[l] \in Nat /\ c[l] \in Nat BY <1>1, <1>3, <1>6, <2>2
    <3> QED BY <3>1, <3>2
  <2> QED BY <2>1, <2>2, PrecedesIs
<1> QED BY <1>3, <1>4, <1>5, <1>6

LEMMA PrecedesOr ==
  ASSUME NEW a \in Seq(Nat), NEW b \in Seq(Nat), a # b PROVE Precedes(a, b) \/ Precedes(b, a)
<1>1. /\ Len(a) \in Nat /\ Len(b) \in Nat
      /\ DOMAIN a = 1 .. Len(a) /\ DOMAIN b = 1 .. Len(b)
      /\ \A i \in DOMAIN a : a[i] \in Nat
      /\ \A i \in DOMAIN b : b[i] \in Nat
  BY SeqFacts
<1> DEFINE Apart == {k \in Nat : k > 0 /\ ~(k \in DOMAIN a /\ k \in DOMAIN b /\ a[k] = b[k])
                                /\ (k \in DOMAIN a \/ k \in DOMAIN b)}
<1>2. Apart # {}
  <2> SUFFICES ASSUME Apart = {} PROVE FALSE
    OBVIOUS
  <2>1. \A k \in Nat : k > 0 /\ (k \in DOMAIN a \/ k \in DOMAIN b)
                        => k \in DOMAIN a /\ k \in DOMAIN b /\ a[k] = b[k]
    OBVIOUS
  <2>2. \A k \in DOMAIN a : k \in Nat /\ k > 0 BY <1>1
  <2>3. \A k \in DOMAIN b : k \in Nat /\ k > 0 BY <1>1
  <2>4. DOMAIN a = DOMAIN b /\ \A k \in DOMAIN a : a[k] = b[k] BY <2>1, <2>2, <2>3
  <2>5. a = [k \in DOMAIN a |-> a[k]] /\ b = [k \in DOMAIN b |-> b[k]] OBVIOUS
  <2> QED BY <2>4, <2>5, Zenon
<1>3. PICK k \in Apart : \A i \in Apart : k <= i
  <2>1. Apart \in SUBSET Nat OBVIOUS
  <2> HIDE DEF Apart
  <2> QED BY <1>2, <2>1, LeastExists
<1>4. /\ k \in Nat /\ k > 0 /\ (k \in DOMAIN a \/ k \in DOMAIN b)
      /\ ~(k \in DOMAIN a /\ k \in DOMAIN b /\ a[k] = b[k])
  OBVIOUS
<1>5. ASSUME NEW i \in 1 .. k - 1 PROVE i \in DOMAIN a /\ i \in DOMAIN b /\ a[i] = b[i]
  <2>1. i \in Nat /\ i > 0 /\ ~(k <= i) BY <1>4
  <2>2. i \notin Apart
    <3> HIDE DEF Apart
    <3> QED BY <1>3, <2>1
  <2>3. i \in DOMAIN a \/ i \in DOMAIN b BY <1>1, <1>4
  <2> QED BY <2>1, <2>2, <2>3
<1> HIDE DEF Apart
<1>6. Agree(a, b, k) /\ Agree(b, a, k) BY <1>5 DEF Agree
<1>7. CASE k \in DOMAIN b /\ (k \in DOMAIN a => a[k] < b[k])
  BY <1>1, <1>6, <1>7, PrecedesIs
<1>8. CASE k \in DOMAIN a /\ (k \in DOMAIN b => b[k] < a[k])
  BY <1>1, <1>6, <1>8, PrecedesIs
<1>9. k \in DOMAIN a /\ k \in DOMAIN b => a[k] < b[k] \/ b[k] < a[k] BY <1>1, <1>4
<1> QED BY <1>4, <1>7, <1>8, <1>9

(* Counting what precedes numbers a finite set from 0 on.                  *)
Before(S, id) == {x \in S : Precedes(x, id)}

LEMMA BeforeCounts ==
  ASSUME NEW S \in SUBSET Seq(Nat), IsFiniteSet(S)
  PROVE  \E r \in [S -> 0 .. Cardinality(S) - 1] :
           /\ \A id \in S : r[id] = Cardinality(Before(S, id))
           /\ \A a, b \in S : r[a] = r[b] => a = b
<1> DEFINE r == [id \in S |-> Cardinality(Before(S, id))]
<1>1. ASSUME NEW id \in S
      PROVE  /\ IsFiniteSet(Before(S, id)) /\ Cardinality(Before(S, id)) \in Nat
             /\ Cardinality(Before(S, id)) < Cardinality(S)
  <2>1. Before(S, id) \in SUBSET S BY DEF Before
  <2>2. /\ IsFiniteSet(Before(S, id)) /\ Cardinality(Before(S, id)) <= Cardinality(S)
        /\ Cardinality(S) = Cardinality(Before(S, id)) => S = Before(S, id)
    BY <2>1, FS_Subset
  <2>3. S # Before(S, id) BY PrecedesNever DEF Before
  <2>4. Cardinality(Before(S, id)) \in Nat BY <2>2, FS_CardinalityType
  <2>5. Cardinality(S) \in Nat BY FS_CardinalityType
  <2> QED BY <2>2, <2>3, <2>4, <2>5
<1>2. ASSUME NEW a \in S, NEW b \in S, Precedes(a, b)
      PROVE  Cardinality(Before(S, a)) < Cardinality(Before(S, b))
  <2>1. Before(S, a) \in SUBSET Before(S, b)
    <3>1. \A x \in S : Precedes(x, a) => Precedes(x, b) BY <1>2, PrecedesOn
    <3> QED BY <3>1 DEF Before
  <2>2. a \in Before(S, b) /\ a \notin Before(S, a) BY <1>2, PrecedesNever DEF Before
  <2>3. /\ Cardinality(Before(S, a)) <= Cardinality(Before(S, b))
        /\ Cardinality(Before(S, b)) = Cardinality(Before(S, a)) => Before(S, b) = Before(S, a)
    BY <1>1, <2>1, FS_Subset
  <2>4. Cardinality(Before(S, a)) \in Nat /\ Cardinality(Before(S, b)) \in Nat BY <1>1
  <2>5. Before(S, b) # Before(S, a) BY <2>2
  <2> QED BY <2>3, <2>4, <2>5
<1>3. \A a, b \in S : a # b =>
        \/ Cardinality(Before(S, a)) < Cardinality(Before(S, b))
        \/ Cardinality(Before(S, b)) < Cardinality(Before(S, a))
  BY <1>2, PrecedesOr
<1>4. \A a, b \in S : r[a] = r[b] => a = b
  <2> SUFFICES ASSUME NEW a \in S, NEW b \in S, r[a] = r[b], a # b PROVE FALSE
    OBVIOUS
  <2>1. Cardinality(Before(S, a)) \in Nat /\ Cardinality(Before(S, a)) = Cardinality(Before(S, b))
    BY <1>1
  <2> QED BY <1>3, <2>1
<1>5. r \in [S -> 0 .. Cardinality(S) - 1]
  <2>1. Cardinality(S) \in Nat BY FS_CardinalityType
  <2> QED BY <1>1, <2>1
<1> QED BY <1>4, <1>5

LEMMA CanonicalIs ==
  ASSUME NEW S \in SUBSET Seq(Nat), IsFiniteSet(S)
  PROVE  Canonical(S) \in Seq(S) /\ ToSet(Canonical(S)) = S
<1> DEFINE n == Cardinality(S)
           R == 0 .. n - 1
<1>1. n \in Nat BY FS_CardinalityType
<1>2. PICK r \in [S -> R] : /\ \A id \in S : r[id] = Cardinality(Before(S, id))
                            /\ \A a, b \in S : r[a] = r[b] => a = b
  BY BeforeCounts
<1>3. r \in Surjection(S, R)
  <2>1. IsFiniteSet(R) /\ Cardinality(R) = n
    <3>1. IsFiniteSet(R) /\ Cardinality(R) = IF 0 > n - 1 THEN 0 ELSE (n - 1) - 0 + 1
      BY <1>1, FS_Interval
    <3> QED BY <1>1, <3>1
  <2>2. r \in Injection(S, R) BY <1>2 DEF Injection, IsInjective
  <2> HIDE DEF R
  <2>3. Cardinality(S) = Cardinality(R) <=> r \in Surjection(S, R) BY <2>1, <2>2, FS_Injection
  <2> QED BY <2>1, <2>3
<1>4. ASSUME NEW k \in 1 .. n
      PROVE  Canonical(S)[k] \in S /\ r[Canonical(S)[k]] = k - 1
  <2>1. k - 1 \in R BY <1>1
  <2>2. \E id \in S : r[id] = k - 1 BY <1>3, <2>1 DEF Surjection
  <2>3. \E id \in S : Cardinality(Before(S, id)) = k - 1 BY <1>2, <2>2
  <2>4. Canonical(S)[k] = CHOOSE id \in S : Cardinality(Before(S, id)) = k - 1
    BY DEF Canonical, Before
  <2>5. Canonical(S)[k] \in S /\ Cardinality(Before(S, Canonical(S)[k])) = k - 1
    BY <2>3, <2>4, Zenon
  <2> QED BY <1>2, <2>5
<1>5. DOMAIN Canonical(S) = 1 .. n /\ Canonical(S) = [k \in 1 .. n |-> Canonical(S)[k]]
  <2>1. PICK c : c = [k \in 1 .. n |-> CHOOSE id \in S : Cardinality(Before(S, id)) = k - 1]
    OBVIOUS
  <2>2. Canonical(S) = c BY <2>1, Zenon DEF Canonical, Before
  <2>3. DOMAIN c = 1 .. n BY <2>1
  <2>4. c = [k \in 1 .. n |-> c[k]] BY <2>1
  <2> QED BY <2>2, <2>3, <2>4
<1>6. Canonical(S) \in [1 .. n -> S] BY <1>4, <1>5
<1>7. Canonical(S) \in Seq(S) BY <1>1, <1>6
<1>8. ASSUME NEW id \in S PROVE id \in ToSet(Canonical(S))
  <2>1. PICK k \in 1 .. n : r[id] = k - 1
    <3>1. r[id] \in R BY <1>2
    <3>2. r[id] + 1 \in 1 .. n /\ r[id] = (r[id] + 1) - 1 BY <1>1, <3>1
    <3> QED BY <3>2
  <2>2. Canonical(S)[k] = id BY <1>2, <1>4, <2>1
  <2> QED BY <1>5, <2>2 DEF ToSet
<1>9. \A id \in ToSet(Canonical(S)) : id \in S BY <1>5, <1>6 DEF ToSet
<1> QED BY <1>7, <1>8, <1>9

-----------------------------------------------------------------------------
(* The tree of the items: whatever items one looks at, one of them has no  *)
(* child among them (otherwise every one of them had its parent there:     *)
(* picking a child for each is an injection, hence onto).                  *)
Tree(its) ==
  /\ IsFiniteSet(DOMAIN its) /\ DOMAIN its \subseteq Seq(Nat)
  /\ Acyclic([x \in DOMAIN its |-> {its[x].parent}])

LEMMA KidsFounded ==
  ASSUME NEW its, Tree(its), NEW S \in SUBSET DOMAIN its, S # {}
  PROVE  \E x \in S : Kids(its, x) \cap S = {}
<1> SUFFICES ASSUME \A x \in S : Kids(its, x) \cap S # {} PROVE FALSE
  OBVIOUS
<1>1. IsFiniteSet(S)
  <2>1. IsFiniteSet(DOMAIN its) BY DEF Tree
  <2> QED BY <2>1, FS_Subset
<1> DEFINE kid == [x \in S |-> CHOOSE c \in S : its[c].parent = x]
<1>2. ASSUME NEW x \in S PROVE kid[x] \in S /\ its[kid[x]].parent = x
  <2>1. \E c \in S : its[c].parent = x BY DEF Kids
  <2> QED BY <2>1
<1>3. kid \in [S -> S] BY <1>2
<1> HIDE DEF kid
<1>4. kid \in Injection(S, S) BY <1>2, <1>3 DEF Injection, IsInjective
<1>5. kid \in Surjection(S, S)
  <2>1. Cardinality(S) = Cardinality(S) <=> kid \in Surjection(S, S) BY <1>1, <1>4, FS_Injection
  <2> QED BY <2>1
<1>6. ASSUME NEW x \in S PROVE its[x].parent \in S
  <2>1. PICK y \in S : kid[y] = x BY <1>5 DEF Surjection
  <2> QED BY <1>2, <2>1
<1>7. PICK succ : succ = [x \in DOMAIN its |-> {its[x].parent}] OBVIOUS
<1>8. DOMAIN succ = DOMAIN its /\ \A x \in S : succ[x] \cap S # {} BY <1>6, <1>7
<1>9. ~Acyclic(succ) BY <1>8, Zenon DEF Acyclic
<1> QED BY <1>7, <1>9, Zenon DEF Tree

(* What a dependency stands for: the recursion over the tree has a solution *)
(* (the largest part on which it has one is everything), and every solution *)
(* lists queue entries.                                                    *)
BelowOf(its, Q, g, id) ==
  IF id \in Q THEN <<id>>
  ELSE IF its[id].kind # "umbrella" THEN <<>>
  ELSE LET kids == Canonical(Kids(its, id))
       IN  FlattenSeq([k \in DOMAIN kids |-> g[kids[k]]])

BelowIs(its, Q, f) == f = [id \in DOMAIN its |-> BelowOf(its, Q, f, id)]

LEMMA KidsListed ==
  ASSUME NEW its, Tree(its), NEW id
  PROVE  /\ Canonical(Kids(its, id)) \in Seq(Kids(its, id))
         /\ ToSet(Canonical(Kids(its, id))) = Kids(its, id)
<1>1. Kids(its, id) \in SUBSET DOMAIN its BY DEF Kids
<1>2. IsFiniteSet(DOMAIN its) /\ DOMAIN its \subseteq Seq(Nat) BY DEF Tree
<1>3. IsFiniteSet(Kids(its, id)) BY <1>1, <1>2, FS_Subset
<1>4. Kids(its, id) \in SUBSET Seq(Nat) BY <1>1, <1>2
<1> QED BY <1>3, <1>4, CanonicalIs

LEMMA BelowSame ==
  ASSUME NEW its, Tree(its), NEW Q, NEW f, NEW g, NEW id,
         \A c \in Kids(its, id) : f[c] = g[c]
  PROVE  BelowOf(its, Q, f, id) = BelowOf(its, Q, g, id)
<1> DEFINE kids == Canonical(Kids(its, id))
<1>1. \A k \in DOMAIN kids : kids[k] \in Kids(its, id) BY KidsListed, SeqFacts
<1> HIDE DEF kids
<1>2. [k \in DOMAIN kids |-> f[kids[k]]] = [k \in DOMAIN kids |-> g[kids[k]]] BY <1>1
<1> QED BY <1>2, Zenon DEF BelowOf, kids

BelowOn(its, Q, X, g) ==
  \A x \in X : Kids(its, x) \subseteq X /\ g[x] = BelowOf(its, Q, g, x)

LEMMA BelowMore ==
  ASSUME NEW its, Tree(its), NEW Q, NEW X \in SUBSET DOMAIN its, NEW g, BelowOn(its, Q, X, g),
         NEW x \in DOMAIN its, x \notin X, Kids(its, x) \subseteq X
  PROVE  \E h : BelowOn(its, Q, X \cup {x}, h)
<1> DEFINE Y == X \cup {x}
<1>1. PICK h : h = [y \in Y |-> IF y = x THEN BelowOf(its, Q, g, x) ELSE g[y]] OBVIOUS
<1>2. \A y \in X : h[y] = g[y] BY <1>1
<1>3. h[x] = BelowOf(its, Q, g, x) BY <1>1
<1>4. \A y \in Y : Kids(its, y) \subseteq X BY Zenon DEF BelowOn
<1>5. ASSUME NEW y \in Y PROVE h[y] = BelowOf(its, Q, h, y)
  <2>1. \A c \in Kids(its, y) : h[c] = g[c] BY <1>2, <1>4, Zenon
  <2>2. BelowOf(its, Q, h, y) = BelowOf(its, Q, g, y) BY <2>1, BelowSame
  <2>3. h[y] = BelowOf(its, Q, g, y)
    <3>1. CASE y = x BY <1>3, <3>1
    <3>2. CASE y # x
      <4>1. y \in X BY <3>2
      <4> QED BY <1>2, <4>1, Zenon DEF BelowOn
    <3> QED BY <3>1, <3>2
  <2> QED BY <2>2, <2>3
<1>6. \A y \in Y : Kids(its, y) \subseteq Y BY <1>4
<1> HIDE DEF Y
<1>7. BelowOn(its, Q, Y, h) BY <1>5, <1>6, Zenon DEF BelowOn
<1> QED BY <1>7 DEF Y

LEMMA BelowExists == ASSUME NEW its, Tree(its), NEW Q PROVE \E f : BelowIs(its, Q, f)
<1> DEFINE D == DOMAIN its
           Left == {n \in Nat : \E X \in SUBSET D : \E g : /\ BelowOn(its, Q, X, g)
                                                          /\ Cardinality(D \ X) = n}
<1>1. IsFiniteSet(D) BY DEF Tree
<1>2. \A X \in SUBSET D : IsFiniteSet(D \ X) /\ Cardinality(D \ X) \in Nat
  <2> SUFFICES ASSUME NEW X \in SUBSET D PROVE IsFiniteSet(D \ X) /\ Cardinality(D \ X) \in Nat
    OBVIOUS
  <2>1. D \ X \in SUBSET D OBVIOUS
  <2> HIDE DEF D
  <2>2. IsFiniteSet(D \ X) BY <1>1, <2>1, FS_Subset
  <2> QED BY <2>2, FS_CardinalityType
<1>3. Left # {}
  <2>1. BelowOn(its, Q, {}, <<>>) BY DEF BelowOn
  <2>2. {} \in SUBSET D /\ Cardinality(D \ {}) \in Nat BY <1>2
  <2> QED BY <2>1, <2>2
<1>4. PICK n \in Left : \A m \in Left : n <= m
  <2>1. Left \in SUBSET Nat OBVIOUS
  <2> HIDE DEF Left
  <2> QED BY <1>3, <2>1, LeastExists
<1>5. PICK X \in SUBSET D : \E g : BelowOn(its, Q, X, g) /\ Cardinality(D \ X) = n OBVIOUS
<1>6. PICK g : BelowOn(its, Q, X, g) /\ Cardinality(D \ X) = n BY <1>5
<1>7. D \ X = {}
  <2> SUFFICES ASSUME D \ X # {} PROVE FALSE
    OBVIOUS
  <2>1. PICK x \in D \ X : Kids(its, x) \cap (D \ X) = {}
    <3>1. D \ X \in SUBSET DOMAIN its OBVIOUS
    <3> HIDE DEF D
    <3> QED BY <3>1, KidsFounded
  <2>2. Kids(its, x) \subseteq X BY <2>1 DEF Kids
  <2>3. x \in DOMAIN its /\ x \notin X /\ X \in SUBSET DOMAIN its BY <2>1
  <2> DEFINE Y == X \cup {x}
  <2>4. PICK h : BelowOn(its, Q, Y, h) BY <1>6, <2>2, <2>3, BelowMore
  <2>5. Cardinality(D \ Y) = n - 1
    <3>1. D \ Y = (D \ X) \ {x} BY <2>3
    <3>2. Cardinality((D \ X) \ {x}) = IF x \in D \ X THEN Cardinality(D \ X) - 1 ELSE Cardinality(D \ X)
      <4> HIDE DEF D
      <4> QED BY <1>2, FS_RemoveElement
    <3> QED BY <1>6, <2>1, <3>1, <3>2
  <2>6. Y \in SUBSET D BY <2>3
  <2> HIDE DEF Y
  <2>7. n - 1 \in Nat /\ n \in Nat BY <1>2, <1>6, <2>5, <2>6
  <2>8. n - 1 \in Left BY <2>4, <2>5, <2>6, <2>7
  <2> HIDE DEF Left
  <2>9. n <= n - 1 BY <1>4, <2>8
  <2> QED BY <2>7, <2>9
<1>8. X = DOMAIN its BY <1>7
<1>9. PICK f : f = [id \in DOMAIN its |-> g[id]] OBVIOUS
<1>10. ASSUME NEW id \in DOMAIN its PROVE f[id] = BelowOf(its, Q, f, id)
  <2>1. \A c \in Kids(its, id) : f[c] = g[c] BY <1>9 DEF Kids
  <2>2. BelowOf(its, Q, f, id) = BelowOf(its, Q, g, id) BY <2>1, BelowSame
  <2>3. f[id] = g[id] BY <1>9
  <2> QED BY <1>6, <1>8, <2>2, <2>3, Zenon DEF BelowOn
<1>11. BelowIs(its, Q, f)
  <2>1. f = [id \in DOMAIN its |-> f[id]] BY <1>9
  <2> QED BY <1>10, <2>1, Zenon DEF BelowIs
<1> QED BY <1>11

LEMMA BelowTyped ==
  ASSUME NEW its, Tree(its), NEW Q, NEW f, BelowIs(its, Q, f)
  PROVE  \A id \in DOMAIN its : f[id] \in Seq(Q \cap DOMAIN its)
<1> DEFINE V == Q \cap DOMAIN its
           S == {id \in DOMAIN its : f[id] \notin Seq(V)}
<1> SUFFICES ASSUME S # {} PROVE FALSE
  OBVIOUS
<1>1. PICK id \in S : Kids(its, id) \cap S = {}
  <2>1. S \in SUBSET DOMAIN its OBVIOUS
  <2> HIDE DEF S
  <2> QED BY <2>1, KidsFounded
<1>2. id \in DOMAIN its /\ f[id] \notin Seq(V) OBVIOUS
<1>3. \A c \in Kids(its, id) : f[c] \in Seq(V) BY <1>1 DEF Kids
<1>4. f[id] = BelowOf(its, Q, f, id) BY <1>2, Zenon DEF BelowIs
<1> DEFINE kids == Canonical(Kids(its, id))
           ss == [k \in DOMAIN kids |-> f[kids[k]]]
<1>5. ss \in Seq(Seq(V))
  <2>1. kids \in Seq(Kids(its, id)) BY KidsListed
  <2> HIDE DEF kids
  <2>2. Len(kids) \in Nat /\ DOMAIN kids = 1 .. Len(kids)
        /\ \A k \in 1 .. Len(kids) : kids[k] \in Kids(its, id)
    BY <2>1, SeqFacts
  <2> HIDE DEF V
  <2>3. ss \in [1 .. Len(kids) -> Seq(V)] BY <1>3, <2>2
  <2> QED BY <2>2, <2>3
<1>6. BelowOf(its, Q, f, id) = IF id \in Q THEN <<id>>
                               ELSE IF its[id].kind # "umbrella" THEN <<>> ELSE FlattenSeq(ss)
  BY Zenon DEF BelowOf
<1> HIDE DEF ss
<1>7. FlattenSeq(ss) \in Seq(V)
  <2> HIDE DEF V
  <2> QED BY <1>5, FlattenIs
<1>8. id \in Q => <<id>> \in Seq(V) BY <1>2
<1>9. <<>> \in Seq(V) OBVIOUS
<1> HIDE DEF V, S
<1> QED BY <1>2, <1>4, <1>6, <1>7, <1>8, <1>9, Zenon

LEMMA ExpandIs ==
  ASSUME NEW its, Tree(its), NEW Q, NEW dep
  PROVE  ExpandDepTarget(its, Q, dep) \in Seq(Q \cap DOMAIN its)
<1>1. PICK g : BelowIs(its, Q, g) BY BelowExists
<1>2. PICK f : f = (CHOOSE h : BelowIs(its, Q, h)) /\ BelowIs(its, Q, f) BY <1>1, Zenon
<1>3. ExpandDepTarget(its, Q, dep) = IF dep \in DOMAIN its THEN f[dep] ELSE <<>>
  BY <1>2, Zenon DEF ExpandDepTarget, BelowIs, BelowOf
<1>4. dep \in DOMAIN its => f[dep] \in Seq(Q \cap DOMAIN its) BY <1>2, BelowTyped
<1>5. <<>> \in Seq(Q \cap DOMAIN its) OBVIOUS
<1> QED BY <1>3, <1>4, <1>5, Zenon

(* What must come before an item are queue entries, those that any of its  *)
(* dependencies stands for.                                                *)
LEMMA PrerequisitesAre ==
  ASSUME NEW its, Tree(its), NEW Q, NEW id, its[id].deps \in Seq(Seq(Nat))
  PROVE  /\ Prerequisites(its, Q, id) \in Seq(Q \cap DOMAIN its)
         /\ \A dep \in ToSet(its[id].deps) :
              ToSet(ExpandDepTarget(its, Q, dep)) \subseteq ToSet(Prerequisites(its, Q, id))
<1> DEFINE deps == its[id].deps
           V == Q \cap DOMAIN its
           ss == [k \in DOMAIN deps |-> ExpandDepTarget(its, Q, deps[k])]
<1>1. Len(deps) \in Nat /\ DOMAIN deps = 1 .. Len(deps) BY SeqFacts
<1>2. ss \in Seq(Seq(V)) /\ DOMAIN ss = DOMAIN deps
  <2>1. \A k \in DOMAIN deps : ExpandDepTarget(its, Q, deps[k]) \in Seq(V) BY ExpandIs
  <2> HIDE DEF V, deps
  <2>2. ss \in [1 .. Len(deps) -> Seq(V)] BY <1>1, <2>1
  <2> QED BY <1>1, <2>2
<1>3. Prerequisites(its, Q, id) = FlattenSeq(ss) BY Zenon DEF Prerequisites
<1>4. \A k \in DOMAIN deps : ss[k] = ExpandDepTarget(its, Q, deps[k]) BY Zenon
<1> HIDE DEF ss
<1>5. /\ FlattenSeq(ss) \in Seq(V)
      /\ \A x : x \in ToSet(FlattenSeq(ss)) <=> \E k \in DOMAIN ss : x \in ToSet(ss[k])
  <2> HIDE DEF V
  <2> QED BY <1>2, FlattenIs
<1>6. ASSUME NEW dep \in ToSet(deps), NEW x \in ToSet(ExpandDepTarget(its, Q, dep))
      PROVE  x \in ToSet(FlattenSeq(ss))
  <2>1. PICK k \in DOMAIN deps : deps[k] = dep BY DEF ToSet
  <2>2. x \in ToSet(ss[k]) BY <1>4, <2>1
  <2> HIDE DEF deps
  <2> QED BY <1>2, <1>5, <2>1, <2>2, Zenon
<1> QED BY <1>3, <1>5, <1>6

-----------------------------------------------------------------------------
(* The walk. It is a function: what a state leads to is what every set of  *)
(* pairs that is closed under the steps relates to it.                     *)
Entries(U) == [id : U, at : {"enter", "leave"}]
Outs == Seq(Seq(Nat))
WalkIs(needs, w) ==
  w = [s \in Walks |-> IF s.todo = <<>> THEN s.out ELSE w[WalkStep(needs, s)]]

NeedsFit(needs) == \A id \in DOMAIN needs : needs[id] \in Seq(Seq(Nat))

First(needs, id) == IF id \in DOMAIN needs THEN needs[id] ELSE <<>>

LEMMA EnterIs ==
  ASSUME NEW U, NEW ids \in Seq(U)
  PROVE  /\ Enter(ids) \in Seq(Entries(U)) /\ Len(Enter(ids)) = Len(ids)
         /\ \A k \in 1 .. Len(ids) : Enter(ids)[k] = [id |-> ids[k], at |-> "enter"]
<1>1. Len(ids) \in Nat /\ DOMAIN ids = 1 .. Len(ids) /\ \A k \in 1 .. Len(ids) : ids[k] \in U
  BY SeqFacts
<1>2. \A k \in 1 .. Len(ids) : [id |-> ids[k], at |-> "enter"] \in Entries(U)
  BY <1>1 DEF Entries
<1>3. Enter(ids) \in [1 .. Len(ids) -> Entries(U)]
      /\ \A k \in 1 .. Len(ids) : Enter(ids)[k] = [id |-> ids[k], at |-> "enter"]
  BY <1>1, <1>2 DEF Enter
<1> QED BY <1>1, <1>3

(* The three steps, on entries of any set.                                 *)
LEMMA StepIs ==
  ASSUME NEW U, NEW needs, NEW s, s.todo \in Seq(Entries(U)), s.todo # <<>>
  PROVE  LET v == s.todo[1] rest == Tail(s.todo) IN
         /\ v \in Entries(U) /\ rest \in Seq(Entries(U)) /\ Len(rest) = Len(s.todo) - 1
         /\ \A i \in 1 .. Len(rest) : rest[i] = s.todo[i + 1]
         /\ WalkStep(needs, s) =
              IF v.at = "leave" THEN [todo |-> rest, seen |-> s.seen, out |-> Append(s.out, v.id)]
              ELSE IF v.id \in s.seen THEN [todo |-> rest, seen |-> s.seen, out |-> s.out]
              ELSE [todo |-> Enter(First(needs, v.id)) \o (<<[id |-> v.id, at |-> "leave"]>> \o rest),
                    seen |-> s.seen \cup {v.id}, out |-> s.out]
<1>1. /\ Head(s.todo) = s.todo[1] /\ s.todo[1] \in Entries(U)
      /\ Tail(s.todo) \in Seq(Entries(U)) /\ Len(Tail(s.todo)) = Len(s.todo) - 1
      /\ \A i \in 1 .. Len(Tail(s.todo)) : Tail(s.todo)[i] = s.todo[i + 1]
  <2>1. Len(s.todo) \in Nat /\ Len(s.todo) # 0 BY SeqFacts
  <2> QED BY <2>1
<1> QED BY <1>1, Zenon DEF WalkStep, First

LEMMA FirstFits ==
  ASSUME NEW U, NEW needs, \A id \in DOMAIN needs : needs[id] \in Seq(U), NEW id
  PROVE  First(needs, id) \in Seq(U)
<1>1. <<>> \in Seq(U) OBVIOUS
<1> QED BY <1>1 DEF First

LEMMA StepTyped ==
  ASSUME NEW needs, NeedsFit(needs), NEW s \in Walks, s.todo # <<>>
  PROVE  WalkStep(needs, s) \in Walks
<1> DEFINE E == Entries(Seq(Nat))
           v == s.todo[1]
           rest == Tail(s.todo)
           leave == [id |-> v.id, at |-> "leave"]
           on == Enter(First(needs, v.id))
<1>0. Walks = [todo : Seq(E), seen : SUBSET Seq(Nat), out : Outs] BY DEF Walks, Entries, Outs
<1>1. s.todo \in Seq(E) /\ s.seen \in SUBSET Seq(Nat) /\ s.out \in Outs BY <1>0
<1>2. v \in E /\ rest \in Seq(E)
  <2> HIDE DEF E
  <2> QED BY <1>1, StepIs
<1>3. v.id \in Seq(Nat) BY <1>2 DEF Entries
<1>4. on \in Seq(E)
  <2>1. First(needs, v.id) \in Seq(Seq(Nat)) BY FirstFits DEF NeedsFit
  <2> QED BY <2>1, EnterIs
<1>5. leave \in E BY <1>3 DEF Entries
<1>6. on \o (<<leave>> \o rest) \in Seq(E)
  <2> HIDE DEF E, rest, on, leave
  <2> QED BY <1>2, <1>4, <1>5
<1>7. Append(s.out, v.id) \in Outs BY <1>1, <1>3 DEF Outs
<1>8. s.seen \cup {v.id} \in SUBSET Seq(Nat) BY <1>1, <1>3
<1>9. WalkStep(needs, s) =
        IF v.at = "leave" THEN [todo |-> rest, seen |-> s.seen, out |-> Append(s.out, v.id)]
        ELSE IF v.id \in s.seen THEN [todo |-> rest, seen |-> s.seen, out |-> s.out]
        ELSE [todo |-> on \o (<<leave>> \o rest), seen |-> s.seen \cup {v.id}, out |-> s.out]
  <2>1. Head(s.todo) = v BY <1>1
  <2> QED BY <2>1, Zenon DEF WalkStep, First
<1> HIDE DEF E, rest, v, on, leave
<1> QED BY <1>0, <1>1, <1>2, <1>6, <1>7, <1>8, <1>9

Follows(needs, C) ==
  /\ \A s \in Walks : s.todo = <<>> => <<s, s.out>> \in C
  /\ \A s \in Walks : s.todo # <<>> =>
       \A v \in Outs : <<WalkStep(needs, s), v>> \in C => <<s, v>> \in C

EndsIn(needs, s) ==
  {v \in Outs : \A C \in SUBSET (Walks \X Outs) : Follows(needs, C) => <<s, v>> \in C}

LEMMA EndsAtEnd ==
  ASSUME NEW needs, NEW s \in Walks, s.todo = <<>> PROVE EndsIn(needs, s) = {s.out}
<1>1. s.out \in Outs BY DEF Walks, Outs
<1>2. s.out \in EndsIn(needs, s) BY <1>1, Zenon DEF EndsIn, Follows
<1>3. ASSUME NEW v \in EndsIn(needs, s), v # s.out PROVE FALSE
  <2> DEFINE C == (Walks \X Outs) \ {<<s, v>>}
  <2>1. \A t \in Walks : t.todo = <<>> => <<t, t.out>> \in C
    <3>1. \A t \in Walks : t.out \in Outs BY DEF Walks, Outs
    <3> QED BY <1>3, <3>1
  <2>2. \A t \in Walks : t.todo # <<>> => \A u \in Outs : <<t, u>> \in C OBVIOUS
  <2>3. C \in SUBSET (Walks \X Outs) /\ <<s, v>> \notin C OBVIOUS
  <2> HIDE DEF C
  <2>4. Follows(needs, C) BY <2>1, <2>2, Zenon DEF Follows
  <2> QED BY <2>3, <2>4, Zenon DEF EndsIn
<1> QED BY <1>2, <1>3

LEMMA EndsAsNext ==
  ASSUME NEW needs, NeedsFit(needs), NEW s \in Walks, s.todo # <<>>
  PROVE  EndsIn(needs, s) = EndsIn(needs, WalkStep(needs, s))
<1> DEFINE t == WalkStep(needs, s)
<1>1. t \in Walks BY StepTyped
<1>2. ASSUME NEW v \in EndsIn(needs, t) PROVE v \in EndsIn(needs, s)
  BY Zenon DEF EndsIn, Follows
<1>3. ASSUME NEW v \in EndsIn(needs, s), NEW C \in SUBSET (Walks \X Outs), Follows(needs, C),
             <<t, v>> \notin C
      PROVE  FALSE
  <2> DEFINE B == C \ {<<s, v>>}
  <2> HIDE DEF t
  <2>1. \A x \in Walks : x.todo = <<>> => <<x, x.out>> \in B
    <3>1. \A x \in Walks : x.todo = <<>> => <<x, x.out>> \in C BY <1>3, Zenon DEF Follows
    <3> QED BY <3>1
  <2>2. ASSUME NEW x \in Walks, x.todo # <<>>, NEW u \in Outs, <<WalkStep(needs, x), u>> \in B
        PROVE  <<x, u>> \in B
    <3>1. <<x, u>> \in C BY <1>3, <2>2, Zenon DEF Follows
    <3>2. ASSUME x = s, u = v PROVE FALSE BY <1>3, <2>2, <3>2 DEF t
    <3> QED BY <3>1, <3>2
  <2>3. B \in SUBSET (Walks \X Outs) /\ <<s, v>> \notin B BY <1>3
  <2> HIDE DEF B
  <2>4. Follows(needs, B) BY <2>1, <2>2, Zenon DEF Follows
  <2> QED BY <2>3, <2>4, Zenon DEF EndsIn
<1>4. ASSUME NEW v \in EndsIn(needs, s) PROVE v \in EndsIn(needs, t)
  <2>1. v \in Outs BY DEF EndsIn
  <2> QED BY <1>3, <2>1, Zenon DEF EndsIn
<1> QED BY <1>2, <1>4

LEMMA WalkExists == ASSUME NEW needs, NeedsFit(needs) PROVE \E w : WalkIs(needs, w)
<1>1. PICK w : w = [s \in Walks |-> CHOOSE v : v \in EndsIn(needs, s)] OBVIOUS
<1>2. ASSUME NEW s \in Walks PROVE w[s] = IF s.todo = <<>> THEN s.out ELSE w[WalkStep(needs, s)]
  <2>1. CASE s.todo = <<>>
    <3>1. EndsIn(needs, s) = {s.out} BY <2>1, EndsAtEnd
    <3>2. w[s] = CHOOSE v : v \in {s.out} BY <1>1, <3>1
    <3> QED BY <2>1, <3>2
  <2>2. CASE s.todo # <<>>
    <3>1. EndsIn(needs, s) = EndsIn(needs, WalkStep(needs, s)) /\ WalkStep(needs, s) \in Walks
      BY <2>2, EndsAsNext, StepTyped
    <3> QED BY <1>1, <2>2, <3>1
  <2> QED BY <2>1, <2>2
<1>3. w = [s \in Walks |-> w[s]] BY <1>1
<1> QED BY <1>2, <1>3, Zenon DEF WalkIs

-----------------------------------------------------------------------------
(* What leads to what, by any number of needs.                             *)
NeedsIn(needs, U) ==
  /\ IsFiniteSet(U) /\ U \subseteq Seq(Nat) /\ DOMAIN needs \subseteq U
  /\ \A id \in DOMAIN needs : needs[id] \in Seq(U)

FirstSet(needs, id) == ToSet(First(needs, id))

Reach(needs, U, x, y) ==
  \A C \in SUBSET U : x \in C /\ (\A z \in C : FirstSet(needs, z) \subseteq C) => y \in C

NoCircle(needs) == Acyclic([x \in DOMAIN needs |-> ToSet(needs[x]) \ {x}])

LEMMA ReachItself == ASSUME NEW needs, NEW U, NEW x PROVE Reach(needs, U, x, x)
BY Zenon DEF Reach

LEMMA ReachOn ==
  ASSUME NEW needs, NEW U, NEW x, NEW y, NEW z, Reach(needs, U, x, y), z \in FirstSet(needs, y)
  PROVE  Reach(needs, U, x, z)
BY Zenon DEF Reach

LEMMA ReachFrom ==
  ASSUME NEW needs, NEW U, NEW x, NEW y, NEW z, z \in FirstSet(needs, x), Reach(needs, U, z, y)
  PROVE  Reach(needs, U, x, y)
BY Zenon DEF Reach

LEMMA FirstIn ==
  ASSUME NEW needs, NEW U, NeedsIn(needs, U), NEW x
  PROVE  FirstSet(needs, x) \subseteq U /\ (x \notin DOMAIN needs => FirstSet(needs, x) = {})
<1>1. First(needs, x) \in Seq(U) BY FirstFits DEF NeedsIn
<1>2. ToSet(First(needs, x)) \subseteq U BY <1>1, SeqFacts
<1>3. x \notin DOMAIN needs => ToSet(First(needs, x)) = {} BY DEF First, ToSet
<1> QED BY <1>2, <1>3 DEF FirstSet

(* The first step of a way to another entry.                               *)
LEMMA ReachSteps ==
  ASSUME NEW needs, NEW U, NeedsIn(needs, U), NEW x \in U, NEW y, Reach(needs, U, x, y), x # y
  PROVE  \E z \in FirstSet(needs, x) \ {x} : Reach(needs, U, z, y)
<1> SUFFICES ASSUME \A z \in FirstSet(needs, x) \ {x} : ~Reach(needs, U, z, y) PROVE FALSE
  OBVIOUS
<1> DEFINE C == {u \in U : u = x \/ ~Reach(needs, U, u, y)}
<1>1. x \in C /\ C \in SUBSET U OBVIOUS
<1>2. ASSUME NEW u \in C, NEW z \in FirstSet(needs, u) PROVE z \in C
  <2>1. z \in U BY FirstIn
  <2>2. CASE u = x BY <2>1, <2>2
  <2>3. CASE u # x
    <3>1. ~Reach(needs, U, u, y) BY <2>3
    <3>2. ~Reach(needs, U, z, y) BY <3>1, ReachFrom
    <3> QED BY <2>1, <3>2
  <2> QED BY <2>2, <2>3
<1>3. y \notin C BY ReachItself
<1> HIDE DEF C
<1> QED BY <1>1, <1>2, <1>3, Zenon DEF Reach

(* No entry leads to one that needs it, but for itself.                    *)
LEMMA NoWayBack ==
  ASSUME NEW needs, NEW U, NeedsIn(needs, U), NoCircle(needs),
         NEW x \in U, NEW y \in FirstSet(needs, x), y # x, Reach(needs, U, y, x)
  PROVE  FALSE
<1> DEFINE L == {z \in U : Reach(needs, U, y, z) /\ Reach(needs, U, z, x)}
<1>1. x \in L /\ y \in L
  <2>1. y \in U BY FirstIn
  <2> QED BY <2>1, ReachItself
<1>2. ASSUME NEW z \in L PROVE \E u \in FirstSet(needs, z) \ {z} : u \in L
  <2>1. CASE z = x BY <1>1, <2>1
  <2>2. CASE z # x
    <3>1. PICK u \in FirstSet(needs, z) \ {z} : Reach(needs, U, u, x)
      BY <2>2, ReachSteps
    <3>2. Reach(needs, U, y, u) BY <3>1, ReachOn
    <3>3. u \in U BY <3>1, FirstIn
    <3> QED BY <3>1, <3>2, <3>3
  <2> QED BY <2>1, <2>2
<1>3. L \subseteq DOMAIN needs BY <1>2, FirstIn
<1> HIDE DEF L
<1>4. \A z \in L : (ToSet(needs[z]) \ {z}) \cap L # {} BY <1>2, <1>3 DEF FirstSet, First
<1>5. PICK succ : succ = [z \in DOMAIN needs |-> ToSet(needs[z]) \ {z}] OBVIOUS
<1>6. DOMAIN succ = DOMAIN needs /\ \A z \in L : succ[z] \cap L # {} BY <1>3, <1>4, <1>5
<1>7. L \in SUBSET DOMAIN succ /\ L # {} BY <1>1, <1>3, <1>6
<1>8. ~Acyclic(succ) BY <1>6, <1>7, Zenon DEF Acyclic
<1> QED BY <1>5, <1>8, Zenon DEF NoCircle

(* The invariant of the walk.                                              *)
ToEnter(u) == [id |-> u, at |-> "enter"]
ToLeave(u) == [id |-> u, at |-> "leave"]

WalkTyped(U, s) == s \in [todo : Seq(Entries(U)), seen : SUBSET U, out : Seq(U)]

NoneForgotten(U, s) == \A u \in U : u \in s.seen \/ \E j \in 1 .. Len(s.todo) : s.todo[j] = ToEnter(u)

SeenAreLeft(s) ==
  \A u \in s.seen : u \in ToSet(s.out) \/ \E j \in 1 .. Len(s.todo) : s.todo[j] = ToLeave(u)

LeftOnce(s) ==
  /\ IsInjective(s.out) /\ ToSet(s.out) \subseteq s.seen
  /\ \A j \in 1 .. Len(s.todo) : s.todo[j].at = "leave" =>
       /\ s.todo[j].id \in s.seen /\ s.todo[j].id \notin ToSet(s.out)
       /\ \A i \in 1 .. Len(s.todo) : s.todo[i] = s.todo[j] => i = j

AboveIsNeeded(needs, U, s) ==
  \A i, j \in 1 .. Len(s.todo) :
    i < j /\ s.todo[j].at = "leave" => Reach(needs, U, s.todo[j].id, s.todo[i].id)

NeedsCome(needs, s) ==
  \A j \in 1 .. Len(s.todo) : s.todo[j].at = "leave" =>
    \A y \in FirstSet(needs, s.todo[j].id) :
      y \in s.seen \/ \E i \in 1 .. Len(s.todo) : i < j /\ s.todo[i] = ToEnter(y)

InOrder(needs, out) ==
  \A k \in 1 .. Len(out) : \A y \in FirstSet(needs, out[k]) \ {out[k]} :
    \E m \in 1 .. Len(out) : m < k /\ out[m] = y

WalkInv(needs, U, s) ==
  /\ WalkTyped(U, s) /\ NoneForgotten(U, s) /\ SeenAreLeft(s) /\ LeftOnce(s)
  /\ AboveIsNeeded(needs, U, s) /\ NeedsCome(needs, s)
  /\ NoCircle(needs) => InOrder(needs, s.out)

(* Entries on top: one gone, or others in its place.                       *)
Popped(s, t) ==
  /\ Len(s.todo) \in Nat /\ Len(s.todo) > 0 /\ Len(t.todo) = Len(s.todo) - 1
  /\ \A i \in 1 .. Len(t.todo) : t.todo[i] = s.todo[i + 1]

LEMMA PoppedIs ==
  ASSUME NEW U, NEW s, NEW t, WalkTyped(U, s), s.todo # <<>>, t.todo = Tail(s.todo)
  PROVE  /\ Popped(s, t) /\ t.todo \in Seq(Entries(U))
         /\ s.todo[1] \in Entries(U) /\ s.todo[1] = [id |-> s.todo[1].id, at |-> s.todo[1].at]
         /\ s.todo[1].id \in U
<1>1. s.todo \in Seq(Entries(U)) BY DEF WalkTyped
<1>2. Len(s.todo) \in Nat /\ Len(s.todo) > 0
  <2>1. Len(s.todo) \in Nat /\ Len(s.todo) # 0 BY <1>1, SeqFacts
  <2> QED BY <2>1
<1>3. s.todo[1] \in Entries(U) BY <1>1, <1>2
<1>4. \A e \in Entries(U) : e = [id |-> e.id, at |-> e.at] /\ e.id \in U BY DEF Entries
<1>5. /\ Tail(s.todo) \in Seq(Entries(U)) /\ Len(Tail(s.todo)) = Len(s.todo) - 1
      /\ \A i \in 1 .. Len(Tail(s.todo)) : Tail(s.todo)[i] = s.todo[i + 1]
  BY <1>1, <1>2
<1> QED BY <1>2, <1>3, <1>4, <1>5 DEF Popped

LEMMA PopIndex ==
  ASSUME NEW s, NEW t, Popped(s, t)
  PROVE  /\ \A i \in 1 .. Len(t.todo) : i + 1 \in 1 .. Len(s.todo) /\ t.todo[i] = s.todo[i + 1]
         /\ \A j \in 1 .. Len(s.todo) : j # 1 =>
              \E i \in 1 .. Len(t.todo) : i + 1 = j /\ t.todo[i] = s.todo[j]
<1>1. Len(s.todo) \in Nat /\ Len(t.todo) = Len(s.todo) - 1 BY DEF Popped
<1>2. \A i \in 1 .. Len(t.todo) : i + 1 \in 1 .. Len(s.todo) /\ t.todo[i] = s.todo[i + 1]
  BY <1>1 DEF Popped
<1>3. ASSUME NEW j \in 1 .. Len(s.todo), j # 1
      PROVE  \E i \in 1 .. Len(t.todo) : i + 1 = j /\ t.todo[i] = s.todo[j]
  <2>1. j - 1 \in 1 .. Len(t.todo) /\ (j - 1) + 1 = j BY <1>1, <1>3
  <2> QED BY <1>2, <2>1
<1> QED BY <1>2, <1>3

LEMMA SeenKeeps ==
  ASSUME NEW needs, NEW U, NEW s, NEW t, WalkInv(needs, U, s), s.todo # <<>>,
         s.todo[1].at = "enter", s.todo[1].id \in s.seen,
         t = [todo |-> Tail(s.todo), seen |-> s.seen, out |-> s.out]
  PROVE  WalkInv(needs, U, t)
<1>1. t.todo = Tail(s.todo) /\ t.seen = s.seen /\ t.out = s.out OBVIOUS
<1>2. Popped(s, t) /\ t.todo \in Seq(Entries(U)) BY <1>1, PoppedIs DEF WalkInv
<1>3. /\ \A i \in 1 .. Len(t.todo) : i + 1 \in 1 .. Len(s.todo) /\ t.todo[i] = s.todo[i + 1]
      /\ \A j \in 1 .. Len(s.todo) : j # 1 =>
              \E i \in 1 .. Len(t.todo) : i + 1 = j /\ t.todo[i] = s.todo[j]
  BY <1>2, PopIndex
<1>4. WalkTyped(U, t) BY <1>1, <1>2 DEF WalkInv, WalkTyped
<1>5. NoneForgotten(U, t)
  <2>1. NoneForgotten(U, s) BY DEF WalkInv
  <2>2. ASSUME NEW u \in U, u \notin t.seen PROVE \E i \in 1 .. Len(t.todo) : t.todo[i] = ToEnter(u)
    <3>1. PICK j \in 1 .. Len(s.todo) : s.todo[j] = ToEnter(u)
      BY <1>1, <2>1, <2>2 DEF NoneForgotten
    <3>2. j # 1 BY <1>1, <2>2, <3>1 DEF ToEnter
    <3>3. PICK i \in 1 .. Len(t.todo) : i + 1 = j /\ t.todo[i] = s.todo[j] BY <1>3, <3>2
    <3> QED BY <3>1, <3>3
  <2> QED BY <2>2, Zenon DEF NoneForgotten
<1>6. SeenAreLeft(t)
  <2>1. SeenAreLeft(s) BY DEF WalkInv
  <2>2. ASSUME NEW u \in t.seen, u \notin ToSet(t.out)
        PROVE  \E i \in 1 .. Len(t.todo) : t.todo[i] = ToLeave(u)
    <3>1. PICK j \in 1 .. Len(s.todo) : s.todo[j] = ToLeave(u)
      BY <1>1, <2>1, <2>2 DEF SeenAreLeft
    <3>2. j # 1 BY <3>1 DEF ToLeave
    <3>3. PICK i \in 1 .. Len(t.todo) : i + 1 = j /\ t.todo[i] = s.todo[j] BY <1>3, <3>2
    <3> QED BY <3>1, <3>3
  <2> QED BY <2>2, Zenon DEF SeenAreLeft
<1>7. LeftOnce(t)
  <2>1. LeftOnce(s) BY DEF WalkInv
  <2>2. ASSUME NEW j \in 1 .. Len(t.todo), t.todo[j].at = "leave",
               NEW i \in 1 .. Len(t.todo), t.todo[i] = t.todo[j]
        PROVE  i = j
    <3>1. s.todo[i + 1] = s.todo[j + 1] /\ s.todo[j + 1].at = "leave"
          /\ i + 1 \in 1 .. Len(s.todo) /\ j + 1 \in 1 .. Len(s.todo)
      BY <1>3, <2>2
    <3>2. i + 1 = j + 1 BY <2>1, <3>1, Zenon DEF LeftOnce
    <3> QED BY <3>2
  <2>3. \A j \in 1 .. Len(t.todo) : t.todo[j].at = "leave" =>
          t.todo[j].id \in t.seen /\ t.todo[j].id \notin ToSet(t.out)
    BY <1>1, <1>3, <2>1 DEF LeftOnce
  <2> QED BY <1>1, <2>1, <2>2, <2>3 DEF LeftOnce
<1>8. AboveIsNeeded(needs, U, t)
  <2>1. AboveIsNeeded(needs, U, s) BY DEF WalkInv
  <2>2. ASSUME NEW i \in 1 .. Len(t.todo), NEW j \in 1 .. Len(t.todo), i < j,
               t.todo[j].at = "leave"
        PROVE  Reach(needs, U, t.todo[j].id, t.todo[i].id)
    <3>1. i + 1 < j + 1 BY <2>2
    <3> QED BY <1>3, <2>1, <2>2, <3>1 DEF AboveIsNeeded
  <2> QED BY <2>2 DEF AboveIsNeeded
<1>9. NeedsCome(needs, t)
  <2>1. NeedsCome(needs, s) BY DEF WalkInv
  <2>2. SUFFICES ASSUME NEW j \in 1 .. Len(t.todo), t.todo[j].at = "leave",
                        NEW y \in FirstSet(needs, t.todo[j].id), y \notin t.seen
                 PROVE  \E i \in 1 .. Len(t.todo) : i < j /\ t.todo[i] = ToEnter(y)
    BY DEF NeedsCome
  <2>3. j + 1 \in 1 .. Len(s.todo) /\ t.todo[j] = s.todo[j + 1] BY <1>3
  <2>4. PICK k \in 1 .. Len(s.todo) : k < j + 1 /\ s.todo[k] = ToEnter(y)
    BY <1>1, <2>1, <2>2, <2>3 DEF NeedsCome
  <2>5. k # 1 BY <1>1, <2>2, <2>4 DEF ToEnter
  <2>6. PICK i \in 1 .. Len(t.todo) : i + 1 = k /\ t.todo[i] = s.todo[k] BY <1>3, <2>5
  <2>7. i < j BY <2>4, <2>6
  <2> QED BY <2>4, <2>6, <2>7
<1>10. NoCircle(needs) => InOrder(needs, t.out) BY <1>1, Zenon DEF WalkInv
<1> QED BY <1>4, <1>5, <1>6, <1>7, <1>8, <1>9, <1>10, Zenon DEF WalkInv

LEMMA LeaveKeeps ==
  ASSUME NEW needs, NEW U, NEW s, NEW t, NeedsIn(needs, U), WalkInv(needs, U, s), s.todo # <<>>,
         s.todo[1].at = "leave",
         t = [todo |-> Tail(s.todo), seen |-> s.seen, out |-> Append(s.out, s.todo[1].id)]
  PROVE  WalkInv(needs, U, t)
<1> DEFINE v == s.todo[1].id
<1>1. t.todo = Tail(s.todo) /\ t.seen = s.seen /\ t.out = Append(s.out, v) OBVIOUS
<1>2. Popped(s, t) /\ t.todo \in Seq(Entries(U)) /\ v \in U /\ s.todo[1] = ToLeave(v)
  BY <1>1, PoppedIs DEF WalkInv, ToLeave
<1>3. /\ \A i \in 1 .. Len(t.todo) : i + 1 \in 1 .. Len(s.todo) /\ t.todo[i] = s.todo[i + 1]
      /\ \A j \in 1 .. Len(s.todo) : j # 1 =>
              \E i \in 1 .. Len(t.todo) : i + 1 = j /\ t.todo[i] = s.todo[j]
  BY <1>2, PopIndex
<1>i. 1 \in 1 .. Len(s.todo) BY <1>2 DEF Popped
<1>0. s.seen \in SUBSET U /\ s.out \in Seq(U) BY DEF WalkInv, WalkTyped
<1>a. t.out \in Seq(U) /\ ToSet(t.out) = ToSet(s.out) \cup {v} BY <1>0, <1>1, <1>2, SeqAppend
<1>b. /\ Len(s.out) \in Nat /\ DOMAIN s.out = 1 .. Len(s.out)
      /\ Len(t.out) = Len(s.out) + 1 /\ DOMAIN t.out = 1 .. Len(t.out) /\ t.out[Len(t.out)] = v
      /\ \A k \in 1 .. Len(s.out) : t.out[k] = s.out[k]
  BY <1>0, <1>1
<1> HIDE DEF v
<1>4. WalkTyped(U, t) BY <1>0, <1>1, <1>2, <1>a DEF WalkTyped
<1>5. NoneForgotten(U, t)
  <2>1. NoneForgotten(U, s) BY DEF WalkInv
  <2>2. ASSUME NEW u \in U, u \notin t.seen PROVE \E i \in 1 .. Len(t.todo) : t.todo[i] = ToEnter(u)
    <3>1. PICK j \in 1 .. Len(s.todo) : s.todo[j] = ToEnter(u)
      BY <1>1, <2>1, <2>2 DEF NoneForgotten
    <3>2. j # 1 BY <1>2, <3>1 DEF ToEnter, ToLeave
    <3>3. PICK i \in 1 .. Len(t.todo) : i + 1 = j /\ t.todo[i] = s.todo[j] BY <1>3, <3>2
    <3> QED BY <3>1, <3>3
  <2> QED BY <2>2, Zenon DEF NoneForgotten
<1>6. SeenAreLeft(t)
  <2>1. SeenAreLeft(s) BY DEF WalkInv
  <2>2. ASSUME NEW u \in t.seen, u \notin ToSet(t.out)
        PROVE  \E i \in 1 .. Len(t.todo) : t.todo[i] = ToLeave(u)
    <3>1. PICK j \in 1 .. Len(s.todo) : s.todo[j] = ToLeave(u)
      BY <1>1, <1>a, <2>1, <2>2 DEF SeenAreLeft
    <3>2. j # 1 BY <1>2, <1>a, <2>2, <3>1 DEF ToLeave
    <3>3. PICK i \in 1 .. Len(t.todo) : i + 1 = j /\ t.todo[i] = s.todo[j] BY <1>3, <3>2
    <3> QED BY <3>1, <3>3
  <2> QED BY <2>2, Zenon DEF SeenAreLeft
<1>c. v \in s.seen /\ v \notin ToSet(s.out)
      /\ \A i \in 1 .. Len(s.todo) : s.todo[i] = ToLeave(v) => i = 1
  <2>1. s.todo[1].at = "leave" /\ s.todo[1].id = v BY <1>2 DEF ToLeave
  <2>2. LeftOnce(s) BY DEF WalkInv
  <2> QED BY <1>2, <1>i, <2>1, <2>2, Zenon DEF LeftOnce
<1>7. LeftOnce(t)
  <2>1. LeftOnce(s) BY DEF WalkInv
  <2>2. ASSUME NEW j \in 1 .. Len(t.todo), t.todo[j].at = "leave"
        PROVE  /\ t.todo[j].id \in s.seen /\ t.todo[j].id \notin ToSet(t.out)
               /\ \A i \in 1 .. Len(t.todo) : t.todo[i] = t.todo[j] => i = j
    <3>1. j + 1 \in 1 .. Len(s.todo) /\ t.todo[j] = s.todo[j + 1] BY <1>3
    <3>2. /\ t.todo[j].id \in s.seen /\ t.todo[j].id \notin ToSet(s.out)
          /\ \A i \in 1 .. Len(s.todo) : s.todo[i] = t.todo[j] => i = j + 1
      BY <2>1, <2>2, <3>1 DEF LeftOnce
    <3>3. t.todo[j].id # v
      <4>1. t.todo[j] = ToLeave(t.todo[j].id)
        <5>1. t.todo[j] \in Entries(U) BY <1>2, SeqFacts
        <5> QED BY <2>2, <5>1 DEF Entries, ToLeave
      <4>2. j + 1 # 1 OBVIOUS
      <4> QED BY <1>c, <3>1, <4>1, <4>2
    <3>4. ASSUME NEW i \in 1 .. Len(t.todo), t.todo[i] = t.todo[j] PROVE i = j
      <4>1. i + 1 \in 1 .. Len(s.todo) /\ s.todo[i + 1] = t.todo[j] BY <1>3, <3>4
      <4>2. i + 1 = j + 1 BY <3>2, <4>1, Zenon
      <4> QED BY <4>2
    <3> QED BY <1>a, <3>2, <3>3, <3>4
  <2>3. IsInjective(t.out)
    <3>1. \A k \in 1 .. Len(s.out) : t.out[k] # v
      <4>1. \A k \in 1 .. Len(s.out) : t.out[k] = s.out[k] BY <1>b
      <4>2. \A k \in 1 .. Len(s.out) : s.out[k] # v BY <1>c DEF ToSet
      <4> QED BY <4>1, <4>2
    <3>2. \A a, b \in 1 .. Len(s.out) : t.out[a] = t.out[b] => a = b
      BY <1>b, <2>1 DEF LeftOnce, IsInjective
    <3>3. \A a \in 1 .. Len(t.out) : a \in 1 .. Len(s.out) \/ a = Len(t.out) BY <1>b
    <3> QED BY <1>b, <3>1, <3>2, <3>3 DEF IsInjective
  <2>4. ToSet(t.out) \subseteq t.seen BY <1>1, <1>a, <1>c, <2>1 DEF LeftOnce
  <2> QED BY <1>1, <2>2, <2>3, <2>4, Zenon DEF LeftOnce
<1>8. AboveIsNeeded(needs, U, t)
  <2>1. AboveIsNeeded(needs, U, s) BY DEF WalkInv
  <2>2. ASSUME NEW i \in 1 .. Len(t.todo), NEW j \in 1 .. Len(t.todo), i < j,
               t.todo[j].at = "leave"
        PROVE  Reach(needs, U, t.todo[j].id, t.todo[i].id)
    <3>1. i + 1 < j + 1 BY <2>2
    <3> QED BY <1>3, <2>1, <2>2, <3>1 DEF AboveIsNeeded
  <2> QED BY <2>2 DEF AboveIsNeeded
<1>d. NeedsCome(needs, s) BY DEF WalkInv
<1>9. NeedsCome(needs, t)
  <2>2. ASSUME NEW j \in 1 .. Len(t.todo), t.todo[j].at = "leave",
               NEW y \in FirstSet(needs, t.todo[j].id), y \notin t.seen
        PROVE  \E i \in 1 .. Len(t.todo) : i < j /\ t.todo[i] = ToEnter(y)
    <3>1. j + 1 \in 1 .. Len(s.todo) /\ t.todo[j] = s.todo[j + 1] BY <1>3
    <3>2. PICK k \in 1 .. Len(s.todo) : k < j + 1 /\ s.todo[k] = ToEnter(y)
      BY <1>1, <1>d, <2>2, <3>1 DEF NeedsCome
    <3>3. k # 1 BY <1>2, <3>2 DEF ToEnter, ToLeave
    <3>4. PICK i \in 1 .. Len(t.todo) : i + 1 = k /\ t.todo[i] = s.todo[k] BY <1>3, <3>3
    <3>5. i < j BY <3>2, <3>4
    <3> QED BY <3>2, <3>4, <3>5
  <2> QED BY <2>2, Zenon DEF NeedsCome
<1>10. ASSUME NoCircle(needs) PROVE InOrder(needs, t.out)
  <2>1. InOrder(needs, s.out) BY <1>10, Zenon DEF WalkInv
  <2>2. ASSUME NEW y \in FirstSet(needs, v), y # v PROVE y \in ToSet(s.out)
    <3>1. y \in s.seen
      <4>1. \A i \in 1 .. Len(s.todo) : ~(i < 1) OBVIOUS
      <4>2. s.todo[1].at = "leave" /\ s.todo[1].id = v BY <1>2 DEF ToLeave
      <4> QED BY <1>i, <1>d, <4>1, <4>2, <2>2, Zenon DEF NeedsCome
    <3>2. SUFFICES ASSUME y \notin ToSet(s.out) PROVE FALSE
      OBVIOUS
    <3>3. PICK j \in 1 .. Len(s.todo) : s.todo[j] = ToLeave(y)
      BY <3>1, <3>2 DEF WalkInv, SeenAreLeft
    <3>4. 1 < j /\ s.todo[j].at = "leave" /\ s.todo[j].id = y /\ s.todo[1].id = v
      BY <1>2, <2>2, <3>3 DEF ToLeave
    <3>5. Reach(needs, U, y, v) BY <1>i, <3>4, Zenon DEF WalkInv, AboveIsNeeded
    <3> QED BY <1>2, <1>10, <2>2, <3>5, NoWayBack
  <2>3. ASSUME NEW k \in 1 .. Len(t.out), NEW y \in FirstSet(needs, t.out[k]) \ {t.out[k]}
        PROVE  \E m \in 1 .. Len(t.out) : m < k /\ t.out[m] = y
    <3>1. CASE k = Len(t.out)
      <4>1. PICK m \in 1 .. Len(s.out) : s.out[m] = y BY <1>b, <2>2, <2>3, <3>1 DEF ToSet
      <4>2. m \in 1 .. Len(t.out) /\ m < k BY <1>b, <3>1
      <4> QED BY <1>b, <4>1, <4>2
    <3>2. CASE k # Len(t.out)
      <4>1. k \in 1 .. Len(s.out) BY <1>b, <3>2
      <4>2. t.out[k] = s.out[k] BY <1>b, <4>1
      <4>3. PICK m \in 1 .. Len(s.out) : m < k /\ s.out[m] = y
        BY <2>1, <2>3, <4>1, <4>2 DEF InOrder
      <4>4. m \in 1 .. Len(t.out) BY <1>b
      <4> QED BY <1>b, <4>3, <4>4
    <3> QED BY <3>1, <3>2
  <2> QED BY <2>3, Zenon DEF InOrder
<1> QED BY <1>4, <1>5, <1>6, <1>7, <1>8, <1>9, <1>10, Zenon DEF WalkInv

Pushed(s, t, nd, v) ==
  /\ Len(nd) \in Nat /\ Len(s.todo) \in Nat /\ Len(s.todo) > 0
  /\ Len(t.todo) = Len(nd) + Len(s.todo)
  /\ \A i \in 1 .. Len(nd) : t.todo[i] = ToEnter(nd[i])
  /\ t.todo[Len(nd) + 1] = ToLeave(v)
  /\ \A i \in 2 .. Len(s.todo) : t.todo[Len(nd) + i] = s.todo[i]

LEMMA PushedIs ==
  ASSUME NEW U, NEW s, NEW t, WalkTyped(U, s), s.todo # <<>>, NEW nd \in Seq(U), NEW v \in U,
         t.todo = Enter(nd) \o (<<ToLeave(v)>> \o Tail(s.todo))
  PROVE  Pushed(s, t, nd, v) /\ t.todo \in Seq(Entries(U))
<1> DEFINE E == Entries(U)
           on == Enter(nd)
           rest == Tail(s.todo)
           back == <<ToLeave(v)>> \o rest
<1>1. s.todo \in Seq(E) BY DEF WalkTyped
<1>2. Len(s.todo) \in Nat /\ Len(s.todo) > 0
  <2>1. Len(s.todo) \in Nat /\ Len(s.todo) # 0 BY <1>1, SeqFacts
  <2> QED BY <2>1
<1>3. rest \in Seq(E) /\ Len(rest) = Len(s.todo) - 1 /\ \A i \in 1 .. Len(rest) : rest[i] = s.todo[i + 1]
  <2> HIDE DEF E
  <2> QED BY <1>1, <1>2
<1>4. on \in Seq(E) /\ Len(on) = Len(nd) /\ Len(nd) \in Nat
      /\ \A i \in 1 .. Len(nd) : on[i] = ToEnter(nd[i])
  <2>1. Len(nd) \in Nat BY SeqFacts
  <2>2. on \in Seq(E) /\ Len(on) = Len(nd)
        /\ \A i \in 1 .. Len(nd) : on[i] = [id |-> nd[i], at |-> "enter"]
    <3> HIDE DEF E
    <3> QED BY EnterIs DEF E
  <2> QED BY <2>1, <2>2, Zenon DEF ToEnter
<1>5. ToLeave(v) \in E BY DEF ToLeave, Entries
<1> HIDE DEF E, on, rest
<1>6. back \in Seq(E) /\ Len(back) = Len(s.todo) /\ back[1] = ToLeave(v)
      /\ \A i \in 2 .. Len(s.todo) : back[i] = s.todo[i]
  <2>1. back \in Seq(E) /\ Len(back) = 1 + Len(rest) /\ back[1] = ToLeave(v)
        /\ \A i \in 1 .. Len(rest) : back[1 + i] = rest[i]
    <3>1. <<ToLeave(v)>> \in Seq(E) /\ Len(<<ToLeave(v)>>) = 1 BY <1>5
    <3> QED BY <1>3, <3>1
  <2>2. ASSUME NEW i \in 2 .. Len(s.todo) PROVE back[i] = s.todo[i]
    <3>1. i - 1 \in 1 .. Len(rest) /\ 1 + (i - 1) = i /\ (i - 1) + 1 = i BY <1>2, <1>3
    <3>2. rest[i - 1] = s.todo[i] BY <1>3, <3>1
    <3>3. back[i] = rest[i - 1] BY <2>1, <3>1
    <3> QED BY <3>2, <3>3
  <2> QED BY <1>2, <1>3, <2>1, <2>2
<1> HIDE DEF back
<1>7. t.todo = on \o back BY DEF on, back, rest
<1>8. t.todo \in Seq(E) /\ Len(t.todo) = Len(on) + Len(back)
      /\ (\A i \in 1 .. Len(on) : t.todo[i] = on[i])
      /\ (\A i \in 1 .. Len(back) : t.todo[Len(on) + i] = back[i])
  <2>1. on \o back \in Seq(E) /\ Len(on \o back) = Len(on) + Len(back)
        /\ (\A i \in 1 .. Len(on) : (on \o back)[i] = on[i])
        /\ (\A i \in 1 .. Len(back) : (on \o back)[Len(on) + i] = back[i])
    <3>1. on \in Seq(E) /\ back \in Seq(E) BY <1>4, <1>6
    <3> QED BY <3>1
  <2> QED BY <1>7, <2>1
<1>9. t.todo[Len(nd) + 1] = ToLeave(v) BY <1>2, <1>4, <1>6, <1>8
<1>10. \A i \in 2 .. Len(s.todo) : t.todo[Len(nd) + i] = s.todo[i] BY <1>2, <1>4, <1>6, <1>8
<1>11. \A i \in 1 .. Len(nd) : t.todo[i] = ToEnter(nd[i]) BY <1>4, <1>8
<1> QED BY <1>2, <1>4, <1>6, <1>8, <1>9, <1>10, <1>11 DEF E, Pushed

PushIndexes(s, t, nd, v, a) ==
  /\ \A j \in 1 .. Len(t.todo) :
       \/ j \in 1 .. a /\ t.todo[j] = ToEnter(nd[j])
       \/ j = a + 1 /\ t.todo[j] = ToLeave(v)
       \/ \E i \in 2 .. Len(s.todo) : j = a + i /\ t.todo[j] = s.todo[i]
  /\ \A i \in 1 .. Len(s.todo) : i # 1 =>
       i \in 2 .. Len(s.todo) /\ a + i \in 1 .. Len(t.todo) /\ t.todo[a + i] = s.todo[i]
  /\ a + 1 \in 1 .. Len(t.todo) /\ t.todo[a + 1] = ToLeave(v)
  /\ \A i \in 1 .. a : i \in 1 .. Len(t.todo) /\ t.todo[i] = ToEnter(nd[i]) /\ i < a + 1
  /\ 2 .. Len(s.todo) \subseteq 1 .. Len(s.todo) /\ 1 \in 1 .. Len(s.todo)

LEMMA PushIndex ==
  ASSUME NEW s, NEW t, NEW nd, NEW v, Pushed(s, t, nd, v)
  PROVE  PushIndexes(s, t, nd, v, Len(nd))
<1>1. /\ Len(nd) \in Nat /\ Len(s.todo) \in Nat /\ Len(s.todo) > 0
      /\ Len(t.todo) = Len(nd) + Len(s.todo)
  BY DEF Pushed
<1>2. ASSUME NEW j \in 1 .. Len(t.todo), j \notin 1 .. Len(nd), j # Len(nd) + 1
      PROVE  \E i \in 2 .. Len(s.todo) : j = Len(nd) + i /\ t.todo[j] = s.todo[i]
  <2>1. j - Len(nd) \in 2 .. Len(s.todo) /\ j = Len(nd) + (j - Len(nd)) BY <1>1, <1>2
  <2> QED BY <2>1 DEF Pushed
<1>3. \A i \in 1 .. Len(s.todo) : i # 1 =>
              i \in 2 .. Len(s.todo) /\ Len(nd) + i \in 1 .. Len(t.todo) /\ t.todo[Len(nd) + i] = s.todo[i]
  BY <1>1 DEF Pushed
<1>4. Len(nd) + 1 \in 1 .. Len(t.todo) BY <1>1
<1>5. \A i \in 1 .. Len(nd) : i \in 1 .. Len(t.todo) /\ t.todo[i] = ToEnter(nd[i]) /\ i < Len(nd) + 1
  BY <1>1 DEF Pushed
<1>6. 2 .. Len(s.todo) \subseteq 1 .. Len(s.todo) /\ 1 \in 1 .. Len(s.todo) BY <1>1
<1>7. t.todo[Len(nd) + 1] = ToLeave(v) BY DEF Pushed
<1> QED BY <1>2, <1>3, <1>4, <1>5, <1>6, <1>7 DEF PushIndexes

LEMMA EnterKeeps ==
  ASSUME NEW needs, NEW U, NEW s, NEW t, NeedsIn(needs, U), WalkInv(needs, U, s), s.todo # <<>>,
         NEW v \in U, s.todo[1] = ToEnter(v), v \notin s.seen,
         t = [todo |-> Enter(First(needs, v)) \o (<<ToLeave(v)>> \o Tail(s.todo)),
              seen |-> s.seen \cup {v}, out |-> s.out]
  PROVE  WalkInv(needs, U, t)
<1> DEFINE nd == First(needs, v)
           a == Len(nd)
<1>1. t.todo = Enter(nd) \o (<<ToLeave(v)>> \o Tail(s.todo)) /\ t.seen = s.seen \cup {v} /\ t.out = s.out
  OBVIOUS
<1>2. nd \in Seq(U) BY FirstFits DEF NeedsIn
<1>3. ToSet(nd) = FirstSet(needs, v) BY DEF FirstSet
<1> HIDE DEF nd
<1>0. WalkTyped(U, s) BY DEF WalkInv
<1>4. Pushed(s, t, nd, v) /\ t.todo \in Seq(Entries(U)) BY <1>0, <1>1, <1>2, PushedIs
<1>i. PushIndexes(s, t, nd, v, a) BY <1>4, PushIndex
<1>5. /\ \A j \in 1 .. Len(t.todo) :
              \/ j \in 1 .. a /\ t.todo[j] = ToEnter(nd[j])
              \/ j = a + 1 /\ t.todo[j] = ToLeave(v)
              \/ \E i \in 2 .. Len(s.todo) : j = a + i /\ t.todo[j] = s.todo[i]
      /\ \A i \in 1 .. Len(s.todo) : i # 1 =>
              i \in 2 .. Len(s.todo) /\ a + i \in 1 .. Len(t.todo) /\ t.todo[a + i] = s.todo[i]
      /\ a + 1 \in 1 .. Len(t.todo) /\ t.todo[a + 1] = ToLeave(v)
      /\ \A i \in 1 .. a : i \in 1 .. Len(t.todo) /\ t.todo[i] = ToEnter(nd[i]) /\ i < a + 1
      /\ 2 .. Len(s.todo) \subseteq 1 .. Len(s.todo) /\ 1 \in 1 .. Len(s.todo)
  BY <1>i DEF PushIndexes
<1>6. a \in Nat /\ ToSet(nd) = {nd[i] : i \in 1 .. a}
  <2>1. Len(nd) \in Nat /\ DOMAIN nd = 1 .. Len(nd) BY <1>2, SeqFacts
  <2> QED BY <2>1 DEF ToSet
<1> HIDE DEF a
<1>u. \A x, y : ToEnter(x) # ToLeave(y) BY DEF ToEnter, ToLeave
<1>w. \A x, y : (ToEnter(x) = ToEnter(y) => x = y) /\ (ToLeave(x) = ToLeave(y) => x = y)
  <2>1. \A x : ToEnter(x).id = x /\ ToLeave(x).id = x BY DEF ToEnter, ToLeave
  <2> QED BY <2>1, Zenon
<1>at. \A x : ToEnter(x).at = "enter" /\ ToLeave(x).at = "leave" /\ ToEnter(x).id = x /\ ToLeave(x).id = x
  BY DEF ToEnter, ToLeave
<1>10. WalkTyped(U, t) BY <1>0, <1>1, <1>4 DEF WalkTyped
<1>11. NoneForgotten(U, t)
  <2>1. NoneForgotten(U, s) BY DEF WalkInv
  <2>2. ASSUME NEW u \in U, u \notin t.seen PROVE \E i \in 1 .. Len(t.todo) : t.todo[i] = ToEnter(u)
    <3>1. u \notin s.seen /\ u # v BY <1>1, <2>2
    <3>2. PICK j \in 1 .. Len(s.todo) : s.todo[j] = ToEnter(u) BY <2>1, <3>1, Zenon DEF NoneForgotten
    <3>3. j # 1 BY <1>w, <3>1, <3>2, Zenon
    <3>4. a + j \in 1 .. Len(t.todo) /\ t.todo[a + j] = s.todo[j] BY <1>5, <3>3
    <3> QED BY <3>2, <3>4
  <2> QED BY <2>2, Zenon DEF NoneForgotten
<1>12. SeenAreLeft(t)
  <2>1. SeenAreLeft(s) BY DEF WalkInv
  <2>2. ASSUME NEW u \in t.seen, u \notin ToSet(t.out)
        PROVE  \E i \in 1 .. Len(t.todo) : t.todo[i] = ToLeave(u)
    <3>1. CASE u = v BY <1>5, <3>1
    <3>2. CASE u # v
      <4>1. u \in s.seen /\ u \notin ToSet(s.out) BY <1>1, <2>2, <3>2
      <4>2. PICK j \in 1 .. Len(s.todo) : s.todo[j] = ToLeave(u) BY <2>1, <4>1, Zenon DEF SeenAreLeft
      <4>3. j # 1 BY <1>u, <4>2, Zenon
      <4>4. a + j \in 1 .. Len(t.todo) /\ t.todo[a + j] = s.todo[j] BY <1>5, <4>3
      <4> QED BY <4>2, <4>4
    <3> QED BY <3>1, <3>2
  <2> QED BY <2>2, Zenon DEF SeenAreLeft
<1>l. LeftOnce(s) BY DEF WalkInv
<1>m. ASSUME NEW k \in 2 .. Len(s.todo), s.todo[k] = ToLeave(v) PROVE FALSE
  <2>1. k \in 1 .. Len(s.todo) /\ s.todo[k].at = "leave" /\ s.todo[k].id = v BY <1>5, <1>m, <1>at
  <2> QED BY <1>l, <2>1, Zenon DEF LeftOnce
<1>13. LeftOnce(t)
  <2>1. ToSet(t.out) \subseteq t.seen /\ IsInjective(t.out) /\ v \notin ToSet(t.out)
    <3>1. ToSet(s.out) \subseteq s.seen /\ IsInjective(s.out) BY <1>l DEF LeftOnce
    <3> QED BY <1>1, <3>1
  <2>2. ASSUME NEW j \in 1 .. Len(t.todo), t.todo[j].at = "leave"
        PROVE  /\ t.todo[j].id \in t.seen /\ t.todo[j].id \notin ToSet(t.out)
               /\ \A i \in 1 .. Len(t.todo) : t.todo[i] = t.todo[j] => i = j
    <3>1. CASE j = a + 1
      <4>1. t.todo[j] = ToLeave(v) BY <1>5, <3>1
      <4>2. t.todo[j].id = v BY <1>at, <4>1
      <4>3. ASSUME NEW i \in 1 .. Len(t.todo), t.todo[i] = t.todo[j] PROVE i = j
        <5>1. CASE i \in 1 .. a /\ t.todo[i] = ToEnter(nd[i]) BY <1>u, <4>1, <4>3, <5>1, Zenon
        <5>2. CASE i = a + 1 BY <3>1, <5>2
        <5>3. CASE \E k \in 2 .. Len(s.todo) : i = a + k /\ t.todo[i] = s.todo[k]
          BY <1>m, <4>1, <4>3, <5>3, Zenon
        <5> QED BY <1>5, <5>1, <5>2, <5>3
      <4> QED BY <1>1, <2>1, <4>2, <4>3
    <3>2. CASE \E k \in 2 .. Len(s.todo) : j = a + k /\ t.todo[j] = s.todo[k]
      <4>1. PICK k \in 2 .. Len(s.todo) : j = a + k /\ t.todo[j] = s.todo[k] BY <3>2
      <4>2. k \in 1 .. Len(s.todo) /\ s.todo[k].at = "leave" BY <1>5, <2>2, <4>1
      <4>3. /\ s.todo[k].id \in s.seen /\ s.todo[k].id \notin ToSet(s.out)
            /\ \A i \in 1 .. Len(s.todo) : s.todo[i] = s.todo[k] => i = k
        BY <1>l, <4>2, Zenon DEF LeftOnce
      <4>4. ASSUME NEW i \in 1 .. Len(t.todo), t.todo[i] = t.todo[j] PROVE i = j
        <5>1. CASE i \in 1 .. a /\ t.todo[i] = ToEnter(nd[i]) BY <1>at, <2>2, <4>4, <5>1
        <5>2. CASE i = a + 1 /\ t.todo[i] = ToLeave(v) BY <1>m, <4>1, <4>4, <5>2, Zenon
        <5>3. CASE \E m \in 2 .. Len(s.todo) : i = a + m /\ t.todo[i] = s.todo[m]
          <6>1. PICK m \in 2 .. Len(s.todo) : i = a + m /\ t.todo[i] = s.todo[m] BY <5>3
          <6>2. m \in 1 .. Len(s.todo) /\ s.todo[m] = s.todo[k] BY <1>5, <4>1, <4>4, <6>1
          <6>3. m = k BY <4>3, <6>2, Zenon
          <6> QED BY <4>1, <6>1, <6>3
        <5> QED BY <1>5, <5>1, <5>2, <5>3
      <4> QED BY <1>1, <4>1, <4>3, <4>4
    <3>3. CASE j \in 1 .. a /\ t.todo[j] = ToEnter(nd[j]) BY <1>at, <2>2, <3>3
    <3> QED BY <1>5, <3>1, <3>2, <3>3
  <2> QED BY <2>1, <2>2, Zenon DEF LeftOnce
<1>14. AboveIsNeeded(needs, U, t)
  <2>1. AboveIsNeeded(needs, U, s) BY DEF WalkInv
  <2>n. ASSUME NEW i \in 1 .. a PROVE nd[i] \in FirstSet(needs, v) BY <1>3, <1>6
  <2>2. ASSUME NEW i \in 1 .. Len(t.todo), NEW j \in 1 .. Len(t.todo), i < j,
               t.todo[j].at = "leave"
        PROVE  Reach(needs, U, t.todo[j].id, t.todo[i].id)
    <3>0. i \in Int /\ j \in Int OBVIOUS
    <3>1. CASE j = a + 1
      <4>1. t.todo[j].id = v BY <1>5, <1>at, <3>1
      <4>2. CASE i \in 1 .. a /\ t.todo[i] = ToEnter(nd[i])
        <5>1. t.todo[i].id = nd[i] /\ nd[i] \in FirstSet(needs, v) BY <1>at, <2>n, <4>2
        <5> QED BY <4>1, <5>1, ReachItself, ReachOn
      <4>3. ~(i = a + 1) /\ ~\E m \in 2 .. Len(s.todo) : i = a + m BY <1>6, <2>2, <3>0, <3>1
      <4> QED BY <1>5, <4>2, <4>3
    <3>2. CASE \E k \in 2 .. Len(s.todo) : j = a + k /\ t.todo[j] = s.todo[k]
      <4>1. PICK k \in 2 .. Len(s.todo) : j = a + k /\ t.todo[j] = s.todo[k] BY <3>2
      <4>2. k \in 1 .. Len(s.todo) /\ s.todo[k].at = "leave" /\ 1 < k 
        <5>1. 1 < k OBVIOUS
        <5> QED BY <1>5, <2>2, <4>1, <5>1
      <4>3. Reach(needs, U, s.todo[k].id, v)
        <5>1. s.todo[1].id = v BY <1>at
        <5>2. Reach(needs, U, s.todo[k].id, s.todo[1].id) BY <1>5, <2>1, <4>2, Zenon DEF AboveIsNeeded
        <5> QED BY <5>1, <5>2
      <4>4. CASE i \in 1 .. a /\ t.todo[i] = ToEnter(nd[i])
        <5>1. t.todo[i].id = nd[i] /\ nd[i] \in FirstSet(needs, v) BY <1>at, <2>n, <4>4
        <5>2. Reach(needs, U, s.todo[k].id, nd[i]) BY <4>3, <5>1, ReachOn
        <5> QED BY <4>1, <5>1, <5>2
      <4>5. CASE i = a + 1 /\ t.todo[i] = ToLeave(v)
        <5>1. t.todo[i].id = v BY <1>at, <4>5
        <5> QED BY <4>1, <4>3, <5>1
      <4>6. CASE \E m \in 2 .. Len(s.todo) : i = a + m /\ t.todo[i] = s.todo[m]
        <5>1. PICK m \in 2 .. Len(s.todo) : i = a + m /\ t.todo[i] = s.todo[m] BY <4>6
        <5>2. m \in 1 .. Len(s.todo) BY <1>5
        <5>3. m < k BY <1>6, <2>2, <4>1, <5>1
        <5>4. Reach(needs, U, s.todo[k].id, s.todo[m].id)
          BY <2>1, <4>2, <5>2, <5>3, Zenon DEF AboveIsNeeded
        <5> QED BY <4>1, <5>1, <5>4
      <4> QED BY <1>5, <4>4, <4>5, <4>6
    <3>3. CASE j \in 1 .. a /\ t.todo[j] = ToEnter(nd[j]) BY <1>at, <2>2, <3>3
    <3> QED BY <1>5, <3>1, <3>2, <3>3
  <2> QED BY <2>2 DEF AboveIsNeeded
<1>15. NeedsCome(needs, t)
  <2>1. NeedsCome(needs, s) BY DEF WalkInv
  <2>2. ASSUME NEW j \in 1 .. Len(t.todo), t.todo[j].at = "leave",
               NEW y \in FirstSet(needs, t.todo[j].id), y \notin t.seen
        PROVE  \E i \in 1 .. Len(t.todo) : i < j /\ t.todo[i] = ToEnter(y)
    <3>1. CASE j = a + 1
      <4>1. t.todo[j].id = v BY <1>5, <1>at, <3>1
      <4>2. PICK i \in 1 .. a : nd[i] = y
        <5>1. y \in ToSet(nd) BY <1>3, <2>2, <4>1
        <5> QED BY <1>6, <5>1
      <4> QED BY <1>5, <3>1, <4>2
    <3>2. CASE \E k \in 2 .. Len(s.todo) : j = a + k /\ t.todo[j] = s.todo[k]
      <4>1. PICK k \in 2 .. Len(s.todo) : j = a + k /\ t.todo[j] = s.todo[k] BY <3>2
      <4>2. k \in 1 .. Len(s.todo) /\ s.todo[k].at = "leave" /\ y \in FirstSet(needs, s.todo[k].id)
        BY <1>5, <2>2, <4>1
      <4>3. y \notin s.seen /\ y # v BY <1>1, <2>2
      <4>4. PICK m \in 1 .. Len(s.todo) : m < k /\ s.todo[m] = ToEnter(y)
        BY <2>1, <4>2, <4>3, Zenon DEF NeedsCome
      <4>5. m # 1 BY <1>w, <4>3, <4>4, Zenon
      <4>6. a + m \in 1 .. Len(t.todo) /\ t.todo[a + m] = s.todo[m] BY <1>5, <4>5
      <4>7. a + m < j BY <1>6, <4>1, <4>4
      <4> QED BY <4>4, <4>6, <4>7
    <3>3. CASE j \in 1 .. a /\ t.todo[j] = ToEnter(nd[j]) BY <1>at, <2>2, <3>3
    <3> QED BY <1>5, <3>1, <3>2, <3>3
  <2> QED BY <2>2, Zenon DEF NeedsCome
<1>16. NoCircle(needs) => InOrder(needs, t.out) BY <1>1, Zenon DEF WalkInv
<1> QED BY <1>10, <1>11, <1>12, <1>13, <1>14, <1>15, <1>16, Zenon DEF WalkInv

(* Every step keeps the invariant, and every walk ends: a step enters one  *)
(* more entry, or the stack gets shorter.                                  *)
Nearer(U, s, t) ==
  \/ t.seen = s.seen /\ Len(t.todo) = Len(s.todo) - 1
  \/ \E v \in U \ s.seen : t.seen = s.seen \cup {v}

(* The three kinds of step, v being what stands on top.                     *)
Leaves(v, s, t) ==
  s.todo[1] = ToLeave(v) /\ t = [todo |-> Tail(s.todo), seen |-> s.seen, out |-> Append(s.out, v)]

Passes(v, s, t) ==
  s.todo[1] = ToEnter(v) /\ v \in s.seen /\ t = [todo |-> Tail(s.todo), seen |-> s.seen, out |-> s.out]

Enters(needs, v, s, t) ==
  /\ s.todo[1] = ToEnter(v) /\ v \notin s.seen
  /\ t = [todo |-> Enter(First(needs, v)) \o (<<ToLeave(v)>> \o Tail(s.todo)),
          seen |-> s.seen \cup {v}, out |-> s.out]

LEMMA StepForms ==
  ASSUME NEW needs, NEW U, NEW s, WalkTyped(U, s), s.todo # <<>>
  PROVE  \E v \in U : LET t == WalkStep(needs, s) IN
           Leaves(v, s, t) \/ Passes(v, s, t) \/ Enters(needs, v, s, t)
<1> DEFINE t == WalkStep(needs, s)
           v == s.todo[1].id
           rest == Tail(s.todo)
<1>1. s.todo \in Seq(Entries(U)) BY DEF WalkTyped
<1>2. /\ s.todo[1] \in Entries(U)
      /\ t = IF s.todo[1].at = "leave" THEN [todo |-> rest, seen |-> s.seen, out |-> Append(s.out, v)]
             ELSE IF v \in s.seen THEN [todo |-> rest, seen |-> s.seen, out |-> s.out]
             ELSE [todo |-> Enter(First(needs, v)) \o (<<[id |-> v, at |-> "leave"]>> \o rest),
                   seen |-> s.seen \cup {v}, out |-> s.out]
  <2>1. s.todo[1] \in Entries(U) BY <1>1, StepIs
  <2>2. Head(s.todo) = s.todo[1] BY <1>1
  <2> QED BY <2>1, <2>2, Zenon DEF WalkStep, First
<1>3. v \in U /\ s.todo[1].at \in {"enter", "leave"} /\ s.todo[1] = [id |-> v, at |-> s.todo[1].at]
  BY <1>2 DEF Entries
<1>4. [id |-> v, at |-> "leave"] = ToLeave(v) BY DEF ToLeave
<1> HIDE DEF t
<1>5. CASE s.todo[1].at = "leave"
  <2>1. t = [todo |-> rest, seen |-> s.seen, out |-> Append(s.out, v)] BY <1>2, <1>5
  <2>2. s.todo[1] = ToLeave(v) BY <1>3, <1>4, <1>5
  <2> HIDE DEF v
  <2> QED BY <1>3, <2>1, <2>2 DEF t, Leaves
<1>6. CASE s.todo[1].at # "leave" /\ v \in s.seen
  <2>1. t = [todo |-> rest, seen |-> s.seen, out |-> s.out] BY <1>2, <1>6
  <2>2. s.todo[1] = ToEnter(v) BY <1>3, <1>6 DEF ToEnter
  <2> HIDE DEF v
  <2> QED BY <1>3, <1>6, <2>1, <2>2 DEF t, Passes
<1>7. CASE s.todo[1].at # "leave" /\ v \notin s.seen
  <2>1. t = [todo |-> Enter(First(needs, v)) \o (<<ToLeave(v)>> \o rest),
             seen |-> s.seen \cup {v}, out |-> s.out]
    BY <1>2, <1>4, <1>7
  <2>2. s.todo[1] = ToEnter(v) BY <1>3, <1>7 DEF ToEnter
  <2> HIDE DEF v
  <2> QED BY <1>3, <1>7, <2>1, <2>2, Zenon DEF t, Enters
<1> QED BY <1>5, <1>6, <1>7

LEMMA StepKeeps ==
  ASSUME NEW needs, NEW U, NEW s, NeedsIn(needs, U), WalkInv(needs, U, s), s.todo # <<>>
  PROVE  WalkInv(needs, U, WalkStep(needs, s)) /\ Nearer(U, s, WalkStep(needs, s))
<1>0. WalkTyped(U, s) BY DEF WalkInv
<1>1. PICK t : t = WalkStep(needs, s) OBVIOUS
<1>2. PICK v \in U : Leaves(v, s, t) \/ Passes(v, s, t) \/ Enters(needs, v, s, t)
  BY <1>0, <1>1, StepForms
<1>3. Len(Tail(s.todo)) = Len(s.todo) - 1
  <2>1. s.todo \in Seq(Entries(U)) BY <1>0 DEF WalkTyped
  <2> QED BY <2>1, StepIs
<1>at. ToLeave(v).at = "leave" /\ ToLeave(v).id = v /\ ToEnter(v).at = "enter" /\ ToEnter(v).id = v
  BY DEF ToLeave, ToEnter
<1>5. CASE Leaves(v, s, t)
  <2>1. /\ s.todo[1].at = "leave"
        /\ t = [todo |-> Tail(s.todo), seen |-> s.seen, out |-> Append(s.out, s.todo[1].id)]
    BY <1>5, <1>at DEF Leaves
  <2>2. WalkInv(needs, U, t) BY <2>1, LeaveKeeps
  <2> QED BY <1>1, <1>3, <2>1, <2>2 DEF Nearer
<1>6. CASE Passes(v, s, t)
  <2>1. /\ s.todo[1].at = "enter" /\ s.todo[1].id \in s.seen
        /\ t = [todo |-> Tail(s.todo), seen |-> s.seen, out |-> s.out]
    BY <1>6, <1>at DEF Passes
  <2>2. WalkInv(needs, U, t) BY <2>1, SeenKeeps
  <2> QED BY <1>1, <1>3, <2>1, <2>2 DEF Nearer
<1>7. CASE Enters(needs, v, s, t)
  <2>1. WalkInv(needs, U, t)
    <3>1. /\ s.todo[1] = ToEnter(v) /\ v \notin s.seen
          /\ t = [todo |-> Enter(First(needs, v)) \o (<<ToLeave(v)>> \o Tail(s.todo)),
                  seen |-> s.seen \cup {v}, out |-> s.out]
      BY <1>7, Zenon DEF Enters
    <3> QED BY <3>1, EnterKeeps
  <2>2. v \in U \ s.seen /\ t.seen = s.seen \cup {v} BY <1>7 DEF Enters
  <2> QED BY <1>1, <2>1, <2>2 DEF Nearer
<1> QED BY <1>2, <1>5, <1>6, <1>7

LEMMA WalkInWalks ==
  ASSUME NEW needs, NEW U \in SUBSET Seq(Nat), NEW s, WalkInv(needs, U, s) PROVE s \in Walks
<1>1. Entries(U) \subseteq Entries(Seq(Nat)) BY DEF Entries
<1>2. s \in [todo : Seq(Entries(U)), seen : SUBSET U, out : Seq(U)] BY DEF WalkInv, WalkTyped
<1>3. s.todo \in Seq(Entries(Seq(Nat)))
  <2>1. s.todo \in Seq(Entries(U)) BY <1>2
  <2> QED BY <1>1, <2>1
<1>4. s.out \in Seq(Seq(Nat))
  <2>1. s.out \in Seq(U) BY <1>2
  <2> QED BY <2>1
<1>5. s.seen \in SUBSET Seq(Nat) BY <1>2
<1>6. s = [todo |-> s.todo, seen |-> s.seen, out |-> s.out] BY <1>2
<1>7. Walks = [todo : Seq(Entries(Seq(Nat))), seen : SUBSET Seq(Nat), out : Seq(Seq(Nat))]
  BY DEF Walks, Entries
<1> HIDE DEF Entries
<1> QED BY <1>3, <1>4, <1>5, <1>6, <1>7

(* Whatever the steps keep, the walk ends in it.                            *)
LEMMA WalkEnds ==
  ASSUME NEW needs, NEW U, NeedsIn(needs, U), NEW w, WalkIs(needs, w),
         NEW G, \A s \in G : WalkInv(needs, U, s),
         \A s \in G : s.todo # <<>> => WalkStep(needs, s) \in G, NEW s0 \in G
  PROVE  \E s \in G : s.todo = <<>> /\ w[s0] = s.out
<1> DEFINE Good == {s \in G : w[s] = w[s0]}
           Lefts == {n \in Nat : \E s \in Good : Cardinality(U \ s.seen) = n}
<1>0. IsFiniteSet(U) /\ U \in SUBSET Seq(Nat) BY DEF NeedsIn
<1>1. s0 \in Good OBVIOUS
<1>2. \A s \in Good : s \in G /\ s \in Walks /\ WalkInv(needs, U, s) /\ w[s] = w[s0]
  BY <1>0, WalkInWalks
<1>3. \A s \in G : w[s] = w[s0] => s \in Good OBVIOUS
<1> HIDE DEF Good
<1>4. \A s \in Good : IsFiniteSet(U \ s.seen) /\ Cardinality(U \ s.seen) \in Nat
  <2> SUFFICES ASSUME NEW s \in Good PROVE IsFiniteSet(U \ s.seen) /\ Cardinality(U \ s.seen) \in Nat
    OBVIOUS
  <2>1. U \ s.seen \in SUBSET U OBVIOUS
  <2>2. IsFiniteSet(U \ s.seen) BY <1>0, <2>1, FS_Subset
  <2> QED BY <2>2, FS_CardinalityType
<1>5. PICK n \in Lefts : \A m \in Lefts : n <= m
  <2>1. Lefts # {} BY <1>1, <1>4
  <2>2. Lefts \in SUBSET Nat OBVIOUS
  <2> HIDE DEF Lefts
  <2> QED BY <2>1, <2>2, LeastExists
<1>6. n \in Nat /\ \E s \in Good : Cardinality(U \ s.seen) = n OBVIOUS
<1>7. \A s \in Good : Cardinality(U \ s.seen) \in Lefts BY <1>4
<1> HIDE DEF Lefts
<1> DEFINE Lens == {m \in Nat : \E s \in Good : Cardinality(U \ s.seen) = n /\ Len(s.todo) = m}
<1>8. \A s \in Good : Len(s.todo) \in Nat
  <2> SUFFICES ASSUME NEW s \in Good PROVE Len(s.todo) \in Nat
    OBVIOUS
  <2>1. s.todo \in Seq(Entries(U)) BY <1>2 DEF WalkInv, WalkTyped
  <2> QED BY <2>1, SeqFacts
<1>9. PICK m \in Lens : \A k \in Lens : m <= k
  <2>1. Lens # {} BY <1>6, <1>8
  <2>2. Lens \in SUBSET Nat OBVIOUS
  <2> HIDE DEF Lens
  <2> QED BY <2>1, <2>2, LeastExists
<1>10. PICK s \in Good : Cardinality(U \ s.seen) = n /\ Len(s.todo) = m BY <1>9
<1>11. m \in Nat BY <1>8, <1>10
<1>12. s \in G /\ s \in Walks /\ WalkInv(needs, U, s) /\ w[s] = w[s0] BY <1>2
<1>13. w[s] = IF s.todo = <<>> THEN s.out ELSE w[WalkStep(needs, s)] BY <1>12, Zenon DEF WalkIs
<1>14. s.todo = <<>>
  <2> SUFFICES ASSUME s.todo # <<>> PROVE FALSE
    OBVIOUS
  <2> DEFINE t == WalkStep(needs, s)
  <2>1. WalkInv(needs, U, t) /\ Nearer(U, s, t) BY <1>12, StepKeeps
  <2>2. w[t] = w[s0] BY <1>12, <1>13
  <2> HIDE DEF t
  <2>3. t \in G BY <1>12 DEF t
  <2>4. t \in Good BY <1>3, <2>2, <2>3
  <2>5. CASE t.seen = s.seen /\ Len(t.todo) = Len(s.todo) - 1
    <3>1. Len(t.todo) \in Nat /\ Len(t.todo) = m - 1 /\ Cardinality(U \ t.seen) = n
      BY <1>8, <1>10, <2>4, <2>5
    <3>2. Len(t.todo) \in Lens BY <2>4, <3>1
    <3> HIDE DEF Lens
    <3>3. m <= Len(t.todo) BY <1>9, <3>2
    <3> QED BY <1>11, <3>1, <3>3
  <2>6. CASE \E v \in U \ s.seen : t.seen = s.seen \cup {v}
    <3>1. PICK v \in U \ s.seen : t.seen = s.seen \cup {v} BY <2>6
    <3>2. U \ t.seen = (U \ s.seen) \ {v} BY <3>1
    <3>3. Cardinality((U \ s.seen) \ {v}) = Cardinality(U \ s.seen) - 1
      BY <1>4, FS_RemoveElement
    <3>4. n <= Cardinality(U \ t.seen) BY <1>5, <1>7, <2>4
    <3>5. Cardinality(U \ t.seen) = n - 1 BY <1>10, <3>2, <3>3
    <3> QED BY <1>6, <3>4, <3>5
  <2> QED BY <2>1, <2>5, <2>6 DEF Nearer
<1> QED BY <1>12, <1>13, <1>14

LEMMA StartFits ==
  ASSUME NEW needs, NEW U, NeedsIn(needs, U), NEW order \in Seq(U), ToSet(order) = U,
         NEW s, s = [todo |-> Enter(order), seen |-> {}, out |-> <<>>]
  PROVE  WalkInv(needs, U, s)
<1>1. s.todo = Enter(order) /\ s.seen = {} /\ s.out = <<>> OBVIOUS
<1>2. Len(order) \in Nat /\ DOMAIN order = 1 .. Len(order) BY SeqFacts
<1>3. s.todo \in Seq(Entries(U)) /\ Len(s.todo) = Len(order)
      /\ \A k \in 1 .. Len(order) : s.todo[k] = ToEnter(order[k])
  BY <1>1, EnterIs DEF ToEnter
<1>4. \A k \in 1 .. Len(s.todo) : s.todo[k].at # "leave"
  <2>1. \A x : ToEnter(x).at # "leave" BY DEF ToEnter
  <2> QED BY <1>3, <2>1
<1>5. WalkTyped(U, s)
  <2>1. <<>> \in Seq(U) OBVIOUS
  <2> HIDE DEF Entries
  <2> QED BY <1>1, <1>3, <2>1 DEF WalkTyped
<1>6. NoneForgotten(U, s)
  <2> SUFFICES ASSUME NEW u \in U PROVE \E j \in 1 .. Len(s.todo) : s.todo[j] = ToEnter(u)
    BY Zenon DEF NoneForgotten
  <2>1. PICK j \in 1 .. Len(order) : order[j] = u BY <1>2 DEF ToSet
  <2> QED BY <1>3, <2>1
<1>7. SeenAreLeft(s) BY <1>1 DEF SeenAreLeft
<1>8. LeftOnce(s)
  <2>1. IsInjective(<<>>) /\ ToSet(<<>>) = {} BY DEF IsInjective, ToSet
  <2> QED BY <1>1, <1>4, <2>1, Zenon DEF LeftOnce
<1>9. AboveIsNeeded(needs, U, s) BY <1>4, Zenon DEF AboveIsNeeded
<1>10. NeedsCome(needs, s) BY <1>4, Zenon DEF NeedsCome
<1>11. InOrder(needs, s.out)
  <2>1. \A k \in 1 .. Len(<<>>) : FALSE OBVIOUS
  <2> QED BY <1>1, <2>1, Zenon DEF InOrder
<1> QED BY <1>5, <1>6, <1>7, <1>8, <1>9, <1>10, <1>11, Zenon DEF WalkInv

(* What the walk leaves behind: each entry once, in order.                 *)
LEMMA WalkGives ==
  ASSUME NEW needs, NEW U, NeedsIn(needs, U), NEW w, WalkIs(needs, w),
         NEW order \in Seq(U), ToSet(order) = U
  PROVE  LET out == w[[todo |-> Enter(order), seen |-> {}, out |-> <<>>]] IN
         out \in Seq(U) /\ IsInjective(out) /\ ToSet(out) = U /\ (NoCircle(needs) => InOrder(needs, out))
<1>1. PICK s0 : s0 = [todo |-> Enter(order), seen |-> {}, out |-> <<>>] OBVIOUS
<1>2. WalkInv(needs, U, s0) BY <1>1, StartFits
<1>3. PICK s : WalkInv(needs, U, s) /\ s.todo = <<>> /\ w[s0] = s.out
  <2> DEFINE G == {s \in Walks : WalkInv(needs, U, s)}
  <2>1. U \in SUBSET Seq(Nat) BY DEF NeedsIn
  <2>2. \A s \in G : s.todo # <<>> => WalkStep(needs, s) \in G BY <2>1, StepKeeps, WalkInWalks
  <2>3. s0 \in G /\ \A s \in G : WalkInv(needs, U, s) BY <1>2, <2>1, WalkInWalks
  <2> HIDE DEF G
  <2>4. \E s \in G : s.todo = <<>> /\ w[s0] = s.out BY <2>2, <2>3, WalkEnds
  <2> QED BY <2>3, <2>4
<1>4. s.out \in Seq(U) /\ s.seen \subseteq U BY <1>3 DEF WalkInv, WalkTyped
<1>5. \A j \in 1 .. Len(s.todo) : FALSE BY <1>3
<1>6. U \subseteq s.seen BY <1>3, <1>5, Zenon DEF WalkInv, NoneForgotten
<1>7. s.seen \subseteq ToSet(s.out) BY <1>3, <1>5, Zenon DEF WalkInv, SeenAreLeft
<1>8. IsInjective(s.out) BY <1>3, Zenon DEF WalkInv, LeftOnce
<1>9. NoCircle(needs) => InOrder(needs, s.out) BY <1>3, Zenon DEF WalkInv
<1>10. ToSet(s.out) \subseteq U BY <1>4, SeqFacts
<1>11. ToSet(s.out) = U BY <1>6, <1>7, <1>10
<1> QED BY <1>1, <1>3, <1>4, <1>8, <1>9, <1>11

Needs(its, Q) == [id \in Q |-> Prerequisites(its, Q, id)]

DepsTyped(its) == \A id \in DOMAIN its : its[id].deps \in Seq(Seq(Nat))

LEMMA SeqFinite == ASSUME NEW X, NEW s \in Seq(X) PROVE IsFiniteSet(ToSet(s))
<1>1. Len(s) \in Nat /\ DOMAIN s = 1 .. Len(s) BY SeqFacts
<1>2. s \in Surjection(1 .. Len(s), ToSet(s)) BY <1>1 DEF Surjection, ToSet
<1>3. IsFiniteSet(1 .. Len(s)) BY <1>1, FS_Interval
<1> QED BY <1>2, <1>3, FS_Surjection

InQueue(its, order) == ToSet(order) \cap DOMAIN its

LEMMA RepairWalks ==
  ASSUME NEW its, Tree(its), DepsTyped(its), NEW order \in Seq(Seq(Nat)),
         NEW needs, needs = Needs(its, InQueue(its, order))
  PROVE  /\ NeedsIn(needs, ToSet(order)) /\ order \in Seq(ToSet(order))
         /\ \E w : WalkIs(needs, w)
                   /\ TopoRepairPriority(its, order) = w[[todo |-> Enter(order), seen |-> {}, out |-> <<>>]]
<1> DEFINE U == ToSet(order)
           Q == InQueue(its, order)
<1>1. Q \cap DOMAIN its = Q /\ Q \subseteq U /\ Q \subseteq DOMAIN its BY DEF InQueue
<1>2. IsFiniteSet(U) /\ U \subseteq Seq(Nat) BY SeqFinite, SeqFacts
<1>3. order \in Seq(U) BY SeqFacts
<1> HIDE DEF U, Q
<1>q. needs = Needs(its, Q) BY DEF Q
<1>4. NeedsIn(needs, U)
  <2>1. DOMAIN needs = Q BY <1>q DEF Needs
  <2>2. ASSUME NEW id \in Q PROVE needs[id] \in Seq(U)
    <3>1. its[id].deps \in Seq(Seq(Nat)) BY <1>1, <2>2 DEF DepsTyped
    <3>2. Prerequisites(its, Q, id) \in Seq(Q \cap DOMAIN its) BY <3>1, PrerequisitesAre
    <3>3. needs[id] = Prerequisites(its, Q, id) BY <1>q DEF Needs
    <3>4. needs[id] \in Seq(Q) BY <1>1, <3>2, <3>3
    <3> QED BY <1>1, <3>4
  <2> QED BY <1>1, <1>2, <2>1, <2>2 DEF NeedsIn
<1>5. NeedsFit(needs)
  <2>1. \A id \in DOMAIN needs : needs[id] \in Seq(U) BY <1>4 DEF NeedsIn
  <2> QED BY <1>2, <2>1 DEF NeedsFit
<1>6. PICK w0 : WalkIs(needs, w0) BY <1>5, WalkExists
<1>7. PICK w : w = (CHOOSE x : WalkIs(needs, x)) /\ WalkIs(needs, w) BY <1>6, Zenon
<1>8. TopoRepairPriority(its, order) = w[[todo |-> Enter(order), seen |-> {}, out |-> <<>>]]
  <2>1. TopoRepairPriority(its, order) =
          (CHOOSE x : WalkIs(Needs(its, Q), x))[[todo |-> Enter(order), seen |-> {}, out |-> <<>>]]
    BY Zenon DEF TopoRepairPriority, WalkIs, Needs, Q, InQueue
  <2> QED BY <1>7, <1>q, <2>1, Zenon
<1> QED BY <1>3, <1>4, <1>7, <1>8 DEF U

LEMMA TopoIs ==
  ASSUME NEW its, Tree(its), DepsTyped(its), NEW order \in Seq(Seq(Nat))
  PROVE  LET out == TopoRepairPriority(its, order)
             needs == Needs(its, InQueue(its, order)) IN
         /\ out \in Seq(ToSet(order)) /\ IsInjective(out) /\ ToSet(out) = ToSet(order)
         /\ NoCircle(needs) => InOrder(needs, out)
<1>1. PICK needs : needs = Needs(its, InQueue(its, order)) OBVIOUS
<1>2. /\ NeedsIn(needs, ToSet(order)) /\ order \in Seq(ToSet(order))
      /\ \E w : WalkIs(needs, w)
                /\ TopoRepairPriority(its, order) = w[[todo |-> Enter(order), seen |-> {}, out |-> <<>>]]
  BY <1>1, RepairWalks
<1>3. PICK w : WalkIs(needs, w)
               /\ TopoRepairPriority(its, order) = w[[todo |-> Enter(order), seen |-> {}, out |-> <<>>]]
  BY <1>2
<1>4. PICK out : out = w[[todo |-> Enter(order), seen |-> {}, out |-> <<>>]] OBVIOUS
<1>5. /\ out \in Seq(ToSet(order)) /\ IsInjective(out) /\ ToSet(out) = ToSet(order)
      /\ NoCircle(needs) => InOrder(needs, out)
  BY <1>2, <1>3, <1>4, WalkGives
<1> QED BY <1>1, <1>3, <1>4, <1>5
-----------------------------------------------------------------------------
(* What the repair is for: the queue that comes out is as the validator    *)
(* asks, unless the needs of the leaves go in a circle.                    *)
SeqIds == Seq(Seq(Nat))

LEMMA PullableIs ==
  ASSUME NEW its, Tree(its)
  PROVE  /\ PullableItems(its) \subseteq DOMAIN its /\ IsFiniteSet(PullableItems(its))
         /\ PullableItems(its) \in SUBSET Seq(Nat)
<1>1. PullableItems(its) \in SUBSET DOMAIN its BY DEF PullableItems
<1>2. IsFiniteSet(DOMAIN its) /\ DOMAIN its \subseteq Seq(Nat) BY DEF Tree
<1>3. IsFiniteSet(PullableItems(its)) BY <1>1, <1>2, FS_Subset
<1> QED BY <1>1, <1>2, <1>3

LEMMA CircleOfLeaves ==
  ASSUME NEW its PROVE LeavesAcyclic(its) <=> NoCircle(Needs(its, PullableItems(its)))
<1> DEFINE P == PullableItems(its)
           a == [x \in P |-> ToSet(Prerequisites(its, P, x)) \ {x}]
           n == Needs(its, P)
           b == [x \in DOMAIN n |-> ToSet(n[x]) \ {x}]
<1>1. DOMAIN n = P /\ \A x \in P : n[x] = Prerequisites(its, P, x) BY Zenon DEF Needs
<1>2. LeavesAcyclic(its) <=> Acyclic(a) BY Zenon DEF LeavesAcyclic
<1>3. NoCircle(n) <=> Acyclic(b) BY Zenon DEF NoCircle
<1> HIDE DEF n
<1>4. a = b BY <1>1, Zenon
<1> HIDE DEF a, b, P
<1> QED BY <1>2, <1>3, <1>4, Zenon DEF n, P

(* Where an entry stands.                                                  *)
LEMMA RankIs ==
  ASSUME NEW X, NEW q \in Seq(X), IsInjective(q), NEW k \in 1 .. Len(q)
  PROVE  (CHOOSE m \in DOMAIN q : q[m] = q[k]) = k
<1>1. k \in DOMAIN q BY SeqFacts
<1>2. \A m \in DOMAIN q : q[m] = q[k] => m = k BY <1>1 DEF IsInjective
<1> QED BY <1>1, <1>2

LEMMA OrderIsValid ==
  ASSUME NEW its, NEW X, NEW q \in Seq(X), IsInjective(q), ToSet(q) = PullableItems(its),
         InOrder(Needs(its, PullableItems(its)), q)
  PROVE  ValidPriority(its, q)
<1> DEFINE P == PullableItems(its)
           rank(id) == CHOOSE k \in DOMAIN q : q[k] = id
<1>1. Len(q) \in Nat /\ DOMAIN q = 1 .. Len(q) BY SeqFacts
<1>2. ASSUME NEW x \in P, NEW y \in ToSet(Prerequisites(its, P, x)) PROVE rank(x) >= rank(y)
  <2>1. PICK k \in 1 .. Len(q) : q[k] = x BY <1>1 DEF ToSet
  <2>2. rank(x) = k BY <2>1, RankIs
  <2> HIDE DEF rank
  <2>3. CASE y = x BY <2>2, <2>3
  <2>4. CASE y # x
    <3>1. FirstSet(Needs(its, P), x) = ToSet(Prerequisites(its, P, x)) BY DEF FirstSet, First, Needs
    <3>2. PICK m \in 1 .. Len(q) : m < k /\ q[m] = y
      <4>1. y \in FirstSet(Needs(its, P), q[k]) \ {q[k]} BY <1>2, <2>1, <2>4, <3>1
      <4>2. InOrder(Needs(its, P), q) OBVIOUS
      <4> HIDE DEF P
      <4> QED BY <4>1, <4>2, Zenon DEF InOrder
    <3>3. rank(y) = m BY <3>2, RankIs DEF rank
    <3> QED BY <2>2, <3>2, <3>3
  <2> QED BY <2>3, <2>4
<1>3. ToSet(q) = P OBVIOUS
<1> QED BY <1>2, <1>3, Zenon DEF ValidPriority

LEMMA ReconcileIs ==
  ASSUME NEW its, Tree(its), DepsTyped(its), NEW queue0 \in SeqIds
  PROVE  /\ ReconcilePriority(its, queue0) \in SeqIds /\ IsInjective(ReconcilePriority(its, queue0))
         /\ ToSet(ReconcilePriority(its, queue0)) = PullableItems(its)
         /\ LeavesAcyclic(its) => ValidPriority(its, ReconcilePriority(its, queue0))
<1> DEFINE P == PullableItems(its)
           kept == Among(queue0, P)
           new == Canonical(P \ ToSet(kept))
           order == kept \o new
           out == TopoRepairPriority(its, order)
<1>1. P \subseteq DOMAIN its /\ IsFiniteSet(P) /\ P \in SUBSET Seq(Nat) BY PullableIs
<1>2. kept \in SeqIds /\ ToSet(kept) = ToSet(queue0) \cap P BY AmongIs DEF SeqIds
<1> HIDE DEF P, kept
<1>3. new \in Seq(P \ ToSet(kept)) /\ ToSet(new) = P \ ToSet(kept)
  <2>1. P \ ToSet(kept) \in SUBSET P /\ P \ ToSet(kept) \in SUBSET Seq(Nat) BY <1>1
  <2>2. IsFiniteSet(P \ ToSet(kept)) BY <1>1, <2>1, FS_Subset
  <2> QED BY <2>1, <2>2, CanonicalIs
<1> HIDE DEF new
<1>4. new \in SeqIds
  <2>1. P \ ToSet(kept) \subseteq Seq(Nat) BY <1>1
  <2> QED BY <1>3, <2>1 DEF SeqIds
<1>5. order \in Seq(Seq(Nat)) /\ ToSet(order) = ToSet(kept) \cup ToSet(new)
  BY <1>2, <1>4, SeqConcat DEF SeqIds
<1>6. ToSet(order) = P BY <1>2, <1>3, <1>5
<1> HIDE DEF order
<1>7. /\ out \in Seq(P) /\ IsInjective(out) /\ ToSet(out) = P
      /\ NoCircle(Needs(its, P)) => InOrder(Needs(its, P), out)
  <2>1. InQueue(its, order) = P BY <1>1, <1>6 DEF InQueue
  <2>2. /\ out \in Seq(ToSet(order)) /\ IsInjective(out) /\ ToSet(out) = ToSet(order)
        /\ NoCircle(Needs(its, InQueue(its, order))) => InOrder(Needs(its, InQueue(its, order)), out)
    BY <1>5, TopoIs
  <2> QED BY <1>6, <2>1, <2>2
<1>8. out = ReconcilePriority(its, queue0) BY Zenon DEF ReconcilePriority, order, new, kept, P
<1> HIDE DEF out
<1>9. out \in SeqIds
  <2>1. out \in Seq(P) /\ P \subseteq Seq(Nat) BY <1>1, <1>7
  <2> QED BY <2>1 DEF SeqIds
<1>10. ASSUME LeavesAcyclic(its) PROVE ValidPriority(its, out)
  <2>1. InOrder(Needs(its, PullableItems(its)), out) BY <1>7, <1>10, CircleOfLeaves DEF P
  <2>2. out \in Seq(P) /\ IsInjective(out) /\ ToSet(out) = PullableItems(its) BY <1>7 DEF P
  <2> QED BY <2>1, <2>2, OrderIsValid
<1> QED BY <1>7, <1>8, <1>9, <1>10 DEF P

(* A queue in order shows that there is no circle: the needed stand before *)
(* those that need them.                                                   *)
LEMMA ValidHasNoCircle ==
  ASSUME NEW its, NEW X, NEW q \in Seq(X), q # <<>>, ValidPriority(its, q)
  PROVE  LeavesAcyclic(its)
<1> DEFINE P == PullableItems(its)
           rank(id) == CHOOSE k \in DOMAIN q : q[k] = id
           succ == [x \in P |-> ToSet(Prerequisites(its, P, x)) \ {x}]
<1>1. /\ IsInjective(q) /\ ToSet(q) = P
      /\ \A x \in P : \A y \in ToSet(Prerequisites(its, P, x)) : rank(x) >= rank(y)
  BY Zenon DEF ValidPriority
<1>2. Len(q) \in Nat /\ DOMAIN q = 1 .. Len(q) BY SeqFacts
<1>3. ASSUME NEW x \in P PROVE rank(x) \in Nat /\ q[rank(x)] = x
  <2>1. \E k \in DOMAIN q : q[k] = x BY <1>1 DEF ToSet
  <2>2. rank(x) \in DOMAIN q /\ q[rank(x)] = x BY <2>1
  <2> QED BY <1>2, <2>2
<1> HIDE DEF rank
<1>4. ASSUME NEW loop \in SUBSET P, loop # {}, \A x \in loop : succ[x] \cap loop # {} PROVE FALSE
  <2> DEFINE S == {n \in Nat : \E x \in loop : rank(x) = n}
  <2>1. PICK n \in S : \A m \in S : n <= m
    <3>1. S # {} /\ S \in SUBSET Nat BY <1>3, <1>4
    <3> HIDE DEF S
    <3> QED BY <3>1, LeastExists
  <2>2. PICK x \in loop : rank(x) = n OBVIOUS
  <2>3. PICK y \in loop : y \in ToSet(Prerequisites(its, P, x)) /\ y # x BY <1>4, <2>2
  <2>4. rank(y) \in Nat /\ rank(y) \in S BY <1>3
  <2>5. n \in Nat OBVIOUS
  <2> HIDE DEF S
  <2>6. n <= rank(y) BY <2>1, <2>4
  <2>7. n >= rank(y) BY <1>1, <2>2, <2>3
  <2>8. rank(x) = rank(y) BY <2>2, <2>4, <2>5, <2>6, <2>7
  <2>9. x = y
    <3>1. x \in P /\ y \in P OBVIOUS
    <3>2. q[rank(x)] = x /\ q[rank(y)] = y BY <1>3, <3>1
    <3> QED BY <2>8, <3>2
  <2> QED BY <2>3, <2>9
<1>5. DOMAIN succ = P OBVIOUS
<1> HIDE DEF P
<1>6. Acyclic(succ)
  <2> HIDE DEF succ
  <2> QED BY <1>4, <1>5, Zenon DEF Acyclic
<1> QED BY <1>6, Zenon DEF LeavesAcyclic, P

(* A change of rank moves one entry about.                                 *)
LEMMA InsertIs ==
  ASSUME NEW X, NEW s \in Seq(X), NEW e \in X, NEW k \in 1 .. Len(s) + 1
  PROVE  InsertAt(s, k, e) \in Seq(X) /\ ToSet(InsertAt(s, k, e)) = ToSet(s) \cup {e}
<1> DEFINE a == SubSeq(s, 1, k - 1)
           b == SubSeq(s, k, Len(s))
<1>1. Len(s) \in Nat /\ DOMAIN s = 1 .. Len(s) BY SeqFacts
<1>2. /\ a \in Seq(X) /\ Len(a) = k - 1 /\ \A i \in 1 .. k - 1 : a[i] = s[i]
  BY <1>1
<1>3. b \in Seq(X) /\ Len(b) = Len(s) - k + 1 /\ \A i \in 1 .. Len(b) : b[i] = s[k + i - 1]
  BY <1>1
<1>4. InsertAt(s, k, e) = a \o <<e>> \o b BY DEF InsertAt
<1>5. DOMAIN a = 1 .. k - 1 /\ DOMAIN b = 1 .. Len(s) - k + 1 BY <1>2, <1>3
<1> HIDE DEF a, b
<1>6. PICK one : one = <<e>> OBVIOUS
<1>o. one \in Seq(X) /\ ToSet(one) = {e} BY <1>6, SeqOne
<1>7. PICK ae : ae = a \o one OBVIOUS
<1>p. ae \in Seq(X) /\ ToSet(ae) = ToSet(a) \cup {e}
  <2>1. a \in Seq(X) BY <1>2
  <2> QED BY <1>7, <1>o, <2>1, SeqConcat
<1>q. ae \o b \in Seq(X) /\ ToSet(ae \o b) = ToSet(ae) \cup ToSet(b)
  <2>1. b \in Seq(X) BY <1>3
  <2> QED BY <1>p, <2>1, SeqConcat
<1>8. ToSet(s) = ToSet(a) \cup ToSet(b)
  <2>1. ASSUME NEW i \in 1 .. Len(s) PROVE s[i] \in ToSet(a) \cup ToSet(b)
    <3>1. CASE i < k
      <4>1. i \in 1 .. k - 1 BY <3>1
      <4> QED BY <1>2, <1>5, <4>1 DEF ToSet
    <3>2. CASE ~(i < k)
      <4>1. (i - k) + 1 \in 1 .. Len(s) - k + 1 /\ k + ((i - k) + 1) - 1 = i BY <1>1, <3>2
      <4>2. b[(i - k) + 1] = s[i] BY <1>3, <4>1
      <4> QED BY <1>5, <4>1, <4>2 DEF ToSet
    <3> QED BY <3>1, <3>2
  <2>2. ASSUME NEW i \in 1 .. k - 1 PROVE a[i] \in ToSet(s)
    <3>1. i \in 1 .. Len(s) BY <1>1
    <3> QED BY <1>1, <1>2, <3>1 DEF ToSet
  <2>3. ASSUME NEW i \in 1 .. Len(s) - k + 1 PROVE b[i] \in ToSet(s)
    <3>1. k + i - 1 \in 1 .. Len(s) /\ i \in 1 .. Len(b) BY <1>1, <1>3
    <3>2. b[i] = s[k + i - 1] BY <1>3, <3>1
    <3> QED BY <1>1, <3>1, <3>2 DEF ToSet
  <2>4. /\ ToSet(a) = {a[i] : i \in 1 .. k - 1} /\ ToSet(b) = {b[i] : i \in 1 .. Len(s) - k + 1}
        /\ ToSet(s) = {s[i] : i \in 1 .. Len(s)}
    BY <1>1, <1>5 DEF ToSet
  <2> QED BY <2>1, <2>2, <2>3, <2>4
<1> QED BY <1>4, <1>6, <1>7, <1>8, <1>p, <1>q

LEMMA WithoutIs ==
  ASSUME NEW X, NEW q \in Seq(X), NEW id \in ToSet(q)
  PROVE  Without(q, id) \in Seq(X) /\ ToSet(Without(q, id)) \cup {id} = ToSet(q)
<1>1. Among(q, ToSet(q) \ {id}) \in Seq(X)
      /\ ToSet(Among(q, ToSet(q) \ {id})) = ToSet(q) \cap (ToSet(q) \ {id})
  BY AmongIs
<1> QED BY <1>1 DEF Without

LEMMA RankRepaired ==
  ASSUME NEW its, Tree(its), DepsTyped(its), NEW q \in SeqIds, q # <<>>, ValidPriority(its, q),
         NEW order \in SeqIds, ToSet(order) = ToSet(q)
  PROVE  LET out == TopoRepairPriority(its, order) IN
         out \in SeqIds /\ ToSet(out) = ToSet(q) /\ ValidPriority(its, out)
<1> DEFINE P == PullableItems(its)
           out == TopoRepairPriority(its, order)
<1>1. ToSet(q) = P BY Zenon DEF ValidPriority
<1>2. LeavesAcyclic(its) BY ValidHasNoCircle DEF SeqIds
<1>3. P \subseteq DOMAIN its /\ P \in SUBSET Seq(Nat) BY PullableIs
<1>4. /\ out \in Seq(ToSet(order)) /\ IsInjective(out) /\ ToSet(out) = ToSet(order)
      /\ NoCircle(Needs(its, P)) => InOrder(Needs(its, P), out)
  <2>1. order \in Seq(Seq(Nat)) /\ InQueue(its, order) = P BY <1>1, <1>3 DEF SeqIds, InQueue
  <2> QED BY <2>1, TopoIs
<1> HIDE DEF out
<1>5. InOrder(Needs(its, PullableItems(its)), out) BY <1>1, <1>2, <1>4, CircleOfLeaves
<1>6. out \in Seq(P) /\ ToSet(out) = P BY <1>1, <1>4
<1>7. ValidPriority(its, out) BY <1>4, <1>5, <1>6, OrderIsValid
<1>8. out \in SeqIds
  <2> HIDE DEF P
  <2> QED BY <1>3, <1>6 DEF SeqIds
<1> QED BY <1>1, <1>6, <1>7, <1>8 DEF out

-----------------------------------------------------------------------------
(* What a command makes of its copy. *)

IsReg(r) == \E its, qs, q : r = [items |-> its, questions |-> qs, queue |-> q]

IsRecord(it) ==
  \E status, deps, kind, owner, prs, parent, desc :
    it = Record(status, deps, kind, owner, prs, parent, desc)

AllRecords(its) == \A id \in DOMAIN its : IsRecord(its[id])

KnownIds(r) == DOMAIN r.items \cup r.questions \cup ToSet(r.queue)

LEMMA RegFields ==
  ASSUME NEW r, IsReg(r), NEW its, NEW qs, NEW q
  PROVE  /\ [r EXCEPT !.items = its] = [items |-> its, questions |-> r.questions, queue |-> r.queue]
         /\ [r EXCEPT !.questions = qs] = [items |-> r.items, questions |-> qs, queue |-> r.queue]
         /\ [r EXCEPT !.queue = q] = [items |-> r.items, questions |-> r.questions, queue |-> q]
BY DEF IsReg

LEMMA RegTwoFields ==
  ASSUME NEW r, IsReg(r), NEW its, NEW q
  PROVE  [r EXCEPT !.items = its, !.queue = q]
           = [items |-> its, questions |-> r.questions, queue |-> q]
<1>1. PICK a, b, c : r = [items |-> a, questions |-> b, queue |-> c] BY DEF IsReg
<1>2. [r EXCEPT !.items = its, !.queue = q] = [[r EXCEPT !.items = its] EXCEPT !.queue = q]
  BY <1>1
<1>3. [r EXCEPT !.items = its] = [items |-> its, questions |-> b, queue |-> c] BY <1>1
<1>4. [[items |-> its, questions |-> b, queue |-> c] EXCEPT !.queue = q]
        = [items |-> its, questions |-> b, queue |-> q]
  OBVIOUS
<1>5. [r EXCEPT !.items = its, !.queue = q] = [items |-> its, questions |-> b, queue |-> q]
  BY <1>2, <1>3, <1>4, Zenon
<1> QED BY <1>1, <1>5

LEMMA RegIsReg ==
  ASSUME NEW its, NEW qs, NEW q PROVE IsReg([items |-> its, questions |-> qs, queue |-> q])
BY DEF IsReg

-----------------------------------------------------------------------------
(* Umbrellas. That the statuses derived are a function as its equation says *)
(* needs no bound on the nesting: the items that count as closed are the    *)
(* least set that the rule closes.                                          *)
Grouped(its, id) == its[id].kind = "umbrella" /\ Kids(its, id) # {}

Closes(its, S) ==
  {id \in DOMAIN its : IF Grouped(its, id) THEN Kids(its, id) \subseteq S
                       ELSE its[id].status \in Closed}

ClosedItems(its) ==
  {id \in DOMAIN its : \A S \in SUBSET DOMAIN its : Closes(its, S) \subseteq S => id \in S}

LEMMA ClosedIsFixed == ASSUME NEW its PROVE Closes(its, ClosedItems(its)) = ClosedItems(its)
<1> DEFINE C == ClosedItems(its)
<1>1. ASSUME NEW S \in SUBSET DOMAIN its, NEW T \in SUBSET DOMAIN its, S \subseteq T
      PROVE  Closes(its, S) \subseteq Closes(its, T)
  BY <1>1, Zenon DEF Closes
<1>2. C \in SUBSET DOMAIN its BY DEF ClosedItems
<1>3. Closes(its, C) \subseteq C
  <2> SUFFICES ASSUME NEW id \in Closes(its, C), NEW S \in SUBSET DOMAIN its,
                      Closes(its, S) \subseteq S
               PROVE  id \in S
    BY DEF ClosedItems, Closes
  <2>1. C \subseteq S BY Zenon DEF ClosedItems
  <2> HIDE DEF C
  <2>2. id \in Closes(its, S) BY <1>1, <1>2, <2>1, Zenon
  <2> QED BY <2>2, Zenon
<1>4. C \subseteq Closes(its, C)
  <2> DEFINE D == Closes(its, C)
  <2>1. D \in SUBSET DOMAIN its BY Zenon DEF Closes
  <2> HIDE DEF C
  <2>2. Closes(its, D) \subseteq D BY <1>1, <1>2, <1>3, <2>1, Zenon
  <2> HIDE DEF D
  <2>3. \A id \in C : id \in D BY <2>1, <2>2, Zenon DEF C, ClosedItems
  <2> QED BY <2>3, Zenon DEF D
<1> QED BY <1>3, <1>4, Zenon

StatusIs(its, f) ==
  f = [id \in DOMAIN its |->
         IF its[id].kind = "umbrella" /\ Kids(its, id) # {}
         THEN IF \A c \in Kids(its, id) : f[c] \in Closed THEN "DONE" ELSE "OPEN"
         ELSE its[id].status]

LEMMA StatusExists == ASSUME NEW its PROVE \E f : StatusIs(its, f)
<1> DEFINE C == ClosedItems(its)
<1>1. PICK f : f = [id \in DOMAIN its |->
                      IF Grouped(its, id) THEN IF id \in C THEN "DONE" ELSE "OPEN"
                      ELSE its[id].status]
  OBVIOUS
<1>2. C \subseteq DOMAIN its BY Zenon DEF ClosedItems
<1>3. ASSUME NEW id \in DOMAIN its
      PROVE id \in C <=> IF Grouped(its, id) THEN Kids(its, id) \subseteq C
                         ELSE its[id].status \in Closed
  BY ClosedIsFixed, Zenon DEF Closes
<1> HIDE DEF C
<1>4. ASSUME NEW id \in DOMAIN its PROVE f[id] \in Closed <=> id \in C
  <2>1. "DONE" \in Closed /\ "OPEN" \notin Closed BY DEF Closed
  <2>2. f[id] = IF Grouped(its, id) THEN IF id \in C THEN "DONE" ELSE "OPEN"
                ELSE its[id].status
    BY <1>1, Zenon
  <2> QED BY <1>3, <2>1, <2>2, Zenon
<1>5. ASSUME NEW id \in DOMAIN its
      PROVE  f[id] = IF its[id].kind = "umbrella" /\ Kids(its, id) # {}
                     THEN IF \A c \in Kids(its, id) : f[c] \in Closed THEN "DONE" ELSE "OPEN"
                     ELSE its[id].status
  <2>1. Kids(its, id) \subseteq DOMAIN its BY DEF Kids
  <2>2. Kids(its, id) \subseteq C <=> \A c \in Kids(its, id) : f[c] \in Closed BY <1>4, <2>1, Zenon
  <2>3. f[id] = IF Grouped(its, id) THEN IF id \in C THEN "DONE" ELSE "OPEN"
                ELSE its[id].status
    BY <1>1, Zenon
  <2> QED BY <1>3, <2>2, <2>3, Zenon DEF Grouped
<1>6. StatusIs(its, f)
  <2>1. f = [id \in DOMAIN its |-> f[id]] BY <1>1, Zenon
  <2> QED BY <1>5, <2>1, Zenon DEF StatusIs
<1> QED BY <1>6, Zenon

LEMMA StatusDerived == ASSUME NEW its PROVE StatusIs(its, DerivedStatus(its))
<1>1. PICK f : StatusIs(its, f) BY StatusExists, Zenon
<1> QED BY <1>1, Zenon DEF StatusIs, DerivedStatus

LEMMA DerivedFollow ==
  ASSUME NEW its, AllRecords(its) PROVE UmbrellasAreDerived(DeriveUmbrellaStatuses(its))
<1> DEFINE d == DeriveUmbrellaStatuses(its)
<1>1. PICK s : s = DerivedStatus(its) /\ StatusIs(its, s) BY StatusDerived, Zenon
<1>2. d = [id \in DOMAIN its |-> [its[id] EXCEPT !.status = s[id]]]
  BY <1>1, Zenon DEF DeriveUmbrellaStatuses
<1> HIDE DEF d
<1>3. DOMAIN d = DOMAIN its BY <1>2
<1>4. ASSUME NEW id \in DOMAIN its
      PROVE d[id].status = s[id] /\ d[id].kind = its[id].kind /\ d[id].parent = its[id].parent
  <2>1. PICK status, deps, kind, owner, prs, parent, desc :
          its[id] = Record(status, deps, kind, owner, prs, parent, desc)
    BY DEF AllRecords, IsRecord
  <2>2. d[id] = Record(s[id], deps, kind, owner, prs, parent, desc)
    BY <1>2, <2>1 DEF Record
  <2> QED BY <2>1, <2>2 DEF Record
<1>5. \A id : Kids(d, id) = Kids(its, id) BY <1>3, <1>4, Zenon DEF Kids
<1>6. ASSUME NEW id \in DOMAIN its, its[id].kind = "umbrella", Kids(its, id) # {}
      PROVE  s[id] = IF \A c \in Kids(its, id) : s[c] \in Closed THEN "DONE" ELSE "OPEN"
  BY <1>1, <1>6, Zenon DEF StatusIs
<1>7. ASSUME NEW id \in DOMAIN d, d[id].kind = "umbrella", Kids(d, id) # {}
      PROVE  d[id].status = IF \A c \in Kids(d, id) : d[c].status \in Closed THEN "DONE" ELSE "OPEN"
  <2>1. id \in DOMAIN its /\ its[id].kind = "umbrella" /\ Kids(its, id) # {} BY <1>3, <1>4, <1>5, <1>7, Zenon
  <2>2. \A c \in Kids(its, id) : d[c].status = s[c] BY <1>4, Zenon DEF Kids
  <2>3. s[id] = IF \A c \in Kids(its, id) : s[c] \in Closed THEN "DONE" ELSE "OPEN" BY <1>6, <2>1, Zenon
  <2> QED BY <1>4, <1>5, <2>1, <2>2, <2>3, Zenon
<1> QED BY <1>7, Zenon DEF d, UmbrellasAreDerived
-----------------------------------------------------------------------------
(* The items of a file or a copy: records of the schema, in a tree.        *)
Shaped(its) ==
  /\ Tree(its) /\ IsItems(its) /\ NoParent \notin DOMAIN its
  /\ \A id \in DOMAIN its : its[id].parent \in DOMAIN its \cup {NoParent}

LEMMA RecordFields ==
  ASSUME NEW it \in Records
  PROVE  /\ IsRecord(it) /\ it.status \in Statuses /\ it.deps \in Seq(Seq(Nat)) /\ it.kind \in Kinds
         /\ it.owner \in Owners /\ it.prs \in SUBSET Nat /\ it.parent \in Seq(Nat) /\ it.desc \in BOOLEAN
         /\ it = Record(it.status, it.deps, it.kind, it.owner, it.prs, it.parent, it.desc)
<1>1. it = Record(it.status, it.deps, it.kind, it.owner, it.prs, it.parent, it.desc)
  BY DEF Records, Record
<1>2. IsRecord(it) BY <1>1, Zenon DEF IsRecord
<1>3. /\ it.status \in Statuses /\ it.deps \in Seq(Seq(Nat)) /\ it.kind \in Kinds
      /\ it.owner \in Owners /\ it.prs \in SUBSET Nat /\ it.parent \in Seq(Nat) /\ it.desc \in BOOLEAN
  BY DEF Records, Ids
<1> QED BY <1>1, <1>2, <1>3

LEMMA RecordMade ==
  ASSUME NEW status \in Statuses, NEW deps \in Seq(Seq(Nat)), NEW kind \in Kinds, NEW owner \in Owners,
         NEW prs \in SUBSET Nat, NEW parent \in Seq(Nat), NEW desc \in BOOLEAN
  PROVE  LET it == Record(status, deps, kind, owner, prs, parent, desc) IN
         it \in Records /\ it.parent = parent
BY DEF Records, Record, Ids

LEMMA ShapedIs ==
  ASSUME NEW its, Shaped(its)
  PROVE  /\ AllRecords(its) /\ Tree(its) /\ DepsTyped(its) /\ DOMAIN its \subseteq Seq(Nat)
         /\ \A id \in DOMAIN its : its[id] \in Records
<1>1. \A id \in DOMAIN its : id \in Seq(Nat) /\ its[id] \in Records BY DEF Shaped, IsItems, Ids
<1>2. \A id \in DOMAIN its : IsRecord(its[id]) /\ its[id].deps \in Seq(Seq(Nat)) BY <1>1, RecordFields
<1> QED BY <1>1, <1>2 DEF AllRecords, DepsTyped, Shaped

LEMMA ShapedSame ==
  ASSUME NEW its, Shaped(its), NEW new, DOMAIN new = DOMAIN its,
         \A id \in DOMAIN its : new[id] \in Records /\ new[id].parent = its[id].parent
  PROVE  Shaped(new)
<1>1. [x \in DOMAIN new |-> {new[x].parent}] = [x \in DOMAIN its |-> {its[x].parent}] OBVIOUS
<1>2. Acyclic([x \in DOMAIN new |-> {new[x].parent}]) BY <1>1 DEF Shaped, Tree
<1>3. Tree(new)
  <2>1. IsFiniteSet(DOMAIN new) /\ DOMAIN new \subseteq Seq(Nat) BY DEF Shaped, Tree
  <2> QED BY <1>2, <2>1, Zenon DEF Tree
<1>4. IsItems(new) BY DEF Shaped, IsItems
<1>5. /\ NoParent \notin DOMAIN new
      /\ \A id \in DOMAIN new : new[id].parent \in DOMAIN new \cup {NoParent}
  BY DEF Shaped
<1> QED BY <1>3, <1>4, <1>5 DEF Shaped

LEMMA ShapedMore ==
  ASSUME NEW its, Shaped(its), NEW id \in Seq(Nat), id # NoParent, id \notin DOMAIN its,
         NEW it \in Records, it.parent \in DOMAIN its \cup {NoParent},
         NEW new, DOMAIN new = DOMAIN its \cup {id}, new[id] = it,
         \A i \in DOMAIN its : new[i] = its[i]
  PROVE  Shaped(new)
<1>1. \A i \in DOMAIN new : new[i].parent \in DOMAIN its \cup {NoParent} BY DEF Shaped
<1>2. PICK succ : succ = [x \in DOMAIN new |-> {new[x].parent}] OBVIOUS
<1>3. ASSUME NEW loop \in SUBSET DOMAIN succ, loop # {}, \A x \in loop : succ[x] \cap loop # {}
      PROVE  FALSE
  <2>1. \A x \in loop : x \in DOMAIN new /\ new[x].parent \in loop
    <3>1. ASSUME NEW x \in loop PROVE x \in DOMAIN new /\ new[x].parent \in loop
      <4>1. x \in DOMAIN new /\ succ[x] = {new[x].parent} BY <1>2, <1>3
      <4>2. succ[x] \cap loop # {} BY <1>3
      <4> QED BY <4>1, <4>2
    <3> QED BY <3>1
  <2>2. \A x \in loop : new[x].parent # id BY <1>1, <2>1
  <2> DEFINE rest == loop \ {id}
  <2>3. rest # {} /\ rest \in SUBSET DOMAIN its BY <1>3, <2>1, <2>2
  <2>4. \A x \in rest : its[x].parent \in rest BY <2>1, <2>2, <2>3
  <2> HIDE DEF rest
  <2>5. PICK old : old = [x \in DOMAIN its |-> {its[x].parent}] OBVIOUS
  <2>6. rest \in SUBSET DOMAIN old /\ \A x \in rest : old[x] \cap rest # {} BY <2>3, <2>4, <2>5
  <2>7. ~Acyclic(old) BY <2>3, <2>6, Zenon DEF Acyclic
  <2> QED BY <2>5, <2>7 DEF Shaped, Tree
<1>4. Acyclic(succ) BY <1>3, Zenon DEF Acyclic
<1>5. IsFiniteSet(DOMAIN new) /\ DOMAIN new \subseteq Seq(Nat)
  <2>1. IsFiniteSet(DOMAIN its) /\ DOMAIN its \subseteq Seq(Nat) BY DEF Shaped, Tree
  <2>2. IsFiniteSet(DOMAIN its \cup {id}) BY <2>1, FS_AddElement
  <2> QED BY <2>1, <2>2
<1>6. Tree(new) BY <1>2, <1>4, <1>5, Zenon DEF Tree
<1>7. IsItems(new) BY DEF Shaped, IsItems, Ids
<1>8. NoParent \notin DOMAIN new BY DEF Shaped
<1> QED BY <1>1, <1>6, <1>7, <1>8 DEF Shaped

(* Statuses that are derived are statuses.                                 *)
LEMMA ShapedDerived ==
  ASSUME NEW its, Shaped(its) PROVE Shaped(DeriveUmbrellaStatuses(its))
<1> DEFINE d == DeriveUmbrellaStatuses(its)
<1>1. PICK s : s = DerivedStatus(its) /\ StatusIs(its, s) BY StatusDerived, Zenon
<1>2. d = [id \in DOMAIN its |-> [its[id] EXCEPT !.status = s[id]]]
  BY <1>1, Zenon DEF DeriveUmbrellaStatuses
<1> HIDE DEF d
<1>3. ASSUME NEW id \in DOMAIN its PROVE d[id] \in Records /\ d[id].parent = its[id].parent
  <2>1. its[id] \in Records BY ShapedIs
  <2>2. /\ its[id].status \in Statuses
        /\ its[id] = Record(its[id].status, its[id].deps, its[id].kind, its[id].owner, its[id].prs,
                            its[id].parent, its[id].desc)
    BY <2>1, RecordFields
  <2>3. s[id] \in {"DONE", "OPEN", its[id].status} BY <1>1, Zenon DEF StatusIs
  <2>4. s[id] \in Statuses BY <2>2, <2>3 DEF Statuses
  <2>5. d[id] = [its[id] EXCEPT !.status = s[id]] BY <1>2
  <2> QED BY <2>1, <2>4, <2>5 DEF Records
<1>4. DOMAIN d = DOMAIN its BY <1>2
<1> QED BY <1>3, <1>4, ShapedSame DEF d
-----------------------------------------------------------------------------
(* Queues. *)
IsQueue(q) == q \in SeqIds /\ IsInjective(q)

Ahead(q, x, y) == \E i, j \in DOMAIN q : i < j /\ q[i] = x /\ q[j] = y

Keeps(q, r) == \A x, y : Ahead(q, x, y) => Ahead(r, x, y)

LEMMA EmptyQueue == IsQueue(<<>>) /\ ToSet(<<>>) = {}
BY DEF IsQueue, SeqIds, IsInjective, ToSet

ConcatIs(s, t, r) ==
  /\ Len(r) = Len(s) + Len(t) /\ \A i \in 1 .. Len(s) : r[i] = s[i]
  /\ \A i \in 1 .. Len(t) : r[Len(s) + i] = t[i]

LEMMA ConcatOf == ASSUME NEW X, NEW s \in Seq(X), NEW t \in Seq(X) PROVE ConcatIs(s, t, s \o t)
BY DEF ConcatIs

LEMMA ConcatAt ==
  ASSUME NEW s \in SeqIds, NEW t \in SeqIds, NEW r, r = s \o t PROVE ConcatIs(s, t, r)
BY ConcatOf DEF SeqIds

(* One more entry, anywhere.                                               *)
LEMMA QueueGrows ==
  ASSUME NEW q, IsQueue(q), NEW id \in Seq(Nat), id \notin ToSet(q), NEW k \in 1 .. Len(q) + 1
  PROVE  IsQueue(InsertAt(q, k, id)) /\ Keeps(q, InsertAt(q, k, id))
<1> DEFINE r == InsertAt(q, k, id)
           n == Len(q)
           at(i) == IF i < k THEN i ELSE i + 1
<1>0. q \in Seq(Seq(Nat)) BY DEF IsQueue, SeqIds
<1>1. n \in Nat /\ DOMAIN q = 1 .. n BY <1>0, SeqFacts
<1>2. r \in SeqIds BY <1>0, InsertIs DEF SeqIds
<1>3. /\ Len(r) = n + 1 /\ r[k] = id
      /\ \A i \in 1 .. n : IF i < k THEN r[i] = q[i] ELSE r[i + 1] = q[i]
  <2> DEFINE a == SubSeq(q, 1, k - 1)
             b == SubSeq(q, k, n)
  <2>1. a \in Seq(Seq(Nat)) /\ Len(a) = k - 1 /\ \A i \in 1 .. k - 1 : a[i] = q[i] BY <1>0, <1>1
  <2>2. b \in Seq(Seq(Nat)) /\ Len(b) = n - k + 1 /\ \A i \in 1 .. n - k + 1 : b[i] = q[k + i - 1]
    BY <1>0, <1>1
  <2>3. PICK one : one = <<id>> OBVIOUS
  <2>4. one \in Seq(Seq(Nat)) /\ Len(one) = 1 /\ one[1] = id BY <2>3
  <2>5. PICK ae : ae = a \o one OBVIOUS
  <2> HIDE DEF a, b
  <2>7. /\ ae \in SeqIds /\ Len(ae) = k /\ ae[k] = id
        /\ \A i \in 1 .. k - 1 : ae[i] = a[i]
    <3>1. a \in SeqIds /\ one \in SeqIds BY <2>1, <2>4 DEF SeqIds
    <3>2. ae \in SeqIds BY <2>5, <3>1, SeqConcat DEF SeqIds
    <3>3. ConcatIs(a, one, ae) BY <2>5, <3>1, ConcatAt
    <3>4. 1 \in 1 .. Len(one) /\ Len(a) + 1 = k BY <1>1, <2>1, <2>4
    <3> QED BY <2>1, <2>4, <3>2, <3>3, <3>4 DEF ConcatIs
  <2>8. r = ae \o b BY <2>3, <2>5 DEF InsertAt, a, b
  <2>d. b \in SeqIds BY <2>2 DEF SeqIds
  <2>c. ConcatIs(ae, b, r) BY <2>7, <2>8, <2>d, ConcatAt
  <2> HIDE DEF r
  <2>9. /\ Len(r) = n + 1 /\ r[k] = id /\ \A i \in 1 .. k - 1 : r[i] = a[i]
    <3>1. Len(r) = k + (n - k + 1) BY <2>2, <2>7, <2>c DEF ConcatIs
    <3>2. \A i \in 1 .. k : r[i] = ae[i] BY <2>7, <2>c DEF ConcatIs
    <3> QED BY <1>1, <2>7, <3>1, <3>2
  <2>10. \A i \in 1 .. n - k + 1 : r[k + i] = b[i] BY <2>2, <2>7, <2>c DEF ConcatIs
  <2>6. ASSUME NEW i \in 1 .. n PROVE IF i < k THEN r[i] = q[i] ELSE r[i + 1] = q[i]
    <3>1. CASE i < k
      <4>1. i \in 1 .. k - 1 BY <3>1
      <4> QED BY <2>1, <2>9, <3>1, <4>1
    <3>2. CASE ~(i < k)
      <4>1. i - k + 1 \in 1 .. n - k + 1 /\ k + (i - k + 1) = i + 1 /\ k + (i - k + 1) - 1 = i
        BY <1>1, <3>2
      <4> QED BY <2>2, <2>10, <3>2, <4>1
    <3> QED BY <3>1, <3>2
  <2> QED BY <2>6, <2>9
<1>4. DOMAIN r = 1 .. n + 1 BY <1>2, <1>3, SeqFacts DEF SeqIds
<1> HIDE DEF r
<1>5. Keeps(q, r)
  <2>1. ASSUME NEW x, NEW y, Ahead(q, x, y) PROVE Ahead(r, x, y)
    <3>1. PICK i \in 1 .. n, j \in 1 .. n : i < j /\ q[i] = x /\ q[j] = y BY <1>1, <2>1, Zenon DEF Ahead
    <3>2. at(i) \in 1 .. n + 1 /\ at(j) \in 1 .. n + 1 /\ at(i) < at(j) BY <1>1, <3>1
    <3>3. r[at(i)] = x /\ r[at(j)] = y BY <1>3, <3>1
    <3> HIDE DEF at
    <3> QED BY <1>4, <3>2, <3>3 DEF Ahead
  <2> QED BY <2>1, Zenon DEF Keeps
<1>6. IsInjective(r)
  <2> DEFINE from(a) == IF a < k THEN a ELSE a - 1
  <2>1. ASSUME NEW a \in 1 .. n + 1, a # k PROVE from(a) \in 1 .. n /\ at(from(a)) = a /\ r[a] = q[from(a)]
    <3>1. from(a) \in 1 .. n /\ at(from(a)) = a BY <1>1, <2>1
    <3> QED BY <1>3, <3>1
  <2>2. ASSUME NEW a \in 1 .. n + 1, a # k PROVE r[a] # id
    BY <1>1, <2>1, <2>2 DEF ToSet
  <2>3. ASSUME NEW a \in 1 .. n + 1, NEW b \in 1 .. n + 1, a # k, b # k, r[a] = r[b] PROVE a = b
    <3>1. q[from(a)] = q[from(b)] BY <2>1, <2>3
    <3>2. from(a) = from(b) BY <1>1, <2>1, <2>3, <3>1 DEF IsQueue, IsInjective
    <3> QED BY <2>1, <2>3, <3>2
  <2> QED BY <1>3, <1>4, <2>2, <2>3 DEF IsInjective
<1> QED BY <1>2, <1>5, <1>6 DEF IsQueue, r

-----------------------------------------------------------------------------
(* What a command makes of its copy. *)
GoodCopy(r) == IsReg(r) /\ Shaped(r.items) /\ IsQueue(r.queue)

CopiesTyped ==
  /\ DOMAIN reg = Procs /\ Shaped(items) /\ IsQueue(queue)
  /\ \A p \in Procs : GoodCopy(reg[p])

LEMMA KeepsItself == ASSUME NEW q PROVE Keeps(q, q)
BY DEF Keeps

LEMMA GoodCopyOf ==
  ASSUME NEW its, Shaped(its), NEW qs, NEW q, IsQueue(q)
  PROVE  GoodCopy([items |-> its, questions |-> qs, queue |-> q])
BY RegIsReg DEF GoodCopy

LEMMA EmptyCopy == GoodCopy(NoRegistry) /\ KnownIds(NoRegistry) = {}
<1>1. Shaped(<<>>)
  <2>1. DOMAIN <<>> = {} OBVIOUS
  <2>2. Tree(<<>>)
    <3>1. PICK succ : succ = [x \in DOMAIN <<>> |-> {<<>>[x].parent}] OBVIOUS
    <3>2. Acyclic(succ)
      <4>1. DOMAIN succ = {} BY <2>1, <3>1
      <4> QED BY <4>1, Zenon DEF Acyclic
    <3>3. IsFiniteSet(DOMAIN <<>>) BY <2>1, FS_EmptySet
    <3> QED BY <2>1, <3>1, <3>2, <3>3 DEF Tree
  <2> QED BY <2>1, <2>2 DEF Shaped, IsItems
<1>2. GoodCopy(NoRegistry) BY <1>1, EmptyQueue, GoodCopyOf DEF NoRegistry
<1>3. KnownIds(NoRegistry) = {}
  <2>1. NoRegistry.items = <<>> /\ NoRegistry.questions = {} /\ NoRegistry.queue = <<>> BY DEF NoRegistry
  <2>2. DOMAIN <<>> = {} OBVIOUS
  <2> QED BY <2>1, <2>2, EmptyQueue DEF KnownIds
<1> QED BY <1>2, <1>3

LEMMA ReconciledReg ==
  ASSUME NEW new, GoodCopy(new)
  PROVE  LET r == Reconciled(new) IN
         /\ GoodCopy(r) /\ KnownIds(r) \subseteq KnownIds(new)
         /\ r.items = DeriveUmbrellaStatuses(new.items) /\ r.questions = new.questions
         /\ DOMAIN r.items = DOMAIN new.items
         /\ r.queue = ReconcilePriority(r.items, new.queue)
<1> DEFINE r == Reconciled(new)
<1>1. PICK its, qs, q : new = [items |-> its, questions |-> qs, queue |-> q] BY DEF IsReg, GoodCopy
<1> DEFINE d == DeriveUmbrellaStatuses(new.items)
           k == ReconcilePriority(d, new.queue)
<1>a. r = [new EXCEPT !.items = d, !.queue = k] BY DEF Reconciled
<1>3. Shaped(d) BY ShapedDerived DEF GoodCopy
<1>4. DOMAIN d = DOMAIN new.items BY DEF DeriveUmbrellaStatuses
<1>5. Tree(d) /\ DepsTyped(d) /\ new.queue \in SeqIds BY <1>3, ShapedIs DEF GoodCopy, IsQueue
<1>6. k \in SeqIds /\ IsInjective(k) /\ ToSet(k) = PullableItems(d) BY <1>5, ReconcileIs
<1>7. PullableItems(d) \subseteq DOMAIN d BY DEF PullableItems
<1>8. IsQueue(k) /\ ToSet(k) \subseteq DOMAIN d BY <1>6, <1>7 DEF IsQueue
<1>d. k = ReconcilePriority(d, new.queue) OBVIOUS
<1> HIDE DEF r, d, k
<1>2. r = [items |-> d, questions |-> new.questions, queue |-> k] BY <1>1, <1>a
<1>9. r.items = d /\ r.questions = new.questions /\ r.queue = k BY <1>2
<1>10. GoodCopy(r) BY <1>2, <1>3, <1>8, GoodCopyOf
<1>11. KnownIds(r) \subseteq KnownIds(new) BY <1>4, <1>8, <1>9 DEF KnownIds
<1> QED BY <1>4, <1>9, <1>10, <1>11, <1>d DEF r, d

(* A command's new copy: at most one id more, on its way to the ledger,     *)
(* either the questions or the items it loaded, and the queue it loaded in  *)
(* its order, with that id anywhere.                                        *)
Minted(known, new) ==
  \/ UNCHANGED ledger /\ KnownIds(new) \subseteq known
  \/ \E id : /\ IsId(id) /\ id \notin ToSet(ledger) /\ ledger' = Append(ledger, id)
            /\ KnownIds(new) \subseteq known \cup {id}

Edits(p, new) ==
  /\ GoodCopy(new) /\ Minted(KnownIds(reg[p]), new)
  /\ new.questions = reg[p].questions \/ new.items = reg[p].items
  /\ Keeps(reg[p].queue, new.queue)

LedgerInv ==
  /\ LedgerTyped /\ IsInjective(ledger)
  /\ DOMAIN items \cup questions \cup ToSet(queue) \subseteq ToSet(ledger)
  /\ \A p \in Procs : KnownIds(reg[p]) \subseteq ToSet(ledger)

(* A command that adds the record id.                                      *)
LEMMA WithItemReg ==
  ASSUME NEW r, GoodCopy(r), NEW id, IsId(id), id \notin DOMAIN r.items, NEW it \in Records,
         it.parent \in DOMAIN r.items \cup {NoParent}
  PROVE  \E its : /\ WithItem(r, id, it) = [items |-> its, questions |-> r.questions, queue |-> r.queue]
                 /\ DOMAIN its = DOMAIN r.items \cup {id} /\ Shaped(its)
<1> DEFINE its == [i \in DOMAIN r.items \cup {id} |-> IF i = id THEN it ELSE r.items[i]]
<1>1. WithItem(r, id, it) = [items |-> its, questions |-> r.questions, queue |-> r.queue]
  BY RegFields DEF WithItem, GoodCopy
<1>2. /\ DOMAIN its = DOMAIN r.items \cup {id} /\ its[id] = it
      /\ \A i \in DOMAIN r.items : its[i] = r.items[i]
  OBVIOUS
<1>3. id \in Seq(Nat) /\ id # NoParent BY DEF IsId, NoParent
<1> HIDE DEF its
<1>4. Shaped(its) BY <1>2, <1>3, ShapedMore DEF GoodCopy
<1> QED BY <1>1, <1>2, <1>4

SameParent(it, new) == new \in Records /\ new.parent = it.parent

LEMMA RecordChanges ==
  ASSUME NEW it \in Records
  PROVE  /\ \A v \in Statuses, w \in SUBSET Nat : SameParent(it, [it EXCEPT !.status = v, !.prs = w])
         /\ SameParent(it, [it EXCEPT !.kind = "umbrella", !.prs = {}])
         /\ SameParent(it, [it EXCEPT !.desc = TRUE])
         /\ \A v \in Owners : SameParent(it, [it EXCEPT !.owner = v])
         /\ \A v \in SUBSET Nat : SameParent(it, [it EXCEPT !.prs = v])
         /\ \A v \in Seq(Seq(Nat)) : SameParent(it, [it EXCEPT !.deps = v])
<1> USE DEF SameParent, Records, Ids
<1>1. \A v \in Statuses, w \in SUBSET Nat : SameParent(it, [it EXCEPT !.status = v, !.prs = w]) OBVIOUS
<1>2. SameParent(it, [it EXCEPT !.kind = "umbrella", !.prs = {}]) BY DEF Kinds
<1>3. SameParent(it, [it EXCEPT !.desc = TRUE]) OBVIOUS
<1>4. \A v \in Owners : SameParent(it, [it EXCEPT !.owner = v]) OBVIOUS
<1>5. \A v \in SUBSET Nat : SameParent(it, [it EXCEPT !.prs = v]) OBVIOUS
<1>6. \A v \in Seq(Seq(Nat)) : SameParent(it, [it EXCEPT !.deps = v]) OBVIOUS
<1> QED BY <1>1, <1>2, <1>3, <1>4, <1>5, <1>6

LEMMA OneChanged ==
  ASSUME NEW its, Shaped(its), NEW id \in DOMAIN its, NEW it, SameParent(its[id], it)
  PROVE  DOMAIN [its EXCEPT ![id] = it] = DOMAIN its /\ Shaped([its EXCEPT ![id] = it])
<1>1. \A i \in DOMAIN its : its[i] \in Records BY ShapedIs
<1> DEFINE new == [its EXCEPT ![id] = it]
<1>2. /\ DOMAIN new = DOMAIN its
      /\ \A i \in DOMAIN its : new[i] \in Records /\ new[i].parent = its[i].parent
  BY <1>1 DEF SameParent
<1> HIDE DEF new
<1>3. Shaped(new) BY <1>2, ShapedSame
<1> QED BY <1>2, <1>3 DEF new

(* A command that changes one record.                                      *)
LEMMA ChangeEdits ==
  ASSUME NEW p \in Procs, CopiesTyped, NEW id \in DOMAIN reg[p].items, NEW it,
         SameParent(reg[p].items[id], it), Change(p, id, it)
  PROVE  \E new : Apply(p, new) /\ Edits(p, new)
<1> DEFINE its == [reg[p].items EXCEPT ![id] = it]
           new == [items |-> its, questions |-> reg[p].questions, queue |-> reg[p].queue]
<1>1. IsReg(reg[p]) /\ Shaped(reg[p].items) /\ IsQueue(reg[p].queue) BY DEF CopiesTyped, GoodCopy
<1>2. [reg[p] EXCEPT !.items = its] = new BY <1>1, RegFields
<1>3. Apply(p, new) /\ UNCHANGED ledger
  <2>1. Apply(p, [reg[p] EXCEPT !.items = its]) /\ UNCHANGED ledger BY DEF Change
  <2> QED BY <1>2, <2>1
<1>4. DOMAIN its = DOMAIN reg[p].items /\ Shaped(its) BY <1>1, OneChanged
<1> HIDE DEF its
<1>5. KnownIds(new) = KnownIds(reg[p]) BY <1>4 DEF KnownIds
<1>6. GoodCopy(new) BY <1>1, <1>4, GoodCopyOf
<1> QED BY <1>3, <1>4, <1>5, <1>6, KeepsItself DEF Edits, Minted

-----------------------------------------------------------------------------
(* One id more in a queue. *)
Grown(q, r, id) == IsQueue(r) /\ Keeps(q, r) /\ ToSet(r) \subseteq ToSet(q) \cup {id}

LEMMA GrownAt ==
  ASSUME NEW q, IsQueue(q), NEW id \in Seq(Nat), id \notin ToSet(q), NEW k \in 1 .. Len(q) + 1
  PROVE  Grown(q, InsertAt(q, k, id), id)
<1>1. IsQueue(InsertAt(q, k, id)) /\ Keeps(q, InsertAt(q, k, id)) BY QueueGrows
<1>2. ToSet(InsertAt(q, k, id)) = ToSet(q) \cup {id} BY InsertIs DEF IsQueue, SeqIds
<1> QED BY <1>1, <1>2 DEF Grown

LEMMA GrownAtTop ==
  ASSUME NEW q, IsQueue(q), NEW id \in Seq(Nat), id \notin ToSet(q)
  PROVE  Grown(q, <<id>> \o q, id)
<1>1. q \in Seq(Seq(Nat)) /\ Len(q) \in Nat BY SeqFacts DEF IsQueue, SeqIds
<1>2. PICK none : none = SubSeq(q, 1, 1 - 1) OBVIOUS
<1>3. PICK all : all = SubSeq(q, 1, Len(q)) OBVIOUS
<1>4. none = <<>> BY <1>1, <1>2
<1>5. all = q BY <1>1, <1>3
<1>6. PICK one : one = <<id>> OBVIOUS
<1>7. none \o one = one BY <1>4, <1>6
<1>8. InsertAt(q, 1, id) = none \o one \o all BY <1>2, <1>3, <1>6, Zenon DEF InsertAt
<1>9. InsertAt(q, 1, id) = <<id>> \o q BY <1>5, <1>6, <1>7, <1>8, Zenon
<1>10. 1 \in 1 .. Len(q) + 1 BY <1>1
<1> QED BY <1>9, <1>10, GrownAt

LEMMA Seeded ==
  ASSUME NEW q, IsQueue(q), NEW id \in Seq(Nat), id \notin ToSet(q), NEW parent, NEW siblings
  PROVE  Grown(q, SeedChild(q, parent, siblings, id), id)
<1> DEFINE at(S) == {k \in DOMAIN q : q[k] \in S}
           k == SeedRank(q, parent, siblings)
<1>1. Len(q) \in Nat /\ DOMAIN q = 1 .. Len(q) BY SeqFacts DEF IsQueue, SeqIds
<1>2. ASSUME NEW S PROVE at(S) \in SUBSET Nat /\ at(S) \subseteq 1 .. Len(q) /\ \A x \in at(S) : x <= Len(q)
  BY <1>1
<1>3. k = 0 \/ k \in 1 .. Len(q) + 1
  <2> DEFINE P == at({parent}) B == at(siblings)
  <2>0. k = IF P # {} THEN Min(P) ELSE IF B # {} THEN Max(B) + 1 ELSE 0
    BY Zenon DEF SeedRank
  <2>p. P \in SUBSET Nat /\ P \subseteq 1 .. Len(q) BY <1>2
  <2>b. B \in SUBSET Nat /\ B \subseteq 1 .. Len(q) /\ \A x \in B : x <= Len(q) BY <1>2
  <2> HIDE DEF P, B, k
  <2>1. CASE P # {}
    <3>1. Min(P) \in P BY <2>1, <2>p, MinIsLeast
    <3>2. k = Min(P) BY <2>0, <2>1, Zenon
    <3>3. k \in 1 .. Len(q) BY <2>p, <3>1, <3>2
    <3> QED BY <1>1, <3>3
  <2>2. CASE P = {} /\ B # {}
    <3>1. Max(B) \in B BY <1>1, <2>2, <2>b, MaxIsGreatest
    <3>2. k = Max(B) + 1 BY <2>0, <2>2, Zenon
    <3>3. Max(B) \in 1 .. Len(q) BY <2>b, <3>1
    <3> QED BY <1>1, <3>2, <3>3
  <2>3. CASE P = {} /\ B = {} BY <2>0, <2>3
  <2> QED BY <2>1, <2>2, <2>3
<1>4. SeedChild(q, parent, siblings, id) = IF k = 0 THEN q ELSE InsertAt(q, k, id)
  BY Zenon DEF SeedChild
<1>5. Grown(q, q, id) BY KeepsItself DEF Grown
<1> HIDE DEF k
<1>6. CASE k = 0 BY <1>4, <1>5, <1>6
<1>7. CASE k # 0 BY <1>3, <1>4, <1>7, GrownAt
<1> QED BY <1>6, <1>7
-----------------------------------------------------------------------------
(* The commands, one by one. *)

Edited(p) == \E new : Apply(p, new) /\ Edits(p, new)

LEMMA CopyLedger ==
  ASSUME LedgerInv, CopiesTyped, NEW p \in Procs
  PROVE  /\ LedgerTyped /\ GoodCopy(reg[p]) /\ IsReg(reg[p]) /\ Shaped(reg[p].items) /\ IsQueue(reg[p].queue)
         /\ DOMAIN reg[p].items \subseteq ToSet(ledger)
         /\ reg[p].questions \subseteq ToSet(ledger) /\ ToSet(reg[p].queue) \subseteq ToSet(ledger)
         /\ ToSet(ledger) \subseteq Seq(Nat)
<1>1. LedgerTyped /\ GoodCopy(reg[p]) /\ KnownIds(reg[p]) \subseteq ToSet(ledger)
  BY DEF LedgerInv, CopiesTyped
<1>2. ToSet(ledger) \subseteq Seq(Nat) BY <1>1, SeqFacts DEF LedgerTyped
<1> QED BY <1>1, <1>2 DEF GoodCopy, KnownIds

LEMMA DepListsTyped ==
  ASSUME LedgerInv, CopiesTyped, NEW p \in Procs, NEW deps \in DepLists(p)
  PROVE  deps \in Seq(Seq(Nat))
<1>1. Known(p) \subseteq Seq(Nat) BY CopyLedger DEF Known
<1>2. deps \in SeqOf(Known(p), NewDeps) BY DEF DepLists
<1>3. PICK m \in 0 .. NewDeps : deps \in [1 .. m -> Known(p)] BY <1>2 DEF SeqOf
<1>4. m \in Nat BY <1>3
<1> QED BY <1>1, <1>3, <1>4

LEMMA AddItemEdits ==
  ASSUME LedgerInv, CopiesTyped, NEW p \in Procs, AddItem(p) PROVE Edited(p)
<1> DEFINE id == NextItemID(reg[p].items, ToSet(ledger))
<1>1. PICK status \in Statuses, deps \in DepLists(p), kind \in Kinds, x \in Extras, toTop \in BOOLEAN :
        LET r == WithItem(reg[p], id, Record(status, deps, kind, x.owner, x.prs, NoParent, x.desc)) IN
        /\ Mint(id)
        /\ Apply(p, IF toTop THEN [r EXCEPT !.queue = <<id>> \o @] ELSE r)
  BY Zenon DEF AddItem
<1> DEFINE it == Record(status, deps, kind, x.owner, x.prs, NoParent, x.desc)
           r == WithItem(reg[p], id, it)
           new == IF toTop THEN [r EXCEPT !.queue = <<id>> \o @] ELSE r
<1>2. IsId(id) /\ id \notin ToSet(ledger) BY CopyLedger, ItemIDIsNew
<1> HIDE DEF id
<1>3. Mint(id) /\ Apply(p, new) BY <1>1
<1>4. it \in Records /\ it.parent = NoParent
  <2>1. x.owner \in Owners /\ x.prs \in SUBSET Nat /\ x.desc \in BOOLEAN BY ExtrasAssumption
  <2>2. deps \in Seq(Seq(Nat)) /\ NoParent \in Seq(Nat) BY DepListsTyped DEF NoParent
  <2> QED BY <2>1, <2>2, RecordMade
<1> HIDE DEF it
<1>n. id \notin DOMAIN reg[p].items /\ id \notin ToSet(reg[p].queue) /\ id \in Seq(Nat)
  BY <1>2, CopyLedger DEF IsId
<1>5. PICK its : /\ r = [items |-> its, questions |-> reg[p].questions, queue |-> reg[p].queue]
                 /\ DOMAIN its = DOMAIN reg[p].items \cup {id} /\ Shaped(its)
  <2>1. it.parent \in DOMAIN reg[p].items \cup {NoParent} BY <1>4
  <2>2. GoodCopy(reg[p]) BY CopyLedger
  <2> QED BY <1>2, <1>4, <1>n, <2>1, <2>2, WithItemReg
<1> HIDE DEF r
<1>q. PICK top : top = <<id>> \o reg[p].queue OBVIOUS
<1>g. Grown(reg[p].queue, top, id) /\ Grown(reg[p].queue, reg[p].queue, id)
  <2>1. IsQueue(reg[p].queue) BY CopyLedger
  <2>2. Grown(reg[p].queue, top, id) BY <1>n, <1>q, <2>1, GrownAtTop
  <2>3. Grown(reg[p].queue, reg[p].queue, id) BY <2>1, KeepsItself DEF Grown
  <2> QED BY <2>2, <2>3
<1>a. PICK q : /\ new = [items |-> its, questions |-> reg[p].questions, queue |-> q]
               /\ Grown(reg[p].queue, q, id)
  <2>1. CASE toTop
    <3>1. r.queue = reg[p].queue BY <1>5
    <3>2. new = [r EXCEPT !.queue = top] BY <1>q, <2>1, <3>1
    <3> HIDE DEF new
    <3>3. new = [items |-> its, questions |-> reg[p].questions, queue |-> top] BY <1>5, <3>2
    <3> QED BY <1>g, <3>3
  <2>2. CASE ~toTop
    <3>1. new = r BY <2>2
    <3> QED BY <1>5, <1>g, <3>1
  <2> QED BY <2>1, <2>2
<1> HIDE DEF new
<1>6. /\ GoodCopy(new) /\ new.questions = reg[p].questions /\ Keeps(reg[p].queue, new.queue)
      /\ KnownIds(new) \subseteq KnownIds(reg[p]) \cup {id}
  <2>1. new.items = its /\ new.questions = reg[p].questions /\ new.queue = q BY <1>a
  <2>2. GoodCopy(new) BY <1>a, <1>5, GoodCopyOf DEF Grown
  <2> QED BY <2>1, <2>2, <1>5, <1>a DEF KnownIds, Grown
<1>7. Edits(p, new) BY <1>2, <1>3, <1>6 DEF Edits, Minted, Mint
<1> QED BY <1>3, <1>7 DEF Edited

LEMMA AddQuestionEdits ==
  ASSUME LedgerInv, CopiesTyped, NEW p \in Procs, AddQuestion(p) PROVE Edited(p)
<1> DEFINE id == NextQuestionID(reg[p].questions, ToSet(ledger))
           new == [items |-> reg[p].items, questions |-> reg[p].questions \cup {id},
                   queue |-> reg[p].queue]
<1>1. Mint(id) /\ Apply(p, [reg[p] EXCEPT !.questions = @ \cup {id}]) BY DEF AddQuestion
<1>2. IsId(id) /\ id \notin ToSet(ledger) BY CopyLedger, QuestionIDIsNew
<1> HIDE DEF id
<1>3. [reg[p] EXCEPT !.questions = @ \cup {id}] = new BY CopyLedger, RegFields
<1>4. Apply(p, new) BY <1>1, <1>3
<1>5. GoodCopy(new) /\ Keeps(reg[p].queue, new.queue) BY CopyLedger, GoodCopyOf, KeepsItself
<1>6. Minted(KnownIds(reg[p]), new)
  <2>1. KnownIds(new) \subseteq KnownIds(reg[p]) \cup {id} BY DEF KnownIds
  <2> QED BY <1>1, <1>2, <2>1 DEF Minted, Mint
<1>7. new.items = reg[p].items OBVIOUS
<1> HIDE DEF new
<1>8. Edits(p, new) BY <1>5, <1>6, <1>7 DEF Edits
<1> QED BY <1>4, <1>8 DEF Edited


LEMMA SplitEdits ==
  ASSUME LedgerInv, CopiesTyped, NEW p \in Procs, Split(p) PROVE Edited(p)
<1> DEFINE its == reg[p].items
           taken == DOMAIN its \cup reg[p].questions \cup ToSet(ledger)
<1>0. PICK parent \in DOMAIN its :
        LET promoted == [its EXCEPT ![parent] = [@ EXCEPT !.kind = "umbrella", !.prs = {}]] IN
        \E id \in SubIDs(parent, taken),
           status \in Statuses, deps \in DepLists(p), kind \in Kinds, x \in Extras :
        \E owner \in {its[parent].owner, x.owner} :
          /\ Mint(id)
          /\ Apply(p, WithItem([reg[p] EXCEPT !.items = promoted,
                                 !.queue = SeedChild(@, parent, Kids(its, parent), id)],
                               id, Record(status, deps, kind, owner, x.prs, parent, x.desc)))
  BY Zenon DEF Split
<1>1. PICK id \in SubIDs(parent, taken), status \in Statuses, deps \in DepLists(p),
           kind \in Kinds, x \in Extras :
        \E owner \in {its[parent].owner, x.owner} :
          /\ Mint(id)
          /\ Apply(p, WithItem([reg[p] EXCEPT !.items = [its EXCEPT ![parent] =
                                                          [@ EXCEPT !.kind = "umbrella", !.prs = {}]],
                                 !.queue = SeedChild(@, parent, Kids(its, parent), id)],
                               id, Record(status, deps, kind, owner, x.prs, parent, x.desc)))
  BY <1>0, Zenon
<1>a. PICK owner \in {its[parent].owner, x.owner} :
        /\ Mint(id)
        /\ Apply(p, WithItem([reg[p] EXCEPT !.items = [its EXCEPT ![parent] =
                                                        [@ EXCEPT !.kind = "umbrella", !.prs = {}]],
                               !.queue = SeedChild(@, parent, Kids(its, parent), id)],
                             id, Record(status, deps, kind, owner, x.prs, parent, x.desc)))
  BY <1>1, Zenon
<1> DEFINE it == Record(status, deps, kind, owner, x.prs, parent, x.desc)
           promoted == [its EXCEPT ![parent] = [@ EXCEPT !.kind = "umbrella", !.prs = {}]]
           seeded == SeedChild(reg[p].queue, parent, Kids(its, parent), id)
           r == [items |-> promoted, questions |-> reg[p].questions, queue |-> seeded]
           new == WithItem(r, id, it)
<1>2. taken = ToSet(ledger) BY CopyLedger
<1>3. IsId(id) /\ id \notin ToSet(ledger)
  <2> HIDE DEF taken
  <2>1. parent \in taken BY CopyLedger, <1>2
  <2> QED BY <1>2, <2>1, CopyLedger, SubIDIsNew
<1>s. its[parent] \in Records
  <2>1. Shaped(its) BY CopyLedger
  <2> HIDE DEF its
  <2> QED BY <2>1, ShapedIs
<1>4. it \in Records /\ it.parent = parent
  <2>1. x.owner \in Owners /\ x.prs \in SUBSET Nat /\ x.desc \in BOOLEAN BY ExtrasAssumption
  <2>2. deps \in Seq(Seq(Nat)) /\ parent \in Seq(Nat) BY CopyLedger, DepListsTyped
  <2>3. its[parent].owner \in Owners BY <1>s, RecordFields
  <2>4. owner \in Owners BY <2>1, <2>3
  <2> QED BY <2>1, <2>2, <2>4, RecordMade
<1>5. DOMAIN promoted = DOMAIN its /\ Shaped(promoted)
  <2>1. SameParent(its[parent], [its[parent] EXCEPT !.kind = "umbrella", !.prs = {}])
    BY <1>s, RecordChanges
  <2>2. Shaped(its) BY CopyLedger
  <2> HIDE DEF its
  <2> QED BY <2>1, <2>2, OneChanged
<1>n. id \notin DOMAIN its /\ id \notin ToSet(reg[p].queue) /\ id \in Seq(Nat)
  BY <1>3, CopyLedger DEF IsId
<1>q. Grown(reg[p].queue, seeded, id)
  <2>1. IsQueue(reg[p].queue) BY CopyLedger
  <2> QED BY <1>n, <2>1, Seeded
<1> HIDE DEF it, promoted, seeded, taken
<1>6. Mint(id) /\ Apply(p, new)
  <2>1. [reg[p] EXCEPT !.items = promoted, !.queue = seeded] = r
    BY CopyLedger, RegTwoFields
  <2>2. Mint(id) /\ Apply(p, WithItem([reg[p] EXCEPT !.items = promoted, !.queue = seeded], id, it))
    BY <1>a DEF it, promoted, seeded
  <2> QED BY <2>1, <2>2
<1>7. GoodCopy(r)
  <2>1. IsQueue(seeded) BY <1>q DEF Grown
  <2> QED BY <1>5, <2>1, GoodCopyOf
<1>8. r.questions = reg[p].questions /\ r.items = promoted /\ r.queue = seeded OBVIOUS
<1> HIDE DEF r
<1>9. PICK its1 : /\ new = [items |-> its1, questions |-> r.questions, queue |-> r.queue]
                  /\ DOMAIN its1 = DOMAIN r.items \cup {id} /\ Shaped(its1)
  <2>1. id \notin DOMAIN r.items /\ it.parent \in DOMAIN r.items \cup {NoParent} BY <1>4, <1>5, <1>8, <1>n
  <2>2. it \in Records BY <1>4
  <2> QED BY <1>3, <1>7, <2>1, <2>2, WithItemReg
<1> HIDE DEF new
<1>10. /\ GoodCopy(new) /\ new.questions = reg[p].questions /\ Keeps(reg[p].queue, new.queue)
       /\ KnownIds(new) \subseteq KnownIds(reg[p]) \cup {id}
  <2>1. new.items = its1 /\ new.questions = reg[p].questions /\ new.queue = seeded BY <1>9, <1>8
  <2>2. DOMAIN its1 = DOMAIN its \cup {id} BY <1>5, <1>8, <1>9
  <2>3. GoodCopy(new) BY <1>7, <1>9, GoodCopyOf DEF GoodCopy
  <2>4. Keeps(reg[p].queue, seeded) /\ ToSet(seeded) \subseteq ToSet(reg[p].queue) \cup {id}
    BY <1>q DEF Grown
  <2> QED BY <2>1, <2>2, <2>3, <2>4 DEF KnownIds
<1>11. Edits(p, new) BY <1>3, <1>6, <1>10 DEF Edits, Minted, Mint
<1> QED BY <1>6, <1>11 DEF Edited

LEMMA SetDescEdits ==
  ASSUME LedgerInv, CopiesTyped, NEW p \in Procs, SetDesc(p) PROVE Edited(p)
<1>1. CASE \E id \in DOMAIN reg[p].items : Change(p, id, [reg[p].items[id] EXCEPT !.desc = TRUE])
  <2>1. PICK id \in DOMAIN reg[p].items : Change(p, id, [reg[p].items[id] EXCEPT !.desc = TRUE])
    BY <1>1
  <2>2. reg[p].items[id] \in Records BY CopyLedger, ShapedIs
  <2>3. SameParent(reg[p].items[id], [reg[p].items[id] EXCEPT !.desc = TRUE]) BY <2>2, RecordChanges
  <2> QED BY <2>1, <2>3, ChangeEdits DEF Edited
<1>2. CASE Apply(p, reg[p]) /\ UNCHANGED ledger
  <2>1. Edits(p, reg[p]) BY <1>2, CopyLedger, KeepsItself DEF Edits, Minted
  <2> QED BY <1>2, <2>1 DEF Edited
<1> QED BY <1>1, <1>2 DEF SetDesc

LEMMA AnswerEdits ==
  ASSUME LedgerInv, CopiesTyped, NEW p \in Procs, Answer(p) PROVE Edited(p)
<1>1. PICK q : Apply(p, [reg[p] EXCEPT !.questions = @ \ {q}]) /\ UNCHANGED ledger BY DEF Answer
<1> DEFINE new == [items |-> reg[p].items, questions |-> reg[p].questions \ {q},
                   queue |-> reg[p].queue]
<1>2. [reg[p] EXCEPT !.questions = @ \ {q}] = new BY CopyLedger, RegFields
<1>3. Apply(p, new) BY <1>1, <1>2
<1>4. GoodCopy(new) /\ Keeps(reg[p].queue, new.queue) BY CopyLedger, GoodCopyOf, KeepsItself
<1>5. Minted(KnownIds(reg[p]), new)
  <2>1. KnownIds(new) \subseteq KnownIds(reg[p]) BY DEF KnownIds
  <2> QED BY <1>1, <2>1 DEF Minted
<1>6. new.items = reg[p].items OBVIOUS
<1> HIDE DEF new
<1>7. Edits(p, new) BY <1>4, <1>5, <1>6 DEF Edits
<1> QED BY <1>3, <1>7 DEF Edited

RankCommands == {"prioritize", "move"}

LEMMA CommandKinds ==
  ASSUME NEW p \in Procs, Mutate(p), ~Prioritize(p), ~Move(p) PROVE cmd[p] \notin RankCommands
BY DEF Mutate, AddItem, AddQuestion, Split, SetStatus, SetTitle, SetDesc, SetOwner, SetPR,
       DepAdd, DepRm, Answer, Loaded, RankCommands

(* The change of a dependency list.                                        *)
LEMMA DepEdits ==
  ASSUME LedgerInv, CopiesTyped, NEW p \in Procs, NEW id \in DOMAIN reg[p].items,
         NEW deps \in Seq(Seq(Nat)), Change(p, id, [reg[p].items[id] EXCEPT !.deps = deps])
  PROVE  Edited(p)
<1>1. reg[p].items[id] \in Records BY CopyLedger, ShapedIs
<1>2. SameParent(reg[p].items[id], [reg[p].items[id] EXCEPT !.deps = deps]) BY <1>1, RecordChanges
<1> QED BY <1>2, ChangeEdits DEF Edited

LEMMA OthersEdit ==
  ASSUME LedgerInv, CopiesTyped, NEW p \in Procs, Mutate(p), ~Prioritize(p), ~Move(p)
  PROVE  Edited(p)
<1>0. ASSUME NEW id \in DOMAIN reg[p].items
      PROVE  /\ reg[p].items[id] \in Records /\ reg[p].items[id].prs \in SUBSET Nat
             /\ reg[p].items[id].deps \in Seq(Seq(Nat)) /\ id \in Seq(Nat)
  <2>1. reg[p].items[id] \in Records /\ id \in Seq(Nat) BY CopyLedger, ShapedIs
  <2> QED BY <2>1, RecordFields
<1>1. CASE AddItem(p) BY <1>1, AddItemEdits
<1>2. CASE AddQuestion(p) BY <1>2, AddQuestionEdits
<1>3. CASE Split(p) BY <1>3, SplitEdits
<1>4. CASE SetStatus(p)
  <2>1. PICK id \in DOMAIN reg[p].items, status \in Statuses, prs \in {{}, {1}} :
          Change(p, id, [reg[p].items[id] EXCEPT !.status = status, !.prs = @ \cup prs])
    BY <1>4 DEF SetStatus
  <2>a. reg[p].items[id].prs \cup prs \in SUBSET Nat BY <1>0
  <2>2. SameParent(reg[p].items[id], [reg[p].items[id] EXCEPT !.status = status, !.prs = @ \cup prs])
    BY <1>0, <2>a, RecordChanges
  <2> QED BY <2>1, <2>2, ChangeEdits DEF Edited
<1>5. CASE SetTitle(p)
  <2>1. PICK id \in DOMAIN reg[p].items : Change(p, id, reg[p].items[id]) BY <1>5 DEF SetTitle
  <2>2. SameParent(reg[p].items[id], reg[p].items[id]) BY <1>0 DEF SameParent
  <2> QED BY <2>1, <2>2, ChangeEdits DEF Edited
<1>6. CASE SetDesc(p) BY <1>6, SetDescEdits
<1>7. CASE SetOwner(p)
  <2>1. PICK id \in DOMAIN reg[p].items, owner \in Owners :
          Change(p, id, [reg[p].items[id] EXCEPT !.owner = owner])
    BY <1>7 DEF SetOwner
  <2>2. SameParent(reg[p].items[id], [reg[p].items[id] EXCEPT !.owner = owner]) BY <1>0, RecordChanges
  <2> QED BY <2>1, <2>2, ChangeEdits DEF Edited
<1>8. CASE SetPR(p)
  <2>1. PICK id \in DOMAIN reg[p].items :
          Change(p, id, [reg[p].items[id] EXCEPT !.prs = @ \cup {1}])
    BY <1>8 DEF SetPR
  <2>a. reg[p].items[id].prs \cup {1} \in SUBSET Nat BY <1>0
  <2>2. SameParent(reg[p].items[id], [reg[p].items[id] EXCEPT !.prs = @ \cup {1}])
    BY <1>0, <2>a, RecordChanges
  <2> QED BY <2>1, <2>2, ChangeEdits DEF Edited
<1>9. CASE DepAdd(p)
  <2>1. PICK id \in DOMAIN reg[p].items, on \in Known(p) :
          Change(p, id, [reg[p].items[id] EXCEPT !.deps = Append(@, on)])
    BY <1>9 DEF DepAdd
  <2>2. on \in Seq(Nat) BY CopyLedger DEF Known
  <2>3. Append(reg[p].items[id].deps, on) \in Seq(Seq(Nat)) BY <1>0, <2>2, SeqAppend
  <2> QED BY <2>1, <2>3, DepEdits
<1>10. CASE DepRm(p)
  <2>0. PICK id \in DOMAIN reg[p].items :
          \E on \in ToSet(reg[p].items[id].deps) :
            Change(p, id, [reg[p].items[id] EXCEPT !.deps = Without(@, on)])
    BY <1>10, Zenon DEF DepRm
  <2>1. PICK on \in ToSet(reg[p].items[id].deps) :
          Change(p, id, [reg[p].items[id] EXCEPT !.deps = Without(@, on)])
    BY <2>0
  <2>3. Without(reg[p].items[id].deps, on) \in Seq(Seq(Nat)) BY <1>0, WithoutIs
  <2> QED BY <2>1, <2>3, DepEdits
<1>11. CASE Answer(p) BY <1>11, AnswerEdits
<1> QED BY <1>1, <1>2, <1>3, <1>4, <1>5, <1>6, <1>7, <1>8, <1>9, <1>10, <1>11 DEF Mutate

(* A change of rank brings the loaded queue into another order.            *)
Reorders(p) ==
  \E order \in SeqIds : /\ ToSet(order) = ToSet(reg[p].queue) /\ order # <<>>
                       /\ ApplyPriorityChange(p, order)

LEMMA PrioritizeReorders ==
  ASSUME LedgerInv, CopiesTyped, NEW p \in Procs, Prioritize(p) PROVE Reorders(p)
<1> DEFINE q == reg[p].queue
<1>1. PICK id \in ToSet(q) : ApplyPriorityChange(p, <<id>> \o Without(q, id)) BY DEF Prioritize
<1>2. q \in Seq(Seq(Nat)) BY CopyLedger DEF IsQueue, SeqIds
<1> HIDE DEF q
<1>3. Without(q, id) \in Seq(Seq(Nat)) /\ ToSet(Without(q, id)) \cup {id} = ToSet(q) BY <1>2, WithoutIs
<1>o. PICK one, rest : one = <<id>> /\ rest = Without(q, id) OBVIOUS
<1>4. one \in Seq(Seq(Nat)) /\ ToSet(one) = {id}
  <2>1. id \in Seq(Nat) BY <1>2, SeqFacts
  <2> QED BY <1>o, <2>1, SeqOne
<1>r. rest \in Seq(Seq(Nat)) /\ ToSet(rest) \cup {id} = ToSet(q) BY <1>3, <1>o
<1>5. PICK order : order = one \o rest OBVIOUS
<1>6. order \in Seq(Seq(Nat)) /\ ToSet(order) = ToSet(one) \cup ToSet(rest)
  BY <1>4, <1>5, <1>r, SeqConcat
<1>e. order = <<id>> \o Without(q, id) BY <1>5, <1>o
<1>7. ToSet(order) = ToSet(q) BY <1>4, <1>6, <1>r
<1>8. order # <<>> BY <1>4, <1>6, EmptyQueue
<1> QED BY <1>1, <1>e, <1>6, <1>7, <1>8 DEF Reorders, SeqIds, q

LEMMA MoveReorders ==
  ASSUME LedgerInv, CopiesTyped, NEW p \in Procs, Move(p) PROVE Reorders(p)
<1> DEFINE q == reg[p].queue
<1>1. PICK id \in ToSet(q) :
        LET rest == Without(q, id) IN
        \E k \in DOMAIN rest, after \in {0, 1} : ApplyPriorityChange(p, InsertAt(rest, k + after, id))
  BY Zenon DEF Move
<1> DEFINE rest == Without(q, id)
<1>2. PICK k \in DOMAIN rest, after \in {0, 1} : ApplyPriorityChange(p, InsertAt(rest, k + after, id))
  BY <1>1, Zenon
<1>3. q \in Seq(Seq(Nat)) BY CopyLedger DEF IsQueue, SeqIds
<1> HIDE DEF q
<1>4. rest \in Seq(Seq(Nat)) /\ ToSet(rest) \cup {id} = ToSet(q) BY <1>3, WithoutIs
<1>5. id \in Seq(Nat) BY <1>3, SeqFacts
<1> HIDE DEF rest
<1>6. Len(rest) \in Nat /\ DOMAIN rest = 1 .. Len(rest) BY <1>4, SeqFacts
<1>7. k + after \in 1 .. Len(rest) + 1 BY <1>6
<1>8. PICK order : order = InsertAt(rest, k + after, id) OBVIOUS
<1>9. order \in Seq(Seq(Nat)) /\ ToSet(order) = ToSet(rest) \cup {id} BY <1>4, <1>5, <1>7, <1>8, InsertIs
<1>10. ToSet(order) = ToSet(q) BY <1>4, <1>9
<1>11. order # <<>> BY <1>9, EmptyQueue
<1> QED BY <1>2, <1>8, <1>9, <1>10, <1>11 DEF Reorders, SeqIds, q

LEMMA MutateEdits ==
  ASSUME LedgerInv, CopiesTyped, NEW p \in Procs, Mutate(p)
  PROVE  \/ cmd[p] \notin RankCommands /\ Edited(p)
         \/ cmd[p] \in RankCommands /\ Reorders(p)
<1>1. CASE Prioritize(p) BY <1>1, PrioritizeReorders DEF Prioritize, Loaded, RankCommands
<1>2. CASE Move(p) BY <1>2, MoveReorders DEF Move, Loaded, RankCommands
<1>3. CASE ~Prioritize(p) /\ ~Move(p) BY <1>3, CommandKinds, OthersEdit
<1> QED BY <1>1, <1>2, <1>3

-----------------------------------------------------------------------------
(* Every id in a file or in a copy is on the ledger, each on one line.     *)

IdInv == CopiesTyped /\ LedgerInv

LEMMA IdFacts ==
  ASSUME IdInv, NEW p \in Procs
  PROVE  /\ DOMAIN reg = Procs /\ Shaped(items) /\ IsQueue(queue) /\ IsReg(reg[p])
         /\ GoodCopy(reg[p]) /\ Shaped(reg[p].items) /\ IsQueue(reg[p].queue)
         /\ KnownIds(reg[p]) \subseteq ToSet(ledger)
         /\ DOMAIN items \cup questions \cup ToSet(queue) \subseteq ToSet(ledger)
BY DEF IdInv, CopiesTyped, LedgerInv, GoodCopy

(* One copy replaced by another, the files and the ledger as they were.    *)
LEMMA CopyReplaced ==
  ASSUME IdInv, NEW p \in Procs, NEW r, reg' = [reg EXCEPT ![p] = r],
         GoodCopy(r), KnownIds(r) \subseteq ToSet(ledger),
         UNCHANGED <<items, questions, queue, ledger>>
  PROVE  IdInv'
<1>1. CopiesTyped' BY DEF IdInv, CopiesTyped
<1>2. LedgerInv' BY DEF IdInv, CopiesTyped, LedgerInv, LedgerTyped
<1> QED BY <1>1, <1>2 DEF IdInv

LEMMA LoadsKeepIds ==
  ASSUME IdInv, NEW p \in Procs, LoadItems(p) \/ LoadQuestions(p) \/ LoadQueue(p) PROVE IdInv'
<1>2. UNCHANGED <<items, questions, queue, ledger>>
  BY DEF LoadItems, LoadQuestions, LoadQueue, files
<1>3. ASSUME NEW its \in {items, reg[p].items}, NEW qs \in {questions, reg[p].questions},
             NEW q \in {queue, reg[p].queue},
             reg' = [reg EXCEPT ![p] = [items |-> its, questions |-> qs, queue |-> q]]
      PROVE  IdInv'
  <2> DEFINE r == [items |-> its, questions |-> qs, queue |-> q]
  <2>1. r.items = its /\ r.questions = qs /\ r.queue = q OBVIOUS
  <2>2. Shaped(its) /\ IsQueue(q) BY IdFacts
  <2>3. GoodCopy(r) BY <2>2, GoodCopyOf
  <2> HIDE DEF r
  <2>4. KnownIds(r) \subseteq ToSet(ledger) BY <2>1, IdFacts DEF KnownIds
  <2> QED BY <1>2, <1>3, <2>3, <2>4, CopyReplaced DEF r
<1>4. CASE LoadItems(p)
  <2>1. [reg[p] EXCEPT !.items = items]
          = [items |-> items, questions |-> reg[p].questions, queue |-> reg[p].queue]
    BY IdFacts, RegFields
  <2>2. reg' = [reg EXCEPT ![p] = [reg[p] EXCEPT !.items = items]] BY <1>4 DEF LoadItems
  <2> QED BY <1>3, <2>1, <2>2
<1>5. CASE LoadQuestions(p)
  <2>1. [reg[p] EXCEPT !.questions = questions]
          = [items |-> reg[p].items, questions |-> questions, queue |-> reg[p].queue]
    BY IdFacts, RegFields
  <2>2. reg' = [reg EXCEPT ![p] = [reg[p] EXCEPT !.questions = questions]]
    BY <1>5 DEF LoadQuestions
  <2> QED BY <1>3, <2>1, <2>2
<1>6. CASE LoadQueue(p)
  <2>1. [reg[p] EXCEPT !.queue = queue]
          = [items |-> reg[p].items, questions |-> reg[p].questions, queue |-> queue]
    BY IdFacts, RegFields
  <2>2. reg' = [reg EXCEPT ![p] = [reg[p] EXCEPT !.queue = queue]] BY <1>6 DEF LoadQueue
  <2> QED BY <1>3, <2>1, <2>2
<1> QED BY <1>4, <1>5, <1>6

LEMMA EndsKeepIds ==
  ASSUME IdInv, NEW p \in Procs, Reject(p) \/ Refuse(p) \/ Crash(p) PROVE IdInv'
<1>1. reg' = [reg EXCEPT ![p] = NoRegistry] /\ UNCHANGED <<items, questions, queue, ledger>>
  BY DEF Reject, Refuse, Crash, End, files
<1> QED BY <1>1, EmptyCopy, CopyReplaced

LEMMA WritesKeepIds == ASSUME IdInv, NEW p \in Procs, Writes(p) PROVE IdInv'
<1>1. /\ Shaped(reg[p].items) /\ IsQueue(reg[p].queue)
      /\ DOMAIN reg[p].items \cup reg[p].questions \cup ToSet(reg[p].queue) \subseteq ToSet(ledger)
  BY IdFacts DEF KnownIds
<1>2. CASE WriteItems(p)
  BY <1>1, <1>2 DEF WriteItems, IdInv, CopiesTyped, LedgerInv, LedgerTyped
<1>3. CASE WriteQuestions(p)
  BY <1>1, <1>3 DEF WriteQuestions, IdInv, CopiesTyped, LedgerInv, LedgerTyped
<1>4. CASE WriteQueue(p)
  <2>1. /\ reg' = [reg EXCEPT ![p] = NoRegistry] /\ UNCHANGED <<items, questions, ledger>>
        /\ queue' = reg[p].queue
    BY <1>4 DEF WriteQueue
  <2>2. ASSUME NEW q \in Procs
        PROVE  GoodCopy(reg'[q]) /\ KnownIds(reg'[q]) \subseteq ToSet(ledger)
    <3>1. reg'[q] = IF q = p THEN NoRegistry ELSE reg[q] BY <2>1, IdFacts
    <3> QED BY <3>1, EmptyCopy, IdFacts
  <2>3. DOMAIN reg' = Procs BY <2>1, IdFacts
  <2>4. CopiesTyped' BY <1>1, <2>1, <2>2, <2>3 DEF IdInv, CopiesTyped
  <2>5. LedgerInv' BY <1>1, <2>1, <2>2 DEF IdInv, LedgerInv, LedgerTyped
  <2> QED BY <2>4, <2>5 DEF IdInv
<1> QED BY <1>2, <1>3, <1>4 DEF Writes

(* A new line that repeats none, and a copy that has that id at most.      *)
LEMMA LedgerGrows ==
  ASSUME IdInv, NEW p \in Procs, NEW r, reg' = [reg EXCEPT ![p] = r],
         GoodCopy(r), Minted(KnownIds(reg[p]), r),
         UNCHANGED <<items, questions, queue>>
  PROVE  IdInv'
<1>1. KnownIds(reg[p]) \subseteq ToSet(ledger) BY IdFacts
<1>2. CASE UNCHANGED ledger /\ KnownIds(r) \subseteq KnownIds(reg[p])
  BY <1>1, <1>2, CopyReplaced
<1>3. CASE \E id : /\ IsId(id) /\ id \notin ToSet(ledger) /\ ledger' = Append(ledger, id)
                  /\ KnownIds(r) \subseteq KnownIds(reg[p]) \cup {id}
  <2>1. PICK id : /\ IsId(id) /\ id \notin ToSet(ledger) /\ ledger' = Append(ledger, id)
                  /\ KnownIds(r) \subseteq KnownIds(reg[p]) \cup {id}
    BY <1>3
  <2>2. /\ ledger \in Seq(Seq(Nat)) /\ id \in Seq(Nat) /\ Len(ledger) \in Nat
        /\ \A k \in 1 .. Len(ledger) : IsId(ledger[k])
    BY <2>1 DEF IdInv, LedgerInv, LedgerTyped, IsId
  <2>3. /\ ledger' \in Seq(Seq(Nat)) /\ Len(ledger') = Len(ledger) + 1
        /\ DOMAIN ledger = 1 .. Len(ledger) /\ DOMAIN ledger' = 1 .. Len(ledger) + 1
        /\ ledger'[Len(ledger) + 1] = id
        /\ \A k \in 1 .. Len(ledger) : ledger'[k] = ledger[k]
    BY <2>1, <2>2
  <2>4. \A k \in 1 .. Len(ledger) + 1 : k \in 1 .. Len(ledger) \/ k = Len(ledger) + 1
    BY <2>2
  <2>5. LedgerTyped'
    <3>1. \A k \in DOMAIN ledger' : IsId(ledger'[k]) BY <2>1, <2>2, <2>3, <2>4
    <3> QED BY <2>3, <3>1 DEF LedgerTyped
  <2>6. ToSet(ledger') = ToSet(ledger) \cup {id} BY <2>1, <2>2, SeqAppend
  <2>7. IsInjective(ledger')
    <3>1. \A k \in 1 .. Len(ledger) : ledger[k] # id BY <2>1, <2>3 DEF ToSet
    <3>2. \A a, b \in 1 .. Len(ledger) : ledger[a] = ledger[b] => a = b
      BY <2>3 DEF IdInv, LedgerInv, IsInjective
    <3> SUFFICES ASSUME NEW a \in 1 .. Len(ledger) + 1, NEW b \in 1 .. Len(ledger) + 1,
                        ledger'[a] = ledger'[b]
                 PROVE  a = b
      BY <2>3 DEF IsInjective
    <3> QED BY <2>3, <2>4, <3>1, <3>2
  <2>8. DOMAIN items' \cup questions' \cup ToSet(queue') \subseteq ToSet(ledger')
    BY <2>6, IdFacts
  <2>9. \A q \in Procs : KnownIds(reg'[q]) \subseteq ToSet(ledger')
    <3>1. KnownIds(r) \subseteq ToSet(ledger') BY <1>1, <2>1, <2>6
    <3>2. \A q \in Procs : q # p => reg'[q] = reg[q] BY DEF IdInv, CopiesTyped
    <3>3. reg'[p] = r BY DEF IdInv, CopiesTyped
    <3>4. \A q \in Procs : KnownIds(reg[q]) \subseteq ToSet(ledger) BY DEF IdInv, LedgerInv
    <3> QED BY <2>6, <3>1, <3>2, <3>3, <3>4
  <2>10. CopiesTyped' BY DEF IdInv, CopiesTyped
  <2> QED BY <2>5, <2>7, <2>8, <2>9, <2>10 DEF IdInv, LedgerInv
<1> QED BY <1>2, <1>3 DEF Minted

(* What a change of rank makes of the copy.                                *)
LEMMA ReorderedIs ==
  ASSUME IdInv, NEW p \in Procs, NEW order \in SeqIds, ToSet(order) = ToSet(reg[p].queue),
         ApplyPriorityChange(p, order)
  PROVE  LET q == TopoRepairPriority(reg[p].items, order)
             r == [items |-> reg[p].items, questions |-> reg[p].questions, queue |-> q] IN
         /\ UNCHANGED ledger /\ reg' = [reg EXCEPT ![p] = r] /\ GoodCopy(r)
         /\ KnownIds(r) = KnownIds(reg[p])
         /\ pc' = [pc EXCEPT ![p] = IF ValidPriority(reg[p].items, q) THEN "write queue" ELSE "refused"]
<1> DEFINE q == TopoRepairPriority(reg[p].items, order)
           r == [items |-> reg[p].items, questions |-> reg[p].questions, queue |-> q]
<1>1. IsReg(reg[p]) /\ Shaped(reg[p].items) BY IdFacts
<1>2. Tree(reg[p].items) /\ DepsTyped(reg[p].items) BY <1>1, ShapedIs
<1>3. q \in Seq(ToSet(order)) /\ IsInjective(q) /\ ToSet(q) = ToSet(order) BY <1>2, TopoIs DEF SeqIds
<1>4. q \in SeqIds
  <2>1. ToSet(order) \subseteq Seq(Nat) BY SeqFacts DEF SeqIds
  <2> HIDE DEF q
  <2> QED BY <1>3, <2>1 DEF SeqIds
<1>5. /\ UNCHANGED ledger /\ reg' = [reg EXCEPT ![p] = [reg[p] EXCEPT !.queue = q]]
      /\ pc' = [pc EXCEPT ![p] = IF ValidPriority(reg[p].items, q) THEN "write queue" ELSE "refused"]
  BY DEF ApplyPriorityChange
<1> HIDE DEF q
<1>6. [reg[p] EXCEPT !.queue = q] = r BY <1>1, RegFields
<1>7. GoodCopy(r) BY <1>1, <1>3, <1>4, GoodCopyOf DEF IsQueue
<1>8. KnownIds(r) = KnownIds(reg[p]) BY <1>3 DEF KnownIds
<1> QED BY <1>5, <1>6, <1>7, <1>8 DEF q

LEMMA MutateKeepsIds == ASSUME IdInv, NEW p \in Procs, Mutate(p) PROVE IdInv'
<1>1. Edited(p) \/ Reorders(p) BY MutateEdits DEF IdInv
<1>2. UNCHANGED <<items, questions, queue>> BY MutateGoesOn DEF files
<1>3. CASE Edited(p)
  <2>1. PICK new : Apply(p, new) /\ Edits(p, new) BY <1>3 DEF Edited
  <2> DEFINE r == Reconciled(new)
  <2>2. reg' = [reg EXCEPT ![p] = r] BY <2>1 DEF Apply
  <2>3. GoodCopy(r) /\ KnownIds(r) \subseteq KnownIds(new)
    BY <2>1, ReconciledReg DEF Edits
  <2> HIDE DEF r
  <2>4. Minted(KnownIds(reg[p]), r) BY <2>1, <2>3 DEF Edits, Minted
  <2> QED BY <1>2, <2>2, <2>3, <2>4, LedgerGrows
<1>4. CASE Reorders(p)
  <2>1. PICK order \in SeqIds : ToSet(order) = ToSet(reg[p].queue) /\ ApplyPriorityChange(p, order)
    BY <1>4 DEF Reorders
  <2>2. PICK r : /\ UNCHANGED ledger /\ reg' = [reg EXCEPT ![p] = r] /\ GoodCopy(r)
                 /\ KnownIds(r) = KnownIds(reg[p])
    BY <2>1, ReorderedIs
  <2>3. KnownIds(r) \subseteq ToSet(ledger) BY <2>2, IdFacts
  <2> QED BY <1>2, <2>2, <2>3, CopyReplaced
<1> QED BY <1>1, <1>3, <1>4

LEMMA SeedShaped ==
  ASSUME NEW s \in Seeds
  PROVE  /\ Shaped(s.items) /\ IsQueue(s.queue)
         /\ ToSet(s.queue) \subseteq DOMAIN s.items
<1>1. /\ IsFiniteSet(DOMAIN s.items \cup s.questions)
      /\ \A id \in DOMAIN s.items \cup s.questions : IsId(id)
      /\ IsItems(s.items) /\ s.queue \in Seq(Ids)
      /\ ValidRegistry(s.items, s.questions) /\ ValidPriority(s.items, s.queue)
  BY SeedsAssumption
<1>2. NoParent \notin DOMAIN s.items /\ DOMAIN s.items \subseteq Seq(Nat)
  BY <1>1 DEF IsId, NoParent
<1>3. /\ \A id \in DOMAIN s.items : s.items[id].parent \in DOMAIN s.items \cup {NoParent}
      /\ Acyclic([x \in DOMAIN s.items |-> {s.items[x].parent}])
  BY <1>1, Zenon DEF ValidRegistry
<1>4. IsFiniteSet(DOMAIN s.items) BY <1>1, FS_Subset
<1>5. Tree(s.items) BY <1>2, <1>3, <1>4, Zenon DEF Tree
<1>6. Shaped(s.items) BY <1>1, <1>2, <1>3, <1>5, Zenon DEF Shaped
<1>7. s.queue \in SeqIds BY <1>1 DEF SeqIds, Ids
<1>8. CASE s.queue = <<>> BY <1>6, <1>8, EmptyQueue
<1>9. CASE s.queue # <<>>
  <2>1. IsInjective(s.queue) /\ ToSet(s.queue) = PullableItems(s.items)
    BY <1>1, <1>9, Zenon DEF ValidPriority
  <2>2. PullableItems(s.items) \subseteq DOMAIN s.items BY DEF PullableItems
  <2> QED BY <1>6, <1>7, <2>1, <2>2 DEF IsQueue
<1> QED BY <1>8, <1>9

LEMMA SeedIds == Init => IdInv
<1> SUFFICES ASSUME Init PROVE IdInv
  OBVIOUS
<1>1. PICK s \in Seeds : /\ items = s.items /\ questions = s.questions /\ queue = s.queue
                        /\ ledger = SetToSeq(DOMAIN s.items \cup s.questions)
  BY DEF Init
<1> DEFINE S == DOMAIN s.items \cup s.questions
<1>2. IsFiniteSet(S) /\ (\A id \in S : IsId(id)) BY SeedsAssumption
<1>s. Shaped(s.items) /\ IsQueue(s.queue) /\ ToSet(s.queue) \subseteq S BY SeedShaped
<1> HIDE DEF S
<1>3. ledger \in Seq(S) /\ IsInjective(ledger) /\ ToSet(ledger) = S
  BY <1>1, <1>2, LedgerOf DEF S
<1>4. LedgerTyped
  <2>1. \A k \in DOMAIN ledger : IsId(ledger[k]) BY <1>2, <1>3 DEF ToSet
  <2>2. S \subseteq Seq(Nat) BY <1>2 DEF IsId
  <2>3. ledger \in Seq(Seq(Nat)) BY <1>3, <2>2
  <2> QED BY <2>1, <2>3 DEF LedgerTyped
<1>5. DOMAIN reg = Procs /\ \A p \in Procs : GoodCopy(reg[p]) /\ KnownIds(reg[p]) = {}
  <2>1. reg = [p \in Procs |-> NoRegistry] BY DEF Init
  <2> QED BY <2>1, EmptyCopy
<1>6. CopiesTyped BY <1>1, <1>5, <1>s DEF CopiesTyped
<1>7. LedgerInv BY <1>1, <1>3, <1>4, <1>5, <1>s DEF LedgerInv, S
<1> QED BY <1>6, <1>7 DEF IdInv

LEMMA IdInvHolds == Spec => []IdInv
<1>1. IdInv /\ [Next]_vars => IdInv'
  <2> SUFFICES ASSUME IdInv, [Next]_vars PROVE IdInv'
    OBVIOUS
  <2>1. ASSUME UNCHANGED <<items, questions, queue, ledger, reg>> PROVE IdInv'
    BY <2>1 DEF IdInv, CopiesTyped, LedgerInv, LedgerTyped
  <2>2. ASSUME NEW p \in Procs, NEW c \in Commands, Begin(p, c) \/ GiveUp(p, c) PROVE IdInv'
    BY <2>1, <2>2 DEF Begin, GiveUp, files
  <2>3. ASSUME NEW p \in Procs, Step(p) PROVE IdInv'
    BY <2>3, LoadsKeepIds, MutateKeepsIds, EndsKeepIds, WritesKeepIds DEF Step, Writes
  <2>4. ASSUME NEW p \in Procs, Crash(p) PROVE IdInv' BY <2>4, EndsKeepIds
  <2>5. CASE UNCHANGED vars BY <2>1, <2>5 DEF vars, files
  <2> QED BY <2>2, <2>3, <2>4, <2>5 DEF Next
<1> QED BY <1>1, SeedIds, PTL DEF Spec

(* No id is minted twice and no id of a file is missing from the ledger,   *)
(* for any interleaving of the commands, locked or not, and whoever is     *)
(* killed (appendToLedger comes before the writes, nextItemID and          *)
(* nextQuestionID look at the ledger as well as at the files).             *)
THEOREM IdsAlwaysMintedOnce == Spec => []IdsAreMintedOnce
<1>1. IdInv => IdsAreMintedOnce BY DEF IdInv, LedgerInv, IdsAreMintedOnce
<1> QED BY <1>1, IdInvHolds, PTL

-----------------------------------------------------------------------------
(* The files. While the lock is kept, a copy is what the files hold until  *)
(* its process writes, and what it writes passes the validator next to the *)
(* questions on disk as well as next to its own.                           *)
CopyInv ==
  ~raced =>
    /\ ValidRegistry(items, questions)
    /\ \A p \in Procs :
         /\ pc[p] \in {"questions", "queue", "loaded"} => reg[p].items = items
         /\ pc[p] \in {"queue", "loaded"} => reg[p].questions = questions
         /\ pc[p] = "loaded" => reg[p].queue = queue
         /\ pc[p] = "write items" => /\ ValidRegistry(reg[p].items, questions)
                                    /\ ValidRegistry(reg[p].items, reg[p].questions)
         /\ pc[p] = "write questions" => /\ items = reg[p].items
                                        /\ ValidRegistry(items, reg[p].questions)

DiskInv == LockInv /\ IdInv /\ CopyInv

(* Of what is validated, the questions only say which dependencies exist.  *)
LEMMA ValidWithOtherQuestions ==
  ASSUME NEW its, NEW qs, NEW others, ValidRegistry(its, qs),
         \A id \in DOMAIN its : \A k \in DOMAIN its[id].deps :
            its[id].deps[k] \in DOMAIN its \cup others
  PROVE  ValidRegistry(its, others)
BY DEF ValidRegistry

LEMMA DependenciesExist ==
  ASSUME NEW its, NEW qs, ValidRegistry(its, qs), NEW id \in DOMAIN its
  PROVE  \A k \in DOMAIN its[id].deps : its[id].deps[k] \in DOMAIN its \cup qs
BY DEF ValidRegistry

(* The derived statuses leave ids and dependencies as they are.            *)
LEMMA DerivedDeps ==
  ASSUME NEW its, Shaped(its)
  PROVE  LET d == DeriveUmbrellaStatuses(its) IN
         DOMAIN d = DOMAIN its /\ \A id \in DOMAIN its : d[id].deps = its[id].deps
<1> DEFINE d == DeriveUmbrellaStatuses(its)
<1>1. PICK derived : d = [id \in DOMAIN its |-> [its[id] EXCEPT !.status = derived[id]]]
  BY DEF DeriveUmbrellaStatuses
<1> HIDE DEF d
<1>2. ASSUME NEW id \in DOMAIN its PROVE d[id].deps = its[id].deps
  <2>1. its[id] \in Records BY ShapedIs
  <2>2. d[id] = [its[id] EXCEPT !.status = derived[id]] BY <1>1
  <2> QED BY <2>1, <2>2 DEF Records
<1>3. DOMAIN d = DOMAIN its BY <1>1
<1> QED BY <1>2, <1>3 DEF d

(* A result that is accepted is also valid next to the questions on disk:  *)
(* either they are its own, or its items have the dependencies of those on *)
(* disk.                                                                   *)
LEMMA AcceptedNextToDisk ==
  ASSUME DiskInv, ~raced, NEW p \in Procs, pc[p] = "loaded", NEW new, Edits(p, new),
         Acceptable(Reconciled(new))
  PROVE  LET r == Reconciled(new) IN
         ValidRegistry(r.items, questions) /\ ValidRegistry(r.items, r.questions)
<1> DEFINE r == Reconciled(new)
<1>1. /\ r.items = DeriveUmbrellaStatuses(new.items) /\ r.questions = new.questions
      /\ DOMAIN r.items = DOMAIN new.items /\ Shaped(new.items)
  BY ReconciledReg DEF Edits, GoodCopy
<1>2. ValidRegistry(r.items, r.questions) BY DEF Acceptable
<1>3. reg[p].items = items /\ reg[p].questions = questions /\ ValidRegistry(items, questions)
  BY DEF DiskInv, CopyInv
<1>4. CASE new.questions = reg[p].questions BY <1>1, <1>2, <1>3, <1>4
<1>5. CASE new.items = reg[p].items
  <2> DEFINE d == DeriveUmbrellaStatuses(items)
  <2>1. r.items = d BY <1>1, <1>3, <1>5
  <2>2. DOMAIN d = DOMAIN items /\ \A id \in DOMAIN items : d[id].deps = items[id].deps
    BY <1>1, <1>3, <1>5, DerivedDeps
  <2> HIDE DEF d, r
  <2>3. \A id \in DOMAIN d : \A k \in DOMAIN d[id].deps : d[id].deps[k] \in DOMAIN d \cup questions
    BY <1>3, <2>2, DependenciesExist
  <2>4. ValidRegistry(d, questions) BY <1>2, <2>1, <2>3, ValidWithOtherQuestions
  <2> QED BY <1>2, <2>1, <2>4 DEF r
<1> QED BY <1>4, <1>5 DEF Edits

(* Whoever else runs only if the lock was not kept, so a step of p leaves  *)
(* what is said of the others true.                                        *)
LEMMA OthersIdle ==
  ASSUME DiskInv, ~raced, NEW p \in Procs, Running(p), NEW q \in Procs, q # p
  PROVE  pc[q] = "idle"
BY OnlyOneRuns DEF DiskInv, Running

StepFits(at, r) ==
  ~raced =>
    /\ ValidRegistry(items', questions')
    /\ at \in {"questions", "queue", "loaded"} => r.items = items'
    /\ at \in {"queue", "loaded"} => r.questions = questions'
    /\ at = "loaded" => r.queue = queue'
    /\ at = "write items" => /\ ValidRegistry(r.items, questions')
                            /\ ValidRegistry(r.items, r.questions)
    /\ at = "write questions" => items' = r.items /\ ValidRegistry(items', r.questions)

LEMMA CopyStep ==
  ASSUME DiskInv, NEW p \in Procs, Running(p), raced' = raced,
         NEW at, pc' = [pc EXCEPT ![p] = at], NEW r, reg'[p] = r, StepFits(at, r)
  PROVE  CopyInv'
<1> SUFFICES ASSUME ~raced, NEW q \in Procs
             PROVE  /\ pc'[q] \in {"questions", "queue", "loaded"} => reg'[q].items = items'
                    /\ pc'[q] \in {"queue", "loaded"} => reg'[q].questions = questions'
                    /\ pc'[q] = "loaded" => reg'[q].queue = queue'
                    /\ pc'[q] = "write items" => /\ ValidRegistry(reg'[q].items, questions')
                                                /\ ValidRegistry(reg'[q].items, reg'[q].questions)
                    /\ pc'[q] = "write questions" => /\ items' = reg'[q].items
                                                    /\ ValidRegistry(items', reg'[q].questions)
  BY DEF CopyInv, StepFits
<1>1. DOMAIN pc = Procs BY DEF DiskInv, LockInv
<1>2. CASE q = p
  <2>1. pc'[q] = at /\ reg'[q] = r BY <1>1, <1>2
  <2> QED BY <2>1 DEF StepFits
<1>3. CASE q # p
  <2>1. pc'[q] = "idle" BY <1>1, <1>3, OthersIdle
  <2> QED BY <2>1
<1> QED BY <1>2, <1>3

LEMMA NewCopy ==
  ASSUME DiskInv, NEW p \in Procs, NEW r, reg' = [reg EXCEPT ![p] = r] PROVE reg'[p] = r
BY DEF DiskInv, IdInv, CopiesTyped

LEMMA LoadsCopy ==
  ASSUME DiskInv, NEW p \in Procs, LoadItems(p) \/ LoadQuestions(p) \/ LoadQueue(p) PROVE CopyInv'
<1>1. /\ IsReg(reg[p]) /\ UNCHANGED <<items, questions, queue, raced>> /\ Running(p)
      /\ ~raced => ValidRegistry(items, questions)
  BY DEF LoadItems, LoadQuestions, LoadQueue, files, ghosts, Running, DiskInv, IdInv, CopiesTyped,
         CopyInv, GoodCopy
<1>2. CASE LoadItems(p)
  <2>1. /\ pc' = [pc EXCEPT ![p] = "questions"]
        /\ reg' = [reg EXCEPT ![p] = [reg[p] EXCEPT !.items = items]]
    BY <1>2 DEF LoadItems
  <2>2. [reg[p] EXCEPT !.items = items].items = items BY <1>1, RegFields
  <2>3. StepFits("questions", [reg[p] EXCEPT !.items = items])
    BY <1>1, <2>2 DEF StepFits
  <2> QED BY <1>1, <2>1, <2>3, NewCopy, CopyStep
<1>3. CASE LoadQuestions(p)
  <2>1. /\ pc' = [pc EXCEPT ![p] = "queue"] /\ pc[p] = "questions"
        /\ reg' = [reg EXCEPT ![p] = [reg[p] EXCEPT !.questions = questions]]
    BY <1>3 DEF LoadQuestions
  <2>2. /\ [reg[p] EXCEPT !.questions = questions].questions = questions
        /\ [reg[p] EXCEPT !.questions = questions].items = reg[p].items
    BY <1>1, RegFields
  <2>3. ~raced => reg[p].items = items BY <2>1 DEF DiskInv, CopyInv
  <2>4. StepFits("queue", [reg[p] EXCEPT !.questions = questions])
    BY <1>1, <2>2, <2>3 DEF StepFits
  <2> QED BY <1>1, <2>1, <2>4, NewCopy, CopyStep
<1>4. CASE LoadQueue(p)
  <2>1. /\ pc' = [pc EXCEPT ![p] = "loaded"] /\ pc[p] = "queue"
        /\ reg' = [reg EXCEPT ![p] = [reg[p] EXCEPT !.queue = queue]]
    BY <1>4 DEF LoadQueue
  <2>2. /\ [reg[p] EXCEPT !.queue = queue].questions = reg[p].questions
        /\ [reg[p] EXCEPT !.queue = queue].queue = queue
        /\ [reg[p] EXCEPT !.queue = queue].items = reg[p].items
    BY <1>1, RegFields
  <2>3. ~raced => reg[p].items = items /\ reg[p].questions = questions
    BY <2>1 DEF DiskInv, CopyInv
  <2>4. StepFits("loaded", [reg[p] EXCEPT !.queue = queue])
    BY <1>1, <2>2, <2>3 DEF StepFits
  <2> QED BY <1>1, <2>1, <2>4, NewCopy, CopyStep
<1> QED BY <1>2, <1>3, <1>4

LEMMA MutateCopy == ASSUME DiskInv, NEW p \in Procs, Mutate(p) PROVE CopyInv'
<1>1. /\ Edited(p) \/ Reorders(p)
      /\ UNCHANGED <<items, questions, queue, raced>> /\ Running(p)
      /\ ~raced => ValidRegistry(items, questions)
  BY MutateEdits, MutateGoesOn DEF DiskInv, IdInv, CopyInv, files, GoesOn
<1>2. pc[p] = "loaded"
  BY DEF Mutate, AddItem, AddQuestion, Split, SetStatus, SetTitle, SetDesc, SetOwner, SetPR,
         DepAdd, DepRm, Answer, Prioritize, Move, Loaded
<1>3. CASE Edited(p)
  <2>1. PICK new : Apply(p, new) /\ Edits(p, new) BY <1>3 DEF Edited
  <2> DEFINE r == Reconciled(new)
  <2>2. /\ reg' = [reg EXCEPT ![p] = r]
        /\ \/ Acceptable(r) /\ pc' = [pc EXCEPT ![p] = "write items"]
           \/ pc' = [pc EXCEPT ![p] = "refused"]
    BY <2>1, Zenon DEF Apply
  <2>3. CASE Acceptable(r) /\ pc' = [pc EXCEPT ![p] = "write items"]
    <3>1. ~raced => ValidRegistry(r.items, questions) /\ ValidRegistry(r.items, r.questions)
      BY <1>2, <2>1, <2>3, AcceptedNextToDisk
    <3> HIDE DEF r
    <3>2. StepFits("write items", r) BY <1>1, <3>1 DEF StepFits
    <3> QED BY <1>1, <2>2, <2>3, <3>2, NewCopy, CopyStep
  <2>4. CASE pc' = [pc EXCEPT ![p] = "refused"]
    <3> HIDE DEF r
    <3>1. StepFits("refused", r) BY <1>1 DEF StepFits
    <3> QED BY <1>1, <2>2, <2>4, <3>1, NewCopy, CopyStep
  <2> QED BY <2>2, <2>3, <2>4
<1>4. CASE Reorders(p)
  <2>1. PICK r, at : /\ reg' = [reg EXCEPT ![p] = r] /\ pc' = [pc EXCEPT ![p] = at]
                     /\ at \in {"write queue", "refused"}
    BY <1>4 DEF Reorders, ApplyPriorityChange
  <2>2. StepFits(at, r) BY <1>1, <2>1 DEF StepFits
  <2> QED BY <1>1, <2>1, <2>2, NewCopy, CopyStep
<1> QED BY <1>1, <1>3, <1>4

LEMMA EndsCopy ==
  ASSUME DiskInv, NEW p \in Procs, Reject(p) \/ Refuse(p) \/ Crash(p) PROVE CopyInv'
<1>1. /\ UNCHANGED <<items, questions, queue, raced>> /\ Running(p)
      /\ pc' = [pc EXCEPT ![p] = "idle"] /\ reg' = [reg EXCEPT ![p] = NoRegistry]
      /\ ~raced => ValidRegistry(items, questions)
  BY DEF Reject, Refuse, Crash, End, files, Running, DiskInv, CopyInv
<1> HIDE DEF NoRegistry
<1>2. StepFits("idle", NoRegistry) BY <1>1 DEF StepFits
<1> QED BY <1>1, <1>2, NewCopy, CopyStep

LEMMA WritesCopy == ASSUME DiskInv, NEW p \in Procs, Writes(p) PROVE CopyInv'
<1>1. CASE WriteItems(p)
  <2>1. /\ pc[p] = "write items" /\ items' = reg[p].items /\ UNCHANGED <<questions, raced, reg>>
        /\ pc' = [pc EXCEPT ![p] = "write questions"] /\ Running(p)
    BY <1>1 DEF WriteItems, Running
  <2>2. ~raced => /\ ValidRegistry(reg[p].items, questions)
                  /\ ValidRegistry(reg[p].items, reg[p].questions)
    BY <2>1 DEF DiskInv, CopyInv
  <2>3. StepFits("write questions", reg[p]) BY <2>1, <2>2 DEF StepFits
  <2> QED BY <2>1, <2>3, CopyStep
<1>2. CASE WriteQuestions(p)
  <2>1. /\ pc[p] = "write questions" /\ questions' = reg[p].questions
        /\ UNCHANGED <<items, raced, reg>>
        /\ pc' = [pc EXCEPT ![p] = "write queue"] /\ Running(p)
    BY <1>2 DEF WriteQuestions, Running
  <2>2. ~raced => ValidRegistry(items, reg[p].questions) BY <2>1 DEF DiskInv, CopyInv
  <2>3. StepFits("write queue", reg[p]) BY <2>1, <2>2 DEF StepFits
  <2> QED BY <2>1, <2>3, CopyStep
<1>3. CASE WriteQueue(p)
  <2>1. /\ UNCHANGED <<items, questions, raced>> /\ Running(p)
        /\ pc' = [pc EXCEPT ![p] = "idle"] /\ reg' = [reg EXCEPT ![p] = NoRegistry]
        /\ ~raced => ValidRegistry(items, questions)
    BY <1>3 DEF WriteQueue, Running, DiskInv, CopyInv
  <2> HIDE DEF NoRegistry
  <2>2. StepFits("idle", NoRegistry) BY <2>1 DEF StepFits
  <2> QED BY <2>1, <2>2, NewCopy, CopyStep
<1> QED BY <1>1, <1>2, <1>3 DEF Writes

LEMMA BeginCopy ==
  ASSUME DiskInv, NEW p \in Procs, NEW c \in Commands, Begin(p, c) PROVE CopyInv'
<1>1. /\ UNCHANGED <<items, questions, queue, reg>> /\ (~raced' => ~raced)
      /\ pc' = [pc EXCEPT ![p] = "items"]
  BY DEF Begin, files
<1>2. DOMAIN pc = Procs BY DEF DiskInv, LockInv
<1>3. \A q \in Procs : pc'[q] = pc[q] \/ pc'[q] = "items" BY <1>1, <1>2
<1> QED BY <1>1, <1>3 DEF DiskInv, CopyInv

LEMMA DiskInvHolds == Spec => []DiskInv
<1>1. Init => CopyInv
  <2> SUFFICES ASSUME Init PROVE CopyInv
    OBVIOUS
  <2>1. PICK s \in Seeds : items = s.items /\ questions = s.questions BY DEF Init
  <2>2. ValidRegistry(items, questions) BY <2>1, SeedsAssumption
  <2>3. \A p \in Procs : pc[p] = "idle" BY DEF Init
  <2> QED BY <2>2, <2>3 DEF CopyInv
<1>2. LockInv /\ IdInv /\ CopyInv /\ [Next]_vars => CopyInv'
  <2> SUFFICES ASSUME DiskInv, [Next]_vars PROVE CopyInv'
    BY DEF DiskInv
  <2>1. ASSUME NEW p \in Procs, NEW c \in Commands, Begin(p, c) PROVE CopyInv' BY <2>1, BeginCopy
  <2>2. ASSUME NEW p \in Procs, NEW c \in Commands, GiveUp(p, c) PROVE CopyInv'
    BY <2>2 DEF GiveUp, files, ghosts, DiskInv, CopyInv
  <2>3. ASSUME NEW p \in Procs, Step(p) PROVE CopyInv'
    BY <2>3, LoadsCopy, MutateCopy, EndsCopy, WritesCopy DEF Step, Writes
  <2>4. ASSUME NEW p \in Procs, Crash(p) PROVE CopyInv' BY <2>4, EndsCopy
  <2>5. CASE UNCHANGED vars BY <2>5 DEF vars, files, DiskInv, CopyInv
  <2> QED BY <2>1, <2>2, <2>3, <2>4, <2>5 DEF Next
<1>3. LockInv /\ IdInv /\ CopyInv => DiskInv BY DEF DiskInv
<1> QED BY <1>1, <1>2, <1>3, LockInvHolds, IdInvHolds, PTL DEF Spec

(* Whoever is killed and wherever, the items and the questions on disk are *)
(* a registry the validator accepts, although they are two files written   *)
(* one after the other (applyAndCommit and the write order of mutators.go).*)
THEOREM FilesAlwaysValid == Spec => []FilesAreValid
<1>1. DiskInv => FilesAreValid BY DEF DiskInv, CopyInv, FilesAreValid
<1> QED BY <1>1, DiskInvHolds, PTL

-----------------------------------------------------------------------------
(* The queue. A copy on its way to the files has its umbrellas derived and  *)
(* its queue in order, and the queue on disk is in order for the items on   *)
(* disk except from the write of items.yaml to that of priority.yaml, and   *)
(* until the next commit when the process is killed there.                  *)
InStep(its, q) == ValidPriority(its, q) /\ (q = <<>> => PullableItems(its) = {})

Cutting(p) ==
  pc[p] = "write questions" \/ (pc[p] = "write queue" /\ cmd[p] \notin RankCommands)

OrderInv ==
  ~raced =>
    /\ UmbrellasAreDerived(items)
    /\ \A p \in Procs :
         /\ pc[p] \in {"write items", "write questions"} =>
              /\ cmd[p] \notin RankCommands /\ UmbrellasAreDerived(reg[p].items)
              /\ InStep(reg[p].items, reg[p].queue)
         /\ pc[p] = "write questions" => items = reg[p].items
         /\ pc[p] = "write queue" => InStep(items, reg[p].queue)
    /\ torn \/ (\E p \in Procs : Cutting(p)) \/ InStep(items, queue)

(* What a step of p that leaves it at `at' with the copy r must see to.     *)
OrderFits(at, c, r) ==
  ~raced =>
    /\ UmbrellasAreDerived(items')
    /\ at \in {"write items", "write questions"} =>
         /\ c \notin RankCommands /\ UmbrellasAreDerived(r.items)
         /\ InStep(r.items, r.queue)
    /\ at = "write questions" => items' = r.items
    /\ at = "write queue" => InStep(items', r.queue)
    /\ \/ torn' \/ at = "write questions" \/ (at = "write queue" /\ c \notin RankCommands)
       \/ InStep(items', queue')

LEMMA OrderStep ==
  ASSUME DiskInv, NEW p \in Procs, Running(p), raced' = raced,
         NEW at, pc' = [pc EXCEPT ![p] = at], NEW r, reg'[p] = r,
         OrderFits(at, cmd'[p], r)
  PROVE  OrderInv'
<1> SUFFICES ASSUME ~raced PROVE OrderInv'
  BY DEF OrderInv
<1>1. DOMAIN pc = Procs BY DEF DiskInv, LockInv
<1>2. pc'[p] = at BY <1>1
<1>3. ASSUME NEW q \in Procs, q # p PROVE pc'[q] = "idle" BY <1>1, <1>3, OthersIdle
<1>4. ASSUME NEW q \in Procs
      PROVE  /\ pc'[q] \in {"write items", "write questions"} =>
                  /\ cmd'[q] \notin RankCommands /\ UmbrellasAreDerived(reg'[q].items)
                  /\ InStep(reg'[q].items, reg'[q].queue)
             /\ pc'[q] = "write questions" => items' = reg'[q].items
             /\ pc'[q] = "write queue" => InStep(items', reg'[q].queue)
  <2>1. CASE q = p BY <1>2, <2>1 DEF OrderFits
  <2>2. CASE q # p
    <3>1. pc'[q] = "idle" BY <1>3, <2>2
    <3> QED BY <3>1
  <2> QED BY <2>1, <2>2
<1>5. torn' \/ (\E q \in Procs : Cutting(q)') \/ InStep(items', queue')
  BY <1>2 DEF OrderFits, Cutting
<1> QED BY <1>4, <1>5 DEF OrderInv, OrderFits

(* Nobody else runs, so whether the commit is cut short is p's doing.       *)
LEMMA SettledBut ==
  ASSUME DiskInv, OrderInv, ~raced, NEW p \in Procs, Running(p), ~Cutting(p)
  PROVE  torn \/ InStep(items, queue)
<1>1. ASSUME NEW q \in Procs, Cutting(q) PROVE FALSE
  <2>1. q # p BY <1>1
  <2>2. pc[q] = "idle" BY <2>1, OthersIdle
  <2> QED BY <1>1, <2>2 DEF Cutting
<1> QED BY <1>1 DEF OrderInv

LEMMA LoadsOrder ==
  ASSUME DiskInv, OrderInv, NEW p \in Procs, LoadItems(p) \/ LoadQuestions(p) \/ LoadQueue(p)
  PROVE  OrderInv'
<1>1. /\ UNCHANGED <<items, queue, raced, torn, cmd>> /\ Running(p) /\ ~Cutting(p)
  BY DEF LoadItems, LoadQuestions, LoadQueue, files, ghosts, Running, Cutting
<1>2. PICK at, r : /\ pc' = [pc EXCEPT ![p] = at] /\ reg' = [reg EXCEPT ![p] = r]
                   /\ at \in {"questions", "queue", "loaded"}
  BY DEF LoadItems, LoadQuestions, LoadQueue
<1>3. OrderFits(at, cmd'[p], r) BY <1>1, <1>2, SettledBut DEF OrderFits, OrderInv
<1> QED BY <1>1, <1>2, <1>3, NewCopy, OrderStep

(* What the two kinds of command leave in the copy.                         *)
LEMMA ReconciledIs ==
  ASSUME NEW new, GoodCopy(new)
  PROVE  LET r == Reconciled(new) IN
         /\ ToSet(r.queue) = PullableItems(r.items)
         /\ LeavesAcyclic(r.items) => ValidPriority(r.items, r.queue)
<1> DEFINE r == Reconciled(new)
<1>1. GoodCopy(r) /\ r.queue = ReconcilePriority(r.items, new.queue) BY ReconciledReg
<1> HIDE DEF r
<1>2. Tree(r.items) /\ DepsTyped(r.items) /\ new.queue \in SeqIds
  BY <1>1, ShapedIs DEF GoodCopy, IsQueue
<1> QED BY <1>1, <1>2, ReconcileIs DEF r

LEMMA RankChanges ==
  ASSUME IdInv, NEW p \in Procs, Reorders(p)
  PROVE  \E q, at, r : /\ r = [items |-> reg[p].items, questions |-> reg[p].questions, queue |-> q]
                      /\ reg' = [reg EXCEPT ![p] = r] /\ pc' = [pc EXCEPT ![p] = at]
                      /\ q # <<>>
                      /\ \/ at = "write queue" /\ ValidPriority(reg[p].items, q)
                         \/ at = "refused"
<1>1. PICK order \in SeqIds : /\ ToSet(order) = ToSet(reg[p].queue) /\ order # <<>>
                              /\ ApplyPriorityChange(p, order)
  BY DEF Reorders
<1> DEFINE q == TopoRepairPriority(reg[p].items, order)
           r == [items |-> reg[p].items, questions |-> reg[p].questions, queue |-> q]
           at == IF ValidPriority(reg[p].items, q) THEN "write queue" ELSE "refused"
<1>2. reg' = [reg EXCEPT ![p] = r] /\ pc' = [pc EXCEPT ![p] = at] BY <1>1, ReorderedIs
<1>3. q # <<>>
  <2>1. Tree(reg[p].items) /\ DepsTyped(reg[p].items) BY IdFacts, ShapedIs
  <2>2. ToSet(q) = ToSet(order) BY <2>1, TopoIs DEF SeqIds
  <2>3. ToSet(order) # {} BY <1>1, SeqFacts DEF SeqIds
  <2> QED BY <2>2, <2>3, EmptyQueue
<1> HIDE DEF q
<1> QED BY <1>2, <1>3

LEMMA MutateOrder ==
  ASSUME DiskInv, OrderInv, NEW p \in Procs, Mutate(p) PROVE OrderInv'
<1>1. pc[p] = "loaded"
  BY DEF Mutate, AddItem, AddQuestion, Split, SetStatus, SetTitle, SetDesc, SetOwner, SetPR,
         DepAdd, DepRm, Answer, Prioritize, Move, Loaded
<1>2. UNCHANGED <<items, queue, raced, torn, cmd>> /\ Running(p) /\ ~Cutting(p)
  BY <1>1, MutateGoesOn DEF files, GoesOn, Cutting
<1>3. ~raced => UmbrellasAreDerived(items) /\ (torn \/ InStep(items, queue))
  BY <1>2, SettledBut DEF OrderInv
<1>4. \/ cmd[p] \notin RankCommands /\ Edited(p)
      \/ cmd[p] \in RankCommands /\ Reorders(p)
  BY MutateEdits DEF DiskInv, IdInv
<1>5. CASE cmd[p] \notin RankCommands /\ Edited(p)
  <2>1. PICK new : Apply(p, new) /\ Edits(p, new) BY <1>5 DEF Edited
  <2> DEFINE r == Reconciled(new)
  <2>2. /\ reg' = [reg EXCEPT ![p] = r]
        /\ \/ Acceptable(r) /\ pc' = [pc EXCEPT ![p] = "write items"]
           \/ pc' = [pc EXCEPT ![p] = "refused"]
    BY <2>1, Zenon DEF Apply
  <2>3. UmbrellasAreDerived(r.items) /\ (r.queue = <<>> => PullableItems(r.items) = {})
    <3>1. UmbrellasAreDerived(r.items)
      <4>1. AllRecords(new.items) BY <2>1, ShapedIs DEF Edits, GoodCopy
      <4>2. r.items = DeriveUmbrellaStatuses(new.items) BY <2>1, ReconciledReg DEF Edits
      <4> QED BY <4>1, <4>2, DerivedFollow
    <3>2. ToSet(r.queue) = PullableItems(r.items) BY <2>1, ReconciledIs DEF Edits
    <3> QED BY <3>1, <3>2, EmptyQueue
  <2> HIDE DEF r
  <2>4. CASE Acceptable(r) /\ pc' = [pc EXCEPT ![p] = "write items"]
    <3>1. InStep(r.items, r.queue) BY <2>3, <2>4 DEF Acceptable, InStep
    <3>2. OrderFits("write items", cmd'[p], r) BY <1>2, <1>3, <1>5, <2>3, <3>1 DEF OrderFits
    <3> QED BY <1>2, <2>2, <2>4, <3>2, NewCopy, OrderStep
  <2>5. CASE pc' = [pc EXCEPT ![p] = "refused"]
    <3>1. OrderFits("refused", cmd'[p], r) BY <1>2, <1>3 DEF OrderFits
    <3> QED BY <1>2, <2>2, <2>5, <3>1, NewCopy, OrderStep
  <2> QED BY <2>2, <2>4, <2>5
<1>6. CASE cmd[p] \in RankCommands /\ Reorders(p)
  <2>1. PICK q, at, r : /\ r = [items |-> reg[p].items, questions |-> reg[p].questions, queue |-> q]
                        /\ reg' = [reg EXCEPT ![p] = r] /\ pc' = [pc EXCEPT ![p] = at]
                        /\ q # <<>>
                        /\ \/ at = "write queue" /\ ValidPriority(reg[p].items, q)
                           \/ at = "refused"
    <3>0. IdInv BY DEF DiskInv
    <3> QED BY <1>6, <3>0, RankChanges
  <2>2. r.queue = q BY <2>1
  <2>3. ~raced => reg[p].items = items BY <1>1 DEF DiskInv, CopyInv
  <2>4. OrderFits(at, cmd'[p], r) BY <1>2, <1>3, <1>6, <2>1, <2>2, <2>3 DEF OrderFits, InStep
  <2> QED BY <1>2, <2>1, <2>4, NewCopy, OrderStep
<1> QED BY <1>4, <1>5, <1>6

LEMMA EndsOrder ==
  ASSUME DiskInv, OrderInv, NEW p \in Procs, Reject(p) \/ Refuse(p) \/ Crash(p) PROVE OrderInv'
<1>1. /\ UNCHANGED <<items, queue, raced>> /\ Running(p)
      /\ pc' = [pc EXCEPT ![p] = "idle"] /\ reg' = [reg EXCEPT ![p] = NoRegistry]
      /\ torn \/ Cutting(p) => torn'
  <2>1. CASE Reject(p) BY <2>1 DEF Reject, End, files, Running, Cutting
  <2>2. CASE Refuse(p) BY <2>2 DEF Refuse, End, files, Running, Cutting
  <2>3. CASE Crash(p)
    <3>1. torn' = (torn \/ pc[p] = "write questions"
                        \/ (pc[p] = "write queue" /\ cmd[p] \notin RankCommands))
      BY <2>3 DEF Crash, RankCommands
    <3>2. torn \/ Cutting(p) => torn' BY <3>1, Zenon DEF Cutting
    <3> QED BY <2>3, <3>2 DEF Crash, End, files, Running
  <2> QED BY <2>1, <2>2, <2>3
<1> HIDE DEF NoRegistry
<1>2. OrderFits("idle", cmd'[p], NoRegistry) BY <1>1, SettledBut DEF OrderFits, OrderInv
<1> QED BY <1>1, <1>2, NewCopy, OrderStep

LEMMA WritesOrder ==
  ASSUME DiskInv, OrderInv, NEW p \in Procs, Writes(p) PROVE OrderInv'
<1>1. CASE WriteItems(p)
  <2>1. /\ pc[p] = "write items" /\ items' = reg[p].items
        /\ UNCHANGED <<queue, raced, torn, reg, cmd>>
        /\ pc' = [pc EXCEPT ![p] = "write questions"] /\ Running(p)
    BY <1>1 DEF WriteItems, Running
  <2>2. OrderFits("write questions", cmd'[p], reg[p]) BY <2>1 DEF OrderFits, OrderInv
  <2> QED BY <2>1, <2>2, OrderStep
<1>2. CASE WriteQuestions(p)
  <2>1. /\ pc[p] = "write questions" /\ UNCHANGED <<items, queue, raced, torn, reg, cmd>>
        /\ pc' = [pc EXCEPT ![p] = "write queue"] /\ Running(p)
    BY <1>2 DEF WriteQuestions, Running
  <2>2. OrderFits("write queue", cmd'[p], reg[p]) BY <2>1 DEF OrderFits, OrderInv
  <2> QED BY <2>1, <2>2, OrderStep
<1>3. CASE WriteQueue(p)
  <2>1. /\ pc[p] = "write queue" /\ queue' = reg[p].queue /\ UNCHANGED <<items, raced>>
        /\ pc' = [pc EXCEPT ![p] = "idle"] /\ reg' = [reg EXCEPT ![p] = NoRegistry]
        /\ Running(p)
    BY <1>3 DEF WriteQueue, Running
  <2> HIDE DEF NoRegistry
  <2>2. OrderFits("idle", cmd'[p], NoRegistry) BY <2>1 DEF OrderFits, OrderInv
  <2> QED BY <2>1, <2>2, NewCopy, OrderStep
<1> QED BY <1>1, <1>2, <1>3 DEF Writes

LEMMA BeginOrder ==
  ASSUME DiskInv, OrderInv, NEW p \in Procs, NEW c \in Commands, Begin(p, c) PROVE OrderInv'
<1>1. /\ UNCHANGED <<items, queue, reg, torn>> /\ (~raced' => ~raced)
      /\ pc' = [pc EXCEPT ![p] = "items"] /\ cmd' = [cmd EXCEPT ![p] = c] /\ pc[p] = "idle"
  BY DEF Begin, files, Running
<1>2. DOMAIN pc = Procs /\ DOMAIN cmd = Procs BY DEF DiskInv, LockInv
<1>3. \A q \in Procs : \/ pc'[q] = pc[q] /\ cmd'[q] = cmd[q]
                       \/ pc'[q] = "items" /\ pc[q] = "idle"
  BY <1>1, <1>2
<1>4. \A q \in Procs : Cutting(q) => Cutting(q)' BY <1>3 DEF Cutting
<1> QED BY <1>1, <1>3, <1>4 DEF OrderInv

LEMMA OrderInvHolds == Spec => []OrderInv
<1>1. Init => OrderInv
  <2> SUFFICES ASSUME Init PROVE OrderInv
    OBVIOUS
  <2>1. PICK s \in Seeds : items = s.items /\ queue = s.queue BY DEF Init
  <2>2. UmbrellasAreDerived(items) /\ InStep(items, queue) BY <2>1, SeedsAssumption DEF InStep
  <2>3. \A p \in Procs : pc[p] = "idle" BY DEF Init
  <2> QED BY <2>2, <2>3 DEF OrderInv
<1>2. DiskInv /\ OrderInv /\ [Next]_vars => OrderInv'
  <2> SUFFICES ASSUME DiskInv, OrderInv, [Next]_vars PROVE OrderInv'
    OBVIOUS
  <2>1. ASSUME NEW p \in Procs, NEW c \in Commands, Begin(p, c) PROVE OrderInv'
    BY <2>1, BeginOrder
  <2>2. ASSUME UNCHANGED <<items, queue, raced, torn, reg, pc, cmd>> PROVE OrderInv'
    BY <2>2 DEF OrderInv, Cutting
  <2>3. ASSUME NEW p \in Procs, NEW c \in Commands, GiveUp(p, c) PROVE OrderInv'
    BY <2>2, <2>3 DEF GiveUp, files, ghosts
  <2>4. ASSUME NEW p \in Procs, Step(p) PROVE OrderInv'
    BY <2>4, LoadsOrder, MutateOrder, EndsOrder, WritesOrder DEF Step, Writes
  <2>5. ASSUME NEW p \in Procs, Crash(p) PROVE OrderInv' BY <2>5, EndsOrder
  <2>6. CASE UNCHANGED vars BY <2>2, <2>6 DEF vars, files
  <2> QED BY <2>1, <2>3, <2>4, <2>5, <2>6 DEF Next
<1> QED BY <1>1, <1>2, DiskInvHolds, PTL DEF Spec

(* Whatever is cut short, no umbrella on disk is left with a status that    *)
(* its children contradict (applyAndCommit derives before it writes, and    *)
(* items.yaml is replaced as a whole).                                      *)
THEOREM UmbrellasAlwaysFollow == Spec => []UmbrellasFollowChildren
<1>1. OrderInv => UmbrellasFollowChildren BY DEF OrderInv, UmbrellasFollowChildren
<1> QED BY <1>1, OrderInvHolds, PTL

(* A settled queue passes the validator for the items on disk: each         *)
(* pullable item once, none before what it depends on. A commit that was    *)
(* cut short between items.yaml and priority.yaml is made good by the next  *)
(* one, a change of rank too (applyAndCommit, applyPriorityChange).         *)
THEOREM QueueAlwaysFollows == Spec => []QueueFollowsItems
<1>1. OrderInv => QueueFollowsItems
  BY DEF OrderInv, QueueIsSettled, Cutting, InStep, QueueFollowsItems
<1> QED BY <1>1, OrderInvHolds, PTL

-----------------------------------------------------------------------------
(* What is refused. *)
Cause(p) ==
  pc[p] = "refused" =>
    IF cmd[p] \in RankCommands THEN raced \/ torn
    ELSE ~ValidRegistry(reg[p].items, reg[p].questions) \/ ~LeavesAcyclic(reg[p].items)

(* One process goes on, and a commit that was cut short is not made good    *)
(* behind another's back while the lock is kept.                            *)
LEMMA CauseOfOthers ==
  ASSUME DiskInv, NEW p \in Procs, Running(p), NEW q \in Procs, q # p, Cause(q),
         pc'[q] = pc[q], cmd'[q] = cmd[q], reg'[q] = reg[q], raced' = raced
  PROVE  Cause(q)'
<1>1. CASE raced BY <1>1 DEF Cause
<1>2. CASE ~raced
  <2>1. pc[q] = "idle" BY <1>2, OthersIdle
  <2> QED BY <2>1 DEF Cause
<1> QED BY <1>1, <1>2

OnlyOf(p) == \A q \in Procs : q # p => cmd'[q] = cmd[q] /\ reg'[q] = reg[q]

LEMMA StepCause ==
  ASSUME DiskInv, \A q \in Procs : Cause(q), NEW p \in Procs, Running(p), raced' = raced,
         NEW at, pc' = [pc EXCEPT ![p] = at], NEW c, cmd'[p] = c, NEW r, reg'[p] = r,
         OnlyOf(p),
         at = "refused" => IF c \in RankCommands THEN raced \/ torn'
                           ELSE ~ValidRegistry(r.items, r.questions) \/ ~LeavesAcyclic(r.items),
         NEW q \in Procs
  PROVE  Cause(q)'
<1>1. DOMAIN pc = Procs BY DEF DiskInv, LockInv
<1>2. CASE q = p
  <2>1. pc'[q] = at /\ cmd'[q] = c /\ reg'[q] = r BY <1>1, <1>2
  <2> QED BY <2>1 DEF Cause
<1>3. CASE q # p
  <2>1. pc'[q] = pc[q] /\ cmd'[q] = cmd[q] /\ reg'[q] = reg[q] BY <1>1, <1>3 DEF OnlyOf
  <2> QED BY <1>3, <2>1, CauseOfOthers
<1> QED BY <1>2, <1>3

LEMMA MutateCause ==
  ASSUME DiskInv, OrderInv, \A q \in Procs : Cause(q), NEW p \in Procs, Mutate(p), NEW q \in Procs
  PROVE  Cause(q)'
<1>0. IdInv BY DEF DiskInv
<1>1. pc[p] = "loaded"
  BY DEF Mutate, AddItem, AddQuestion, Split, SetStatus, SetTitle, SetDesc, SetOwner, SetPR,
         DepAdd, DepRm, Answer, Prioritize, Move, Loaded
<1>2. UNCHANGED <<items, queue, raced, torn, cmd>> /\ Running(p) /\ ~Cutting(p)
  BY <1>1, MutateGoesOn DEF files, GoesOn, Cutting
<1>c. cmd'[p] = cmd[p] BY <1>2
<1>d. ASSUME NEW r, reg' = [reg EXCEPT ![p] = r] PROVE OnlyOf(p) /\ reg'[p] = r
  BY <1>2, <1>d DEF OnlyOf, DiskInv, IdInv, CopiesTyped
<1>4. \/ cmd[p] \notin RankCommands /\ Edited(p)
      \/ cmd[p] \in RankCommands /\ Reorders(p)
  BY <1>0, MutateEdits DEF IdInv
<1>5. CASE cmd[p] \notin RankCommands /\ Edited(p)
  <2>1. PICK new : Apply(p, new) /\ Edits(p, new) BY <1>5 DEF Edited
  <2> DEFINE r == Reconciled(new)
             at == IF Acceptable(r) THEN "write items" ELSE "refused"
  <2>2. reg' = [reg EXCEPT ![p] = r] /\ pc' = [pc EXCEPT ![p] = at] BY <2>1, Zenon DEF Apply
  <2>3. LeavesAcyclic(r.items) => ValidPriority(r.items, r.queue) BY <2>1, ReconciledIs DEF Edits
  <2> HIDE DEF r
  <2>4. at = "refused" => ~ValidRegistry(r.items, r.questions) \/ ~LeavesAcyclic(r.items)
    BY <2>3 DEF Acceptable
  <2> HIDE DEF at
  <2> QED BY <1>2, <1>5, <1>c, <1>d, <2>2, <2>4, StepCause
<1>6. CASE cmd[p] \in RankCommands /\ Reorders(p)
  <2>1. PICK order \in SeqIds : /\ ToSet(order) = ToSet(reg[p].queue) /\ order # <<>>
                                /\ ApplyPriorityChange(p, order)
    BY <1>6 DEF Reorders
  <2> DEFINE q1 == TopoRepairPriority(reg[p].items, order)
             r == [items |-> reg[p].items, questions |-> reg[p].questions, queue |-> q1]
             at == IF ValidPriority(reg[p].items, q1) THEN "write queue" ELSE "refused"
  <2>2. reg' = [reg EXCEPT ![p] = r] /\ pc' = [pc EXCEPT ![p] = at] BY <1>0, <2>1, ReorderedIs
  <2>3. ASSUME ~raced, ~torn PROVE at # "refused"
    <3>1. reg[p].items = items /\ reg[p].queue = queue BY <1>1, <2>3 DEF DiskInv, CopyInv
    <3>2. ValidPriority(items, queue) BY <1>2, <2>3, SettledBut DEF InStep
    <3>3. Tree(items) /\ DepsTyped(items) /\ queue \in SeqIds BY <1>0, IdFacts, ShapedIs DEF IsQueue
    <3>4. ToSet(order) # {} BY <2>1, SeqFacts DEF SeqIds
    <3>5. queue # <<>> /\ ToSet(order) = ToSet(queue) BY <2>1, <3>1, <3>4, EmptyQueue
    <3>6. ValidPriority(items, TopoRepairPriority(items, order))
      BY <2>1, <3>2, <3>3, <3>5, RankRepaired
    <3> QED BY <3>1, <3>6
  <2> HIDE DEF q1, r, at
  <2>4. at = "refused" => raced \/ torn' BY <1>2, <2>3
  <2> QED BY <1>2, <1>6, <1>c, <1>d, <2>2, <2>4, StepCause
<1> QED BY <1>4, <1>5, <1>6

LEMMA OtherCause ==
  ASSUME DiskInv, \A q \in Procs : Cause(q), NEW p \in Procs,
         \/ LoadItems(p) \/ LoadQuestions(p) \/ LoadQueue(p) \/ Writes(p)
         \/ Reject(p) \/ Refuse(p) \/ Crash(p),
         NEW q \in Procs
  PROVE  Cause(q)'
<1>1. raced' = raced /\ Running(p)
  BY DEF LoadItems, LoadQuestions, LoadQueue, Writes, WriteItems, WriteQuestions, WriteQueue,
         Reject, Refuse, Crash, ghosts, Running
<1>2. PICK at : pc' = [pc EXCEPT ![p] = at] /\ at # "refused"
  BY DEF LoadItems, LoadQuestions, LoadQueue, Writes, WriteItems, WriteQuestions, WriteQueue,
         Reject, Refuse, Crash, End
<1>3. OnlyOf(p)
  <2>1. cmd' = cmd \/ cmd' = [cmd EXCEPT ![p] = "none"]
    BY DEF LoadItems, LoadQuestions, LoadQueue, Writes, WriteItems, WriteQuestions, WriteQueue,
           Reject, Refuse, Crash, End
  <2>2. reg' = reg \/ \E r : reg' = [reg EXCEPT ![p] = r]
    BY DEF LoadItems, LoadQuestions, LoadQueue, Writes, WriteItems, WriteQuestions, WriteQueue,
           Reject, Refuse, Crash, End
  <2>3. DOMAIN cmd = Procs /\ DOMAIN reg = Procs BY DEF DiskInv, LockInv, IdInv, CopiesTyped
  <2> QED BY <2>1, <2>2, <2>3 DEF OnlyOf
<1> QED BY <1>1, <1>2, <1>3, StepCause

LEMMA BeginCause ==
  ASSUME DiskInv, NEW q \in Procs, Cause(q), NEW p \in Procs, NEW c \in Commands, Begin(p, c)
  PROVE  Cause(q)'
<1>1. /\ UNCHANGED <<reg, torn>> /\ (raced => raced') /\ pc[p] = "idle"
      /\ pc' = [pc EXCEPT ![p] = "items"] /\ cmd' = [cmd EXCEPT ![p] = c]
  BY DEF Begin, Running
<1>2. DOMAIN pc = Procs /\ DOMAIN cmd = Procs BY DEF DiskInv, LockInv
<1>3. \/ pc'[q] = pc[q] /\ cmd'[q] = cmd[q]
     \/ pc'[q] = "items"
  BY <1>1, <1>2
<1> QED BY <1>1, <1>3 DEF Cause

LEMMA CauseHolds == Spec => [](\A p \in Procs : Cause(p))
<1> DEFINE Causes == \A p \in Procs : Cause(p)
<1>1. Init => Causes BY DEF Init, Cause
<1>2. DiskInv /\ OrderInv /\ Causes /\ [Next]_vars => Causes'
  <2> SUFFICES ASSUME DiskInv, OrderInv, \A p \in Procs : Cause(p), [Next]_vars, NEW q \in Procs
               PROVE  Cause(q)'
    OBVIOUS
  <2>1. ASSUME NEW p \in Procs, NEW c \in Commands, Begin(p, c) PROVE Cause(q)' BY <2>1, BeginCause
  <2>2. ASSUME UNCHANGED <<raced, torn, reg, pc, cmd>> PROVE Cause(q)' BY <2>2 DEF Cause
  <2>3. ASSUME NEW p \in Procs, NEW c \in Commands, GiveUp(p, c) PROVE Cause(q)'
    BY <2>2, <2>3 DEF GiveUp, ghosts
  <2>4. ASSUME NEW p \in Procs, Step(p) PROVE Cause(q)'
    BY <2>4, OtherCause, MutateCause DEF Step, Writes
  <2>5. ASSUME NEW p \in Procs, Crash(p) PROVE Cause(q)' BY <2>5, OtherCause
  <2>6. CASE UNCHANGED vars BY <2>2, <2>6 DEF vars
  <2> QED BY <2>1, <2>3, <2>4, <2>5, <2>6 DEF Next
<1> QED BY <1>1, <1>2, DiskInvHolds, OrderInvHolds, PTL DEF Spec

(* A commit is refused only for what its items are: records the validator  *)
(* does not accept, or dependencies that go in a circle; otherwise the     *)
(* rebuilt queue always passes (reconcilePriority repairs before           *)
(* validatePriority judges). A change of rank is refused only while a      *)
(* commit lies cut short.                                                  *)
THEOREM RefusalsHaveCause == Spec => []RefusedForCause
<1>1. (\A p \in Procs : Cause(p)) => RefusedForCause BY DEF Cause, RefusedForCause, RankCommands
<1> QED BY <1>1, CauseHolds, PTL

-----------------------------------------------------------------------------
(* What a queue in order says of its entries. *)

LEMMA HeadWaits ==
  ASSUME NEW its, Shaped(its), NEW q \in SeqIds, q # <<>>, ValidPriority(its, q),
         NEW dep \in ToSet(its[Head(q)].deps)
  PROVE  ToSet(ExpandDepTarget(its, ToSet(q), dep)) \subseteq {Head(q)}
<1> DEFINE P == PullableItems(its)
           rank(id) == CHOOSE k \in DOMAIN q : q[k] = id
<1>1. /\ IsInjective(q) /\ ToSet(q) = P
      /\ \A x \in P : \A y \in ToSet(Prerequisites(its, P, x)) : rank(x) >= rank(y)
  BY Zenon DEF ValidPriority
<1>2. Len(q) \in Nat /\ DOMAIN q = 1 .. Len(q) /\ 1 \in 1 .. Len(q) /\ Head(q) = q[1]
  BY SeqFacts DEF SeqIds
<1>3. q[1] \in P /\ P \subseteq DOMAIN its
  <2>1. q[1] \in ToSet(q) BY <1>2 DEF ToSet
  <2>2. P \subseteq DOMAIN its BY DEF PullableItems
  <2> QED BY <1>1, <2>1, <2>2
<1>4. Tree(its) /\ its[q[1]].deps \in Seq(Seq(Nat)) BY <1>3, ShapedIs DEF DepsTyped
<1>r. ASSUME NEW k \in 1 .. Len(q) PROVE rank(q[k]) = k BY <1>1, RankIs DEF SeqIds
<1> HIDE DEF P, rank
<1>5. /\ Prerequisites(its, P, q[1]) \in Seq(P \cap DOMAIN its)
      /\ ToSet(ExpandDepTarget(its, P, dep)) \subseteq ToSet(Prerequisites(its, P, q[1]))
  <2>1. dep \in ToSet(its[q[1]].deps) BY <1>2
  <2> QED BY <1>4, <2>1, PrerequisitesAre
<1>6. ASSUME NEW y \in ToSet(Prerequisites(its, P, q[1])) PROVE y = q[1]
  <2>1. y \in P BY <1>5, SeqFacts
  <2>2. PICK k \in 1 .. Len(q) : y = q[k] BY <1>1, <1>2, <2>1 DEF ToSet
  <2>3. rank(q[1]) >= rank(y) BY <1>1, <1>3, <1>6
  <2>4. 1 >= k BY <1>2, <1>r, <2>2, <2>3
  <2> QED BY <2>2, <2>4
<1> QED BY <1>1, <1>2, <1>5, <1>6

(* The first entry of a settled queue waits for no other entry: a commit or *)
(* a change of rank that would leave it behind what it depends on, directly *)
(* or through an umbrella, is repaired first (topoRepairPriority).          *)
THEOREM HeadNeverWaits == Spec => []HeadWaitsForNoEntry
<1>1. DiskInv /\ QueueFollowsItems => HeadWaitsForNoEntry
  <2> SUFFICES ASSUME DiskInv, QueueFollowsItems, QueueIsSettled, queue # <<>>,
                      NEW dep \in Unsatisfied(items, questions, Head(queue))
               PROVE  ToSet(ExpandDepTarget(items, ToSet(queue), dep)) \subseteq {Head(queue)}
    BY DEF HeadWaitsForNoEntry
  <2>1. ValidPriority(items, queue) BY DEF QueueFollowsItems
  <2>2. Shaped(items) /\ queue \in SeqIds BY DEF DiskInv, IdInv, CopiesTyped, IsQueue
  <2>3. dep \in ToSet(items[Head(queue)].deps) BY DEF Unsatisfied
  <2> QED BY <2>1, <2>2, <2>3, HeadWaits
<1> QED BY <1>1, DiskInvHolds, QueueAlwaysFollows, PTL

LEMMA OccursIs == ASSUME NEW id, NEW s PROVE Occurs(id, s) <=> id \in ToSet(s)
BY DEF Occurs, ToSet

LEMMA GateMirrors ==
  ASSUME NEW its, NEW qs, NEW q \in SeqIds, ToSet(q) = PullableItems(its), NEW id \in ToSet(q)
  PROVE  LET kind == Gate(its, qs, id).kind IN
         /\ Occurs(id, Ready(its, qs, q, FALSE)) <=> kind = "ready"
         /\ Occurs(id, Ready(its, qs, q, TRUE)) <=> kind \in {"ready", "pete"}
<1> DEFINE ready == {x \in PullableItems(its) : /\ its[x].status # "IN_PROGRESS"
                                                /\ Unsatisfied(its, qs, x) = {}}
           petes == {x \in ready : its[x].owner = "pete"}
           kind == Gate(its, qs, id).kind
<1>1. q # <<>> BY EmptyQueue
<1>2. /\ Ready(its, qs, q, FALSE) = <<>> \o Among(q, ready \ petes)
      /\ Ready(its, qs, q, TRUE) = Among(q, petes) \o Among(q, ready \ petes)
  BY <1>1, Zenon DEF Ready
<1>3. /\ kind = "ready" <=> id \in ready \ petes
      /\ kind = "pete" <=> id \in petes
  <2> DEFINE blockers == {dep \in ToSet(its[id].deps) : ~ GateSatisfied(its, qs, dep)}
  <2>0. blockers = Unsatisfied(its, qs, id) BY DEF Unsatisfied, DepSatisfied, GateSatisfied
  <2>1. CASE its[id].status = "IN_PROGRESS"
    <3>1. kind = "in-progress" BY <2>1 DEF Gate
    <3> QED BY <2>1, <3>1
  <2>2. CASE its[id].status # "IN_PROGRESS" /\ Unsatisfied(its, qs, id) = {}
    <3>1. blockers = {} BY <2>0, <2>2
    <3>2. kind = IF its[id].owner = "pete" THEN "pete" ELSE "ready" BY <2>2, <3>1 DEF Gate
    <3>3. id \in ready BY <2>2
    <3> QED BY <3>2, <3>3
  <2>3. CASE its[id].status # "IN_PROGRESS" /\ Unsatisfied(its, qs, id) # {}
    <3>0. blockers # {} BY <2>0, <2>3
    <3>1. kind \in {"questions", "work"} BY <2>3, <3>0 DEF Gate
    <3> QED BY <2>3, <3>1
  <2> QED BY <2>1, <2>2, <2>3
<1> HIDE DEF ready, petes, kind
<1>4. PICK a, b : a = Among(q, petes) /\ b = Among(q, ready \ petes) OBVIOUS
<1>5. /\ a \in SeqIds /\ ToSet(a) = ToSet(q) \cap petes
      /\ b \in SeqIds /\ ToSet(b) = ToSet(q) \cap (ready \ petes)
  BY <1>4, AmongIs DEF SeqIds
<1>6. ToSet(a \o b) = ToSet(a) \cup ToSet(b) BY <1>5, SeqConcat DEF SeqIds
<1>7. <<>> \o b = b BY <1>5 DEF SeqIds
<1>8. Occurs(id, Ready(its, qs, q, FALSE)) <=> id \in ToSet(b) BY <1>2, <1>4, <1>7, OccursIs
<1>9. Occurs(id, Ready(its, qs, q, TRUE)) <=> id \in ToSet(a) \cup ToSet(b) BY <1>2, <1>4, <1>6, OccursIs
<1>10. id \in petes => kind # "ready" BY <1>3
<1> QED BY <1>3, <1>5, <1>8, <1>9 DEF kind

(* What the gate column shows of an entry of a settled queue is what        *)
(* `ready' says of it, with and without Pete (computeGates and readyList).  *)
THEOREM GatesAlwaysMirror == Spec => []GatesMirrorReady
<1>1. DiskInv /\ QueueFollowsItems => GatesMirrorReady
  <2> SUFFICES ASSUME DiskInv, QueueFollowsItems, QueueIsSettled, NEW id \in ToSet(queue)
               PROVE  LET kind == Gate(items, questions, id).kind IN
                      /\ Occurs(id, Ready(items, questions, queue, FALSE)) <=> kind = "ready"
                      /\ Occurs(id, Ready(items, questions, queue, TRUE)) <=> kind \in {"ready", "pete"}
    BY DEF GatesMirrorReady
  <2>1. queue # <<>> BY EmptyQueue
  <2>2. ToSet(queue) = PullableItems(items) BY <2>1, Zenon DEF QueueFollowsItems, ValidPriority
  <2>3. queue \in SeqIds BY DEF DiskInv, IdInv, CopiesTyped, IsQueue
  <2> QED BY <2>2, <2>3, GateMirrors
<1> QED BY <1>1, DiskInvHolds, QueueAlwaysFollows, PTL
-----------------------------------------------------------------------------
(* Types. *)
ControlOK ==
  /\ lock \in Procs \cup {Nobody}
  /\ pc \in [Procs -> PcValues]
  /\ cmd \in [Procs -> Commands \cup {"none"}]
  /\ begun \in 0 .. MaxCommands /\ crashes \in 0 .. MaxCrashes
  /\ stale \subseteq Procs /\ raced \in BOOLEAN /\ torn \in BOOLEAN

LEMMA BoundsAre == MaxCommands \in Nat /\ MaxCrashes \in Nat
BY BoundsAssumption

LEMMA OneMore == ASSUME NEW n \in Nat, NEW c \in 0 .. n, c < n PROVE c + 1 \in 0 .. n
OBVIOUS

LEMMA MutateControl ==
  ASSUME ControlOK, NEW p \in Procs, Mutate(p) PROVE ControlOK'
<1>1. GoesOn(p) BY MutateGoesOn
<1>2. UNCHANGED <<begun, crashes>>
  <2>1. ASSUME NEW new, Apply(p, new) PROVE UNCHANGED <<begun, crashes>> BY <2>1 DEF Apply
  <2>2. ASSUME NEW order, ApplyPriorityChange(p, order) PROVE UNCHANGED <<begun, crashes>>
    BY <2>2 DEF ApplyPriorityChange
  <2>3. (\E new : Apply(p, new)) \/ (\E order : ApplyPriorityChange(p, order))
    <3>1. CASE AddItem(p) \/ AddQuestion(p) \/ Split(p)
      <4>1. CASE AddItem(p) BY <4>1, Zenon DEF AddItem
      <4>2. CASE AddQuestion(p) BY <4>2, Zenon DEF AddQuestion
      <4>3. CASE Split(p) BY <4>3, Zenon DEF Split
      <4> QED BY <3>1, <4>1, <4>2, <4>3
    <3>2. CASE SetStatus(p) \/ SetTitle(p) \/ SetDesc(p) \/ SetOwner(p) \/ SetPR(p)
      BY <3>2, Zenon DEF SetStatus, SetTitle, SetDesc, SetOwner, SetPR, Change
    <3>3. CASE DepAdd(p) \/ DepRm(p) \/ Answer(p)
      BY <3>3, Zenon DEF DepAdd, DepRm, Answer, Change
    <3>4. CASE Prioritize(p) \/ Move(p) BY <3>4, Zenon DEF Prioritize, Move
    <3> QED BY <3>1, <3>2, <3>3, <3>4, Zenon DEF Mutate
  <2> QED BY <2>1, <2>2, <2>3
<1> QED BY <1>1, <1>2 DEF ControlOK, GoesOn

LEMMA StepControl ==
  ASSUME ControlOK, NEW p \in Procs, Step(p) \/ Crash(p) PROVE ControlOK'
<1> USE DEF ControlOK, PcValues, files, ghosts
<1>1. CASE LoadItems(p) BY <1>1 DEF LoadItems
<1>2. CASE LoadQuestions(p) BY <1>2 DEF LoadQuestions
<1>3. CASE LoadQueue(p) BY <1>3 DEF LoadQueue
<1>4. CASE Mutate(p) BY <1>4, MutateControl
<1>5. CASE Reject(p) BY <1>5 DEF Reject, End
<1>6. CASE Refuse(p) BY <1>6 DEF Refuse, End
<1>7. CASE WriteItems(p) BY <1>7 DEF WriteItems, Overtaken
<1>8. CASE WriteQuestions(p) BY <1>8 DEF WriteQuestions, Overtaken
<1>9. CASE WriteQueue(p) BY <1>9 DEF WriteQueue, Overtaken
<1>10. CASE Crash(p)
  <2>1. crashes' \in 0 .. MaxCrashes
    <3>1. crashes \in 0 .. MaxCrashes /\ crashes < MaxCrashes /\ crashes' = crashes + 1 BY <1>10 DEF Crash
    <3>2. crashes + 1 \in 0 .. MaxCrashes BY <3>1, BoundsAre, OneMore
    <3> QED BY <3>1, <3>2
  <2>2. torn' \in BOOLEAN BY <1>10 DEF Crash
  <2> QED BY <1>10, <2>1, <2>2 DEF Crash, End
<1> QED BY <1>1, <1>2, <1>3, <1>4, <1>5, <1>6, <1>7, <1>8, <1>9, <1>10 DEF Step

LEMMA ControlHolds == Spec => []ControlOK
<1>1. Init => ControlOK
  <2> SUFFICES ASSUME Init PROVE ControlOK
    OBVIOUS
  <2>1. begun \in 0 .. MaxCommands /\ crashes \in 0 .. MaxCrashes BY BoundsAre DEF Init
  <2>2. pc \in [Procs -> PcValues] /\ cmd \in [Procs -> Commands \cup {"none"}] BY DEF Init, PcValues
  <2>3. stale \subseteq Procs /\ raced \in BOOLEAN /\ torn \in BOOLEAN BY DEF Init
  <2>4. lock = Nobody BY DEF Init
  <2> QED BY <2>1, <2>2, <2>3, <2>4 DEF ControlOK
<1>2. ControlOK /\ [Next]_vars => ControlOK'
  <2> SUFFICES ASSUME ControlOK, [Next]_vars PROVE ControlOK'
    OBVIOUS
  <2>1. ASSUME NEW p \in Procs, NEW c \in Commands, Begin(p, c) PROVE ControlOK'
    <3>1. begun' \in 0 .. MaxCommands BY <2>1, BoundsAre DEF Begin, ControlOK
    <3>2. raced' \in BOOLEAN BY <2>1 DEF Begin
    <3> QED BY <2>1, <3>1, <3>2 DEF Begin, ControlOK, PcValues, files
  <2>2. ASSUME NEW p \in Procs, NEW c \in Commands, GiveUp(p, c) PROVE ControlOK'
    BY <2>2, BoundsAre DEF GiveUp, ControlOK, files, ghosts
  <2>3. ASSUME NEW p \in Procs, Step(p) \/ Crash(p) PROVE ControlOK' BY <2>3, StepControl
  <2>4. CASE UNCHANGED vars BY <2>4 DEF vars, ControlOK
  <2> QED BY <2>1, <2>2, <2>3, <2>4 DEF Next
<1> QED BY <1>1, <1>2, PTL DEF Spec

(* The files and the copies hold records of the schema, whatever the        *)
(* commands do and wherever one is killed.                                  *)
THEOREM TypeCorrect == Spec => []TypeOK
<1>1. ControlOK /\ IdInv => TypeOK
  <2> SUFFICES ASSUME ControlOK, IdInv PROVE TypeOK
    OBVIOUS
  <2>1. ToSet(ledger) \subseteq Ids /\ ledger \in Seq(Ids)
    BY SeqFacts DEF IdInv, LedgerInv, LedgerTyped, Ids
  <2>2. IsItems(items) /\ questions \subseteq Ids /\ queue \in Seq(Ids)
    BY <2>1 DEF IdInv, CopiesTyped, LedgerInv, Shaped, IsQueue, SeqIds, Ids
  <2>3. ASSUME NEW p \in Procs
        PROVE  IsItems(reg[p].items) /\ reg[p].questions \subseteq Ids /\ reg[p].queue \in Seq(Ids)
    BY <2>1, IdFacts DEF Shaped, IsQueue, SeqIds, Ids, KnownIds
  <2> QED BY <2>1, <2>2, <2>3 DEF TypeOK, ControlOK
<1> QED BY <1>1, ControlHolds, IdInvHolds, PTL
-----------------------------------------------------------------------------
(* What the repair keeps of the ranking: x stands before y in the list it  *)
(* is given, and the walk leaves y first only for something that needs y   *)
(* and is not behind x for its own sake.                                   *)
NeedsPast(needs, U, z, y) ==
  \A C \in SUBSET U : FirstSet(needs, z) \subseteq C /\ (\A u \in C : FirstSet(needs, u) \subseteq C) => y \in C

Leads(q, x, y) == \A j \in 1 .. Len(q) : q[j] = y => \E i \in 1 .. Len(q) : i < j /\ q[i] = x

(* What is to be done about y in its own place comes after x.              *)
WaitsForX(x, y, s) ==
  \A j \in 1 .. Len(s.todo) :
    s.todo[j].id = y /\ (\A i \in 1 .. Len(s.todo) : j < i => s.todo[i].at # "leave") =>
      x \in s.seen \/ \E i \in 1 .. Len(s.todo) : i < j /\ s.todo[i] = ToEnter(x)

(* If y has been left and x has not, something that needs y is on its way. *)
OnItsWay(needs, U, y, s) ==
  \E z \in U : /\ NeedsPast(needs, U, z, y)
               /\ z \in ToSet(s.out) \/ \E j \in 1 .. Len(s.todo) : s.todo[j] = ToLeave(z)

CalledFor(needs, U, x, y, s) ==
  y \in ToSet(s.out) /\ x \notin ToSet(s.out) => OnItsWay(needs, U, y, s)

(* And that something has come, or needs x too, when x is left.            *)
Excuse(needs, U, x, y, out, j) ==
  \E z \in U : /\ NeedsPast(needs, U, z, y)
               /\ (\E m \in 1 .. Len(out) : m <= j /\ out[m] = z) \/ NeedsPast(needs, U, z, x)

Excused(needs, U, x, y, out) ==
  \A i, j \in 1 .. Len(out) : i < j /\ out[i] = y /\ out[j] = x => Excuse(needs, U, x, y, out, j)

RankInv(needs, U, x, y, s) ==
  WaitsForX(x, y, s) /\ CalledFor(needs, U, x, y, s) /\ Excused(needs, U, x, y, s.out)

LEMMA ReachPast ==
  ASSUME NEW needs, NEW U, NeedsIn(needs, U), NEW z \in U, NEW y, Reach(needs, U, z, y), z # y
  PROVE  NeedsPast(needs, U, z, y)
<1>1. PICK u \in FirstSet(needs, z) : Reach(needs, U, u, y) BY ReachSteps
<1> QED BY <1>1, Zenon DEF Reach, NeedsPast

(* A pop.                                                                  *)
LEMMA PopWaits ==
  ASSUME NEW x, NEW y, NEW s, NEW t, WaitsForX(x, y, s), Popped(s, t), t.seen = s.seen,
         s.todo[1] = ToEnter(x) => x \in s.seen
  PROVE  WaitsForX(x, y, t)
<1>1. /\ \A i \in 1 .. Len(t.todo) : i + 1 \in 1 .. Len(s.todo) /\ t.todo[i] = s.todo[i + 1]
      /\ \A j \in 1 .. Len(s.todo) : j # 1 =>
              \E i \in 1 .. Len(t.todo) : i + 1 = j /\ t.todo[i] = s.todo[j]
  BY PopIndex
<1> SUFFICES ASSUME NEW j \in 1 .. Len(t.todo), t.todo[j].id = y,
                    \A i \in 1 .. Len(t.todo) : j < i => t.todo[i].at # "leave", x \notin t.seen
             PROVE  \E i \in 1 .. Len(t.todo) : i < j /\ t.todo[i] = ToEnter(x)
  BY DEF WaitsForX
<1>2. j + 1 \in 1 .. Len(s.todo) /\ s.todo[j + 1].id = y BY <1>1
<1>3. ASSUME NEW k \in 1 .. Len(s.todo), j + 1 < k PROVE s.todo[k].at # "leave"
  <2>1. PICK i \in 1 .. Len(t.todo) : i + 1 = k /\ t.todo[i] = s.todo[k]
    <3>1. k # 1 BY <1>3
    <3> QED BY <1>1, <3>1
  <2>2. j < i BY <1>3, <2>1
  <2> QED BY <2>1, <2>2
<1>4. PICK k \in 1 .. Len(s.todo) : k < j + 1 /\ s.todo[k] = ToEnter(x)
  BY <1>2, <1>3 DEF WaitsForX
<1>5. k # 1 BY <1>4
<1>6. PICK i \in 1 .. Len(t.todo) : i + 1 = k /\ t.todo[i] = s.todo[k] BY <1>1, <1>5
<1>7. i < j BY <1>4, <1>6
<1> QED BY <1>4, <1>6, <1>7

LEMMA PassKeepsRank ==
  ASSUME NEW needs, NEW U, NEW s, NEW t, WalkInv(needs, U, s), s.todo # <<>>,
         NEW v \in U, Passes(v, s, t), NEW x, NEW y, RankInv(needs, U, x, y, s)
  PROVE  RankInv(needs, U, x, y, t)
<1>1. t.todo = Tail(s.todo) /\ t.seen = s.seen /\ t.out = s.out BY DEF Passes
<1>2. Popped(s, t) BY <1>1, PoppedIs DEF WalkInv
<1>3. s.todo[1] = ToEnter(v) /\ v \in s.seen BY DEF Passes
<1>4. WaitsForX(x, y, t)
  <2>1. s.todo[1] = ToEnter(x) => x \in s.seen BY <1>3 DEF ToEnter
  <2>2. WaitsForX(x, y, s) BY DEF RankInv
  <2> QED BY <1>1, <1>2, <2>1, <2>2, PopWaits
<1>5. CalledFor(needs, U, x, y, t)
  <2> SUFFICES ASSUME y \in ToSet(t.out), x \notin ToSet(t.out)
               PROVE  OnItsWay(needs, U, y, t)
    BY DEF CalledFor
  <2>1. PICK z \in U : /\ NeedsPast(needs, U, z, y)
                       /\ z \in ToSet(s.out) \/ \E j \in 1 .. Len(s.todo) : s.todo[j] = ToLeave(z)
    BY <1>1, Zenon DEF RankInv, CalledFor, OnItsWay
  <2>2. CASE z \in ToSet(s.out) BY <1>1, <2>1, <2>2 DEF OnItsWay
  <2>3. ASSUME NEW j \in 1 .. Len(s.todo), s.todo[j] = ToLeave(z)
        PROVE  \E i \in 1 .. Len(t.todo) : t.todo[i] = ToLeave(z)
    <3>1. j # 1 BY <1>3, <2>3 DEF ToEnter, ToLeave
    <3> QED BY <1>2, <2>3, <3>1, PopIndex
  <2> QED BY <2>1, <2>2, <2>3 DEF OnItsWay
<1>6. Excused(needs, U, x, y, t.out) BY <1>1 DEF RankInv
<1> QED BY <1>4, <1>5, <1>6 DEF RankInv

LEMMA EnterKeepsRank ==
  ASSUME NEW needs, NEW U, NeedsIn(needs, U), NEW s, NEW t, WalkInv(needs, U, s), s.todo # <<>>,
         NEW v \in U, Enters(needs, v, s, t), NEW x, NEW y, RankInv(needs, U, x, y, s)
  PROVE  RankInv(needs, U, x, y, t)
<1> DEFINE nd == First(needs, v)
           a == Len(nd)
<1>1. t.todo = Enter(nd) \o (<<ToLeave(v)>> \o Tail(s.todo)) /\ t.seen = s.seen \cup {v} /\ t.out = s.out
  BY DEF Enters
<1>2. nd \in Seq(U) BY FirstFits DEF NeedsIn
<1> HIDE DEF nd
<1>3. s.todo[1] = ToEnter(v) /\ v \notin s.seen BY DEF Enters
<1>4. Pushed(s, t, nd, v)
  <2>1. WalkTyped(U, s) BY DEF WalkInv
  <2> QED BY <1>1, <1>2, <2>1, PushedIs
<1>i. PushIndexes(s, t, nd, v, a) BY <1>4, PushIndex
<1>5. /\ \A j \in 1 .. Len(t.todo) :
              \/ j \in 1 .. a /\ t.todo[j] = ToEnter(nd[j])
              \/ j = a + 1 /\ t.todo[j] = ToLeave(v)
              \/ \E i \in 2 .. Len(s.todo) : j = a + i /\ t.todo[j] = s.todo[i]
      /\ \A i \in 1 .. Len(s.todo) : i # 1 =>
              i \in 2 .. Len(s.todo) /\ a + i \in 1 .. Len(t.todo) /\ t.todo[a + i] = s.todo[i]
      /\ a + 1 \in 1 .. Len(t.todo) /\ t.todo[a + 1] = ToLeave(v)
      /\ \A i \in 1 .. a : i \in 1 .. Len(t.todo) /\ t.todo[i] = ToEnter(nd[i]) /\ i < a + 1
      /\ 2 .. Len(s.todo) \subseteq 1 .. Len(s.todo) /\ 1 \in 1 .. Len(s.todo)
  BY <1>i DEF PushIndexes
<1>6. a \in Nat /\ Len(s.todo) \in Nat BY <1>4 DEF Pushed
<1> HIDE DEF a
<1>at. \A u : ToEnter(u).at = "enter" /\ ToLeave(u).at = "leave" /\ ToEnter(u).id = u /\ ToLeave(u).id = u
  BY DEF ToEnter, ToLeave
<1>7. WaitsForX(x, y, t)
  <2> SUFFICES ASSUME NEW j \in 1 .. Len(t.todo), t.todo[j].id = y,
                      \A i \in 1 .. Len(t.todo) : j < i => t.todo[i].at # "leave", x \notin t.seen
               PROVE  \E i \in 1 .. Len(t.todo) : i < j /\ t.todo[i] = ToEnter(x)
    BY DEF WaitsForX
  <2>0. WaitsForX(x, y, s) BY DEF RankInv
  <2>1. x \notin s.seen /\ x # v BY <1>1
  <2>2. ASSUME NEW k \in 2 .. Len(s.todo), j < a + k PROVE s.todo[k].at # "leave"
    <3>1. k \in 1 .. Len(s.todo) /\ k # 1 BY <1>5
    <3>2. a + k \in 1 .. Len(t.todo) /\ t.todo[a + k] = s.todo[k] BY <1>5, <3>1
    <3> QED BY <2>2, <3>2
  <2>3. CASE j \in 1 .. a
    <3>1. j < a + 1 BY <1>5, <2>3
    <3> QED BY <1>5, <1>at, <3>1
  <2>4. CASE j = a + 1
    <3>1. s.todo[1].id = y BY <1>3, <1>5, <1>at, <2>4
    <3>2. ASSUME NEW k \in 1 .. Len(s.todo), 1 < k PROVE s.todo[k].at # "leave"
      <4>1. k \in 2 .. Len(s.todo) /\ j < a + k BY <1>6, <2>4, <3>2
      <4> QED BY <2>2, <4>1
    <3>3. PICK i \in 1 .. Len(s.todo) : i < 1 BY <1>5, <2>0, <2>1, <3>1, <3>2 DEF WaitsForX
    <3> QED BY <3>3
  <2>5. CASE \E k \in 2 .. Len(s.todo) : j = a + k /\ t.todo[j] = s.todo[k]
    <3>1. PICK k \in 2 .. Len(s.todo) : j = a + k /\ t.todo[j] = s.todo[k] BY <2>5
    <3>2. k \in 1 .. Len(s.todo) /\ s.todo[k].id = y BY <1>5, <3>1
    <3>3. ASSUME NEW l \in 1 .. Len(s.todo), k < l PROVE s.todo[l].at # "leave"
      <4>1. l \in 2 .. Len(s.todo) /\ j < a + l BY <1>6, <3>1, <3>3
      <4> QED BY <2>2, <4>1
    <3>4. PICK i \in 1 .. Len(s.todo) : i < k /\ s.todo[i] = ToEnter(x)
      BY <2>0, <2>1, <3>2, <3>3 DEF WaitsForX
    <3>5. i # 1 BY <1>3, <1>at, <2>1, <3>4
    <3>6. a + i \in 1 .. Len(t.todo) /\ t.todo[a + i] = s.todo[i] BY <1>5, <3>5
    <3>7. a + i < j BY <1>6, <3>1, <3>4
    <3> QED BY <3>4, <3>6, <3>7
  <2> QED BY <1>5, <2>3, <2>4, <2>5
<1>8. CalledFor(needs, U, x, y, t)
  <2> SUFFICES ASSUME y \in ToSet(t.out), x \notin ToSet(t.out)
               PROVE  OnItsWay(needs, U, y, t)
    BY DEF CalledFor
  <2>1. PICK z \in U : /\ NeedsPast(needs, U, z, y)
                       /\ z \in ToSet(s.out) \/ \E j \in 1 .. Len(s.todo) : s.todo[j] = ToLeave(z)
    BY <1>1, Zenon DEF RankInv, CalledFor, OnItsWay
  <2>2. CASE z \in ToSet(s.out) BY <1>1, <2>1, <2>2 DEF OnItsWay
  <2>3. ASSUME NEW j \in 1 .. Len(s.todo), s.todo[j] = ToLeave(z)
        PROVE  \E i \in 1 .. Len(t.todo) : t.todo[i] = ToLeave(z)
    <3>1. j # 1 BY <1>3, <2>3 DEF ToEnter, ToLeave
    <3> QED BY <1>5, <2>3, <3>1
  <2> QED BY <2>1, <2>2, <2>3 DEF OnItsWay
<1>9. Excused(needs, U, x, y, t.out) BY <1>1 DEF RankInv
<1> QED BY <1>7, <1>8, <1>9 DEF RankInv

LEMMA LeaveKeepsRank ==
  ASSUME NEW needs, NEW U, NeedsIn(needs, U), NEW s, NEW t, WalkInv(needs, U, s), s.todo # <<>>,
         NEW v \in U, Leaves(v, s, t), NEW x, NEW y, x # y, RankInv(needs, U, x, y, s)
  PROVE  RankInv(needs, U, x, y, t)
<1>1. t.todo = Tail(s.todo) /\ t.seen = s.seen /\ t.out = Append(s.out, v) /\ s.todo[1] = ToLeave(v)
  BY DEF Leaves
<1>2. Popped(s, t) BY <1>1, PoppedIs DEF WalkInv
<1>3. \A j \in 1 .. Len(s.todo) : j # 1 => \E i \in 1 .. Len(t.todo) : i + 1 = j /\ t.todo[i] = s.todo[j]
  BY <1>2, PopIndex
<1>0. s.out \in Seq(U) BY DEF WalkInv, WalkTyped
<1>a. t.out \in Seq(U) /\ ToSet(t.out) = ToSet(s.out) \cup {v} BY <1>0, <1>1, SeqAppend
<1>b. /\ Len(s.out) \in Nat /\ DOMAIN s.out = 1 .. Len(s.out)
      /\ Len(t.out) = Len(s.out) + 1 /\ t.out[Len(s.out) + 1] = v
      /\ \A k \in 1 .. Len(s.out) : t.out[k] = s.out[k]
  BY <1>0, <1>1
<1>at. \A u : ToEnter(u).at = "enter" /\ ToLeave(u).at = "leave" /\ ToEnter(u).id = u /\ ToLeave(u).id = u
  BY DEF ToEnter, ToLeave
<1>i. 1 \in 1 .. Len(s.todo) /\ Len(s.todo) \in Nat BY <1>2 DEF Popped
<1>l. LeftOnce(s) BY DEF WalkInv
<1>e. \A j \in 1 .. Len(s.todo) : s.todo[j].at = "leave" => s.todo[j] = ToLeave(s.todo[j].id) /\ s.todo[j].id \in U
  <2>1. s.todo \in Seq(Entries(U)) BY DEF WalkInv, WalkTyped
  <2>2. \A j \in 1 .. Len(s.todo) : s.todo[j] \in Entries(U) BY <2>1, SeqFacts
  <2> QED BY <2>2 DEF Entries, ToLeave
<1>4. WaitsForX(x, y, t)
  <2>1. s.todo[1] # ToEnter(x) BY <1>1, <1>at
  <2>2. WaitsForX(x, y, s) BY DEF RankInv
  <2> QED BY <1>1, <1>2, <2>1, <2>2, PopWaits
(* An entry that is to be left below v needs v. *)
<1>5. ASSUME NEW j \in 1 .. Len(s.todo), s.todo[j] = ToLeave(s.todo[j].id), j # 1
      PROVE  s.todo[j].id \in U /\ NeedsPast(needs, U, s.todo[j].id, v)
  <2>1. s.todo[j].at = "leave" BY <1>5, <1>at
  <2>2. s.todo[j].id \in U BY <1>e, <2>1
  <2>3. 1 < j BY <1>5
  <2>4. AboveIsNeeded(needs, U, s) BY DEF WalkInv
  <2>5. Reach(needs, U, s.todo[j].id, s.todo[1].id) BY <1>i, <2>1, <2>3, <2>4, Zenon DEF AboveIsNeeded
  <2>6. s.todo[1].id = v /\ s.todo[1].at = "leave" BY <1>1, <1>at
  <2>7. s.todo[j].id # v
    <3>1. s.todo[j].id = v => s.todo[j] = s.todo[1] BY <1>1, <1>5
    <3>2. s.todo[j] = s.todo[1] => j = 1 BY <1>i, <1>l, <2>6, Zenon DEF LeftOnce
    <3> QED BY <1>5, <3>1, <3>2
  <2> QED BY <2>2, <2>5, <2>6, <2>7, ReachPast
<1>v. v \notin ToSet(s.out)
  <2>1. s.todo[1].id = v /\ s.todo[1].at = "leave" BY <1>1, <1>at
  <2> QED BY <1>i, <1>l, <2>1, Zenon DEF LeftOnce
<1>6. CalledFor(needs, U, x, y, t)
  <2> SUFFICES ASSUME y \in ToSet(t.out), x \notin ToSet(t.out)
               PROVE  OnItsWay(needs, U, y, t)
    BY DEF CalledFor
  <2>1. CASE v = y
    <3>1. CASE \E j \in 1 .. Len(s.todo) : j # 1 /\ s.todo[j].at = "leave"
      <4>1. PICK j \in 1 .. Len(s.todo) : j # 1 /\ s.todo[j].at = "leave" BY <3>1
      <4>2. s.todo[j] = ToLeave(s.todo[j].id) BY <1>e, <4>1
      <4>3. s.todo[j].id \in U /\ NeedsPast(needs, U, s.todo[j].id, y) BY <1>5, <2>1, <4>1, <4>2
      <4>4. \E i \in 1 .. Len(t.todo) : t.todo[i] = ToLeave(s.todo[j].id) BY <1>3, <4>1, <4>2
      <4> QED BY <4>3, <4>4 DEF OnItsWay
    <3>2. CASE \A j \in 1 .. Len(s.todo) : j # 1 => s.todo[j].at # "leave"
      <4>1. s.todo[1].id = y BY <1>1, <1>at, <2>1
      <4>2. \A j \in 1 .. Len(s.todo) : 1 < j => s.todo[j].at # "leave" BY <3>2
      <4>3. x \in s.seen \/ \E i \in 1 .. Len(s.todo) : i < 1 BY <1>i, <4>1, <4>2 DEF RankInv, WaitsForX
      <4>4. x \in s.seen BY <4>3
      <4>5. x \notin ToSet(s.out) BY <1>a
      <4>6. PICK j \in 1 .. Len(s.todo) : s.todo[j] = ToLeave(x) BY <4>4, <4>5, Zenon DEF WalkInv, SeenAreLeft
      <4>7. j = 1 BY <1>at, <3>2, <4>6
      <4> QED BY <1>1, <1>at, <2>1, <4>6, <4>7
    <3> QED BY <3>1, <3>2
  <2>2. CASE v # y
    <3>1. y \in ToSet(s.out) /\ x \notin ToSet(s.out) BY <1>a, <2>2
    <3>2. PICK z \in U : /\ NeedsPast(needs, U, z, y)
                         /\ z \in ToSet(s.out) \/ \E j \in 1 .. Len(s.todo) : s.todo[j] = ToLeave(z)
      BY <3>1, Zenon DEF RankInv, CalledFor, OnItsWay
    <3>3. CASE z \in ToSet(s.out) BY <1>a, <3>2, <3>3 DEF OnItsWay
    <3>4. ASSUME NEW j \in 1 .. Len(s.todo), s.todo[j] = ToLeave(z)
          PROVE  z \in ToSet(t.out) \/ \E i \in 1 .. Len(t.todo) : t.todo[i] = ToLeave(z)
      <4>1. CASE j = 1
        <5>1. z = v BY <1>1, <1>at, <3>4, <4>1
        <5> QED BY <1>a, <5>1
      <4>2. CASE j # 1 BY <1>3, <3>4, <4>2
      <4> QED BY <4>1, <4>2
    <3> QED BY <3>2, <3>3, <3>4 DEF OnItsWay
  <2> QED BY <2>1, <2>2
<1>7. Excused(needs, U, x, y, t.out)
  <2> SUFFICES ASSUME NEW i \in 1 .. Len(t.out), NEW j \in 1 .. Len(t.out), i < j, t.out[i] = y, t.out[j] = x
               PROVE  Excuse(needs, U, x, y, t.out, j)
    BY DEF Excused
  <2>0. i \in 1 .. Len(s.out) /\ s.out[i] = y BY <1>b
  <2>1. CASE j \in 1 .. Len(s.out)
    <3>1. s.out[j] = x BY <1>b, <2>1
    <3>2. Excused(needs, U, x, y, s.out) BY DEF RankInv
    <3>3. PICK z \in U : /\ NeedsPast(needs, U, z, y)
                         /\ (\E m \in 1 .. Len(s.out) : m <= j /\ s.out[m] = z) \/ NeedsPast(needs, U, z, x)
      BY <2>0, <2>1, <3>1, <3>2, Zenon DEF Excused, Excuse
    <3>4. ASSUME NEW m \in 1 .. Len(s.out), m <= j, s.out[m] = z
          PROVE  m \in 1 .. Len(t.out) /\ m <= j /\ t.out[m] = z
      BY <1>b, <3>4
    <3> QED BY <3>3, <3>4 DEF Excuse
  <2>2. CASE j = Len(s.out) + 1
    <3>1. v = x BY <1>b, <2>2
    <3>2. y \in ToSet(s.out) /\ x \notin ToSet(s.out) BY <1>b, <1>v, <2>0, <3>1 DEF ToSet
    <3>3. PICK z \in U : /\ NeedsPast(needs, U, z, y)
                         /\ z \in ToSet(s.out) \/ \E k \in 1 .. Len(s.todo) : s.todo[k] = ToLeave(z)
      BY <3>2, Zenon DEF RankInv, CalledFor, OnItsWay
    <3>4. CASE z \in ToSet(s.out)
      <4>1. PICK m \in 1 .. Len(s.out) : s.out[m] = z BY <1>b, <3>4 DEF ToSet
      <4>2. m \in 1 .. Len(t.out) /\ m <= j /\ t.out[m] = z BY <1>b, <2>2, <4>1
      <4> QED BY <3>3, <4>2 DEF Excuse
    <3>5. ASSUME NEW k \in 1 .. Len(s.todo), s.todo[k] = ToLeave(z)
          PROVE  (\E m \in 1 .. Len(t.out) : m <= j /\ t.out[m] = z) \/ NeedsPast(needs, U, z, x)
      <4>1. s.todo[k].id = z BY <1>at, <3>5
      <4>2. CASE k = 1
        <5>1. z = x BY <1>1, <1>at, <3>1, <3>5, <4>2
        <5>2. j <= j BY <1>b, <2>2
        <5> QED BY <5>1, <5>2
      <4>3. CASE k # 1 BY <1>5, <3>1, <3>5, <4>1, <4>3
      <4> QED BY <4>2, <4>3
    <3> QED BY <3>3, <3>4, <3>5 DEF Excuse
  <2>3. j \in 1 .. Len(s.out) \/ j = Len(s.out) + 1 BY <1>b
  <2> QED BY <2>1, <2>2, <2>3
<1> QED BY <1>4, <1>6, <1>7 DEF RankInv

LEMMA StepKeepsRank ==
  ASSUME NEW needs, NEW U, NeedsIn(needs, U), NEW s, WalkInv(needs, U, s), s.todo # <<>>,
         NEW x, NEW y, x # y, RankInv(needs, U, x, y, s)
  PROVE  RankInv(needs, U, x, y, WalkStep(needs, s))
<1>1. WalkTyped(U, s) BY DEF WalkInv
<1>2. PICK t : t = WalkStep(needs, s) OBVIOUS
<1>3. PICK v \in U : Leaves(v, s, t) \/ Passes(v, s, t) \/ Enters(needs, v, s, t)
  BY <1>1, <1>2, StepForms
<1>4. RankInv(needs, U, x, y, t) BY <1>3, LeaveKeepsRank, PassKeepsRank, EnterKeepsRank
<1> QED BY <1>2, <1>4

LEMMA StartRanked ==
  ASSUME NEW needs, NEW U, NEW order \in Seq(U), NEW x, NEW y, Leads(order, x, y),
         NEW s, s = [todo |-> Enter(order), seen |-> {}, out |-> <<>>]
  PROVE  RankInv(needs, U, x, y, s)
<1>1. s.todo = Enter(order) /\ s.out = <<>> OBVIOUS
<1>2. Len(s.todo) = Len(order) /\ \A k \in 1 .. Len(order) : s.todo[k] = ToEnter(order[k])
  BY <1>1, EnterIs DEF ToEnter
<1>3. \A u : ToEnter(u).id = u BY DEF ToEnter
<1>4. WaitsForX(x, y, s) BY <1>2, <1>3 DEF Leads, WaitsForX
<1>5. CalledFor(needs, U, x, y, s) BY <1>1 DEF CalledFor, ToSet
<1>6. Excused(needs, U, x, y, s.out)
  <2>1. \A k \in 1 .. Len(<<>>) : FALSE OBVIOUS
  <2> QED BY <1>1, <2>1, Zenon DEF Excused
<1> QED BY <1>4, <1>5, <1>6 DEF RankInv

LEMMA WalkKeepsRank ==
  ASSUME NEW needs, NEW U, NeedsIn(needs, U), NEW w, WalkIs(needs, w),
         NEW order \in Seq(U), ToSet(order) = U, NEW x, NEW y, x # y, Leads(order, x, y)
  PROVE  Excused(needs, U, x, y, w[[todo |-> Enter(order), seen |-> {}, out |-> <<>>]])
<1>1. PICK s0 : s0 = [todo |-> Enter(order), seen |-> {}, out |-> <<>>] OBVIOUS
<1>2. WalkInv(needs, U, s0) BY <1>1, StartFits
<1>3. RankInv(needs, U, x, y, s0) BY <1>1, StartRanked
<1> DEFINE G == {s \in Walks : WalkInv(needs, U, s) /\ RankInv(needs, U, x, y, s)}
<1>4. U \in SUBSET Seq(Nat) BY DEF NeedsIn
<1>5. ASSUME NEW s \in G, s.todo # <<>> PROVE WalkStep(needs, s) \in G
  <2>1. WalkInv(needs, U, s) /\ RankInv(needs, U, x, y, s) OBVIOUS
  <2>2. WalkInv(needs, U, WalkStep(needs, s)) BY <1>5, <2>1, StepKeeps
  <2>3. RankInv(needs, U, x, y, WalkStep(needs, s)) BY <1>5, <2>1, StepKeepsRank
  <2>4. WalkStep(needs, s) \in Walks BY <1>4, <2>2, WalkInWalks
  <2> QED BY <2>2, <2>3, <2>4
<1>6. s0 \in G BY <1>2, <1>3, <1>4, WalkInWalks
<1>7. \A s \in G : WalkInv(needs, U, s) /\ RankInv(needs, U, x, y, s) OBVIOUS
<1> HIDE DEF G
<1>8. \A s \in G : s.todo # <<>> => WalkStep(needs, s) \in G BY <1>5
<1>9. PICK s \in G : s.todo = <<>> /\ w[s0] = s.out BY <1>6, <1>7, <1>8, WalkEnds
<1>10. Excused(needs, U, x, y, s.out) BY <1>7 DEF RankInv
<1> QED BY <1>1, <1>9, <1>10

LEMMA TopoKeepsRank ==
  ASSUME NEW its, Tree(its), DepsTyped(its), NEW order \in Seq(Seq(Nat)), NEW x, NEW y, x # y,
         Leads(order, x, y)
  PROVE  Excused(Needs(its, InQueue(its, order)), ToSet(order), x, y, TopoRepairPriority(its, order))
<1>1. PICK needs : needs = Needs(its, InQueue(its, order)) OBVIOUS
<1>2. /\ NeedsIn(needs, ToSet(order)) /\ order \in Seq(ToSet(order))
      /\ \E w : WalkIs(needs, w)
                /\ TopoRepairPriority(its, order) = w[[todo |-> Enter(order), seen |-> {}, out |-> <<>>]]
  BY <1>1, RepairWalks
<1>3. PICK w : WalkIs(needs, w)
               /\ TopoRepairPriority(its, order) = w[[todo |-> Enter(order), seen |-> {}, out |-> <<>>]]
  BY <1>2
<1>4. Excused(needs, ToSet(order), x, y, w[[todo |-> Enter(order), seen |-> {}, out |-> <<>>]])
  BY <1>2, <1>3, WalkKeepsRank
<1> QED BY <1>1, <1>3, <1>4

(* Who leads whom in a part of the queue, and in a queue that is longer.   *)
LEMMA AmongLeads ==
  ASSUME NEW X, NEW seq \in Seq(X), NEW S, NEW x \in S, NEW y, Leads(seq, x, y)
  PROVE  Leads(Among(seq, S), x, y)
<1>1. PICK f : KeepIs(f, seq, S) /\ Among(seq, S) = f[Len(seq)]
  <2>1. PICK g : KeepIs(g, seq, S) BY KeepExists
  <2>2. PICK f : f = (CHOOSE h : KeepIs(h, seq, S)) /\ KeepIs(f, seq, S) BY <2>1, Zenon
  <2>3. Among(seq, S) = f[Len(seq)] BY <2>2, Zenon DEF Among, KeepIs
  <2> QED BY <2>2, <2>3
<1> DEFINE n == Len(seq)
           Has(m) == \A i \in 1 .. m : seq[i] = x => x \in ToSet(f[m])
           T == {m \in 0 .. n : f[m] \in Seq(X) /\ Has(m) /\ Leads(f[m], x, y)}
<1>2. n \in Nat /\ \A k \in 1 .. n : seq[k] \in X BY SeqFacts
<1>3. /\ f[0] = <<>>
      /\ \A k \in 1 .. n : f[k] = IF seq[k] \in S THEN Append(f[k - 1], seq[k]) ELSE f[k - 1]
  <2>1. 0 \in 0 .. n /\ \A k \in 1 .. n : k \in 0 .. n /\ k # 0 BY <1>2
  <2> QED BY <1>1, <2>1, Zenon DEF KeepIs
<1>4. 0 \in T
  <2>1. \A i \in 1 .. 0 : FALSE OBVIOUS
  <2>2. f[0] \in Seq(X) /\ Leads(f[0], x, y) BY <1>3 DEF Leads
  <2> QED BY <1>2, <2>1, <2>2
<1>5. ASSUME NEW m \in 0 .. n, m < n, m \in T PROVE m + 1 \in T
  <2>1. PICK k \in 1 .. n : k = m + 1 /\ k - 1 = m /\ k \in 0 .. n BY <1>2, <1>5
  <2>2. f[m] \in Seq(X) /\ Has(m) /\ Leads(f[m], x, y) BY <1>5
  <2>3. \A i : i \in 1 .. k <=> i \in 1 .. m \/ i = k BY <2>1
  <2>4. seq[k] \in X BY <1>2
  <2>5. f[k] = IF seq[k] \in S THEN Append(f[m], seq[k]) ELSE f[m] BY <1>3, <2>1, Zenon
  <2>6. f[k] \in Seq(X) /\ Has(k) /\ Leads(f[k], x, y)
    <3>1. CASE seq[k] \in S
      <4>1. PICK g : g = f[m] /\ g \in Seq(X) BY <2>2
      <4>2. f[k] = Append(g, seq[k]) BY <2>5, <3>1, <4>1
      <4>3. f[k] \in Seq(X) /\ ToSet(f[k]) = ToSet(g) \cup {seq[k]} BY <2>4, <4>1, <4>2, SeqAppend
      <4>4. Has(k)
        <5>1. \A i \in 1 .. m : seq[i] = x => x \in ToSet(g) BY <2>2, <4>1
        <5> QED BY <2>3, <4>3, <5>1
      <4>5. /\ Len(g) \in Nat /\ DOMAIN g = 1 .. Len(g)
            /\ Len(f[k]) = Len(g) + 1 /\ f[k][Len(g) + 1] = seq[k]
            /\ \A i \in 1 .. Len(g) : f[k][i] = g[i]
        BY <2>4, <4>1, <4>2
      <4>6. Leads(f[k], x, y)
        <5> SUFFICES ASSUME NEW j \in 1 .. Len(f[k]), f[k][j] = y
                     PROVE  \E i \in 1 .. Len(f[k]) : i < j /\ f[k][i] = x
          BY DEF Leads
        <5>1. CASE j \in 1 .. Len(g)
          <6>1. PICK i \in 1 .. Len(g) : i < j /\ g[i] = x BY <2>2, <4>1, <4>5, <5>1 DEF Leads
          <6> QED BY <4>5, <6>1
        <5>2. CASE j = Len(g) + 1
          <6>1. seq[k] = y BY <4>5, <5>2
          <6>2. PICK i \in 1 .. n : i < k /\ seq[i] = x BY <6>1 DEF Leads
          <6>3. i \in 1 .. m BY <2>1, <6>2
          <6>4. x \in ToSet(g) BY <2>2, <4>1, <6>2, <6>3
          <6>5. PICK l \in 1 .. Len(g) : g[l] = x BY <4>5, <6>4 DEF ToSet
          <6>6. l \in 1 .. Len(f[k]) /\ l < j /\ f[k][l] = x BY <4>5, <5>2, <6>5
          <6> QED BY <6>6
        <5>3. j \in 1 .. Len(g) \/ j = Len(g) + 1 BY <4>5
        <5> QED BY <5>1, <5>2, <5>3
      <4> QED BY <4>3, <4>4, <4>6
    <3>2. CASE seq[k] \notin S
      <4>1. f[k] = f[m] BY <2>5, <3>2
      <4>2. \A i \in 1 .. m : seq[i] = x => x \in ToSet(f[m]) BY <2>2
      <4>3. Has(k) BY <2>3, <3>2, <4>1, <4>2
      <4> QED BY <2>2, <4>1, <4>3
    <3> QED BY <3>1, <3>2
  <2> HIDE DEF Has
  <2> QED BY <2>1, <2>6
<1>6. n \in T
  <2>1. n \in 0 .. n BY <1>2
  <2> HIDE DEF T
  <2> QED BY <1>2, <1>4, <1>5, <2>1, ClimbTo
<1> QED BY <1>1, <1>6

LEMMA ConcatLeads ==
  ASSUME NEW s \in SeqIds, NEW t \in SeqIds, NEW x, NEW y, Leads(s, x, y), y \notin ToSet(t)
  PROVE  Leads(s \o t, x, y)
<1>1. PICK r : r = s \o t OBVIOUS
<1>2. ConcatIs(s, t, r) BY <1>1, ConcatAt
<1>3. Len(s) \in Nat /\ Len(t) \in Nat /\ DOMAIN t = 1 .. Len(t) BY SeqFacts DEF SeqIds
<1>4. /\ Len(r) = Len(s) + Len(t) /\ \A i \in 1 .. Len(s) : r[i] = s[i]
      /\ \A i \in 1 .. Len(t) : r[Len(s) + i] = t[i]
  BY <1>2 DEF ConcatIs
<1>5. ASSUME NEW j \in 1 .. Len(r), r[j] = y PROVE \E i \in 1 .. Len(r) : i < j /\ r[i] = x
  <2>1. CASE j \in 1 .. Len(s)
    <3>1. s[j] = y BY <1>4, <1>5, <2>1
    <3>2. PICK i \in 1 .. Len(s) : i < j /\ s[i] = x BY <2>1, <3>1 DEF Leads
    <3>3. i \in 1 .. Len(r) /\ r[i] = x BY <1>3, <1>4, <3>2
    <3> QED BY <3>2, <3>3
  <2>2. CASE j \notin 1 .. Len(s)
    <3>1. j - Len(s) \in 1 .. Len(t) /\ Len(s) + (j - Len(s)) = j BY <1>3, <1>4, <2>2
    <3>2. t[j - Len(s)] = y BY <1>4, <1>5, <3>1
    <3> QED BY <1>3, <3>1, <3>2 DEF ToSet
  <2> QED BY <2>1, <2>2
<1> QED BY <1>1, <1>5 DEF Leads

LEMMA AheadLeads ==
  ASSUME NEW q, IsQueue(q), NEW x, NEW y, Ahead(q, x, y)
  PROVE  Leads(q, x, y) /\ x \in ToSet(q) /\ y \in ToSet(q) /\ x # y
<1>1. Len(q) \in Nat /\ DOMAIN q = 1 .. Len(q) BY SeqFacts DEF IsQueue, SeqIds
<1>2. PICK i, j \in DOMAIN q : i < j /\ q[i] = x /\ q[j] = y BY DEF Ahead
<1>3. \A k \in DOMAIN q : q[k] = y => k = j BY <1>2 DEF IsQueue, IsInjective
<1>4. x # y BY <1>1, <1>2, <1>3
<1>5. Leads(q, x, y) BY <1>1, <1>2, <1>3 DEF Leads
<1> QED BY <1>2, <1>4, <1>5 DEF ToSet

(* What the repaired queue does with two entries that a list had in order. *)
LEMMA ReconcileKeepsRank ==
  ASSUME NEW its, Tree(its), DepsTyped(its), NEW q, IsQueue(q), NEW x, NEW y, Ahead(q, x, y),
         x \in PullableItems(its)
  PROVE  Excused(Needs(its, PullableItems(its)), PullableItems(its), x, y, ReconcilePriority(its, q))
<1> DEFINE P == PullableItems(its)
           kept == Among(q, P)
           new == Canonical(P \ ToSet(kept))
           order == kept \o new
<1>0. q \in SeqIds /\ Leads(q, x, y) /\ x \in ToSet(q) /\ y \in ToSet(q) /\ x # y
  BY AheadLeads DEF IsQueue
<1>1. P \subseteq DOMAIN its /\ IsFiniteSet(P) /\ P \in SUBSET Seq(Nat) BY PullableIs
<1>2. kept \in SeqIds /\ ToSet(kept) = ToSet(q) \cap P BY <1>0, AmongIs DEF SeqIds
<1>l. Leads(kept, x, y)
  <2>1. x \in P /\ q \in Seq(Seq(Nat)) BY <1>0 DEF SeqIds
  <2> QED BY <1>0, <2>1, AmongLeads
<1> HIDE DEF P, kept
<1>3. new \in Seq(P \ ToSet(kept)) /\ ToSet(new) = P \ ToSet(kept)
  <2>1. P \ ToSet(kept) \in SUBSET P /\ P \ ToSet(kept) \in SUBSET Seq(Nat) BY <1>1
  <2>2. IsFiniteSet(P \ ToSet(kept)) BY <1>1, <2>1, FS_Subset
  <2> QED BY <2>1, <2>2, CanonicalIs
<1> HIDE DEF new
<1>4. new \in SeqIds
  <2>1. P \ ToSet(kept) \subseteq Seq(Nat) BY <1>1
  <2> QED BY <1>3, <2>1 DEF SeqIds
<1>5. order \in Seq(Seq(Nat)) /\ ToSet(order) = ToSet(kept) \cup ToSet(new)
  BY <1>2, <1>4, SeqConcat DEF SeqIds
<1>6. ToSet(order) = P BY <1>2, <1>3, <1>5
<1>7. Leads(order, x, y)
  <2>1. y \notin ToSet(new) BY <1>0, <1>2, <1>3
  <2> QED BY <1>2, <1>4, <1>l, <2>1, ConcatLeads
<1> HIDE DEF order
<1>8. InQueue(its, order) = P BY <1>1, <1>6 DEF InQueue
<1>9. Excused(Needs(its, P), P, x, y, TopoRepairPriority(its, order))
  <2>1. Excused(Needs(its, InQueue(its, order)), ToSet(order), x, y, TopoRepairPriority(its, order))
    BY <1>0, <1>5, <1>7, TopoKeepsRank
  <2> QED BY <1>6, <1>8, <2>1
<1>10. TopoRepairPriority(its, order) = ReconcilePriority(its, q)
  BY Zenon DEF ReconcilePriority, order, new, kept, P
<1> QED BY <1>9, <1>10 DEF P

(* Needed is the least set closed under needs.                             *)
LEMMA NeededIs ==
  ASSUME NEW its, Tree(its), DepsTyped(its), NEW z \in PullableItems(its), NEW u \in PullableItems(its),
         NeedsPast(Needs(its, PullableItems(its)), PullableItems(its), z, u)
  PROVE  u \in Needed(its, z)
<1> DEFINE P == PullableItems(its)
           needs == [x \in P |-> ToSet(Prerequisites(its, P, x))]
           closed == {S \in SUBSET P : needs[z] \subseteq S /\ \A x \in S : needs[x] \subseteq S}
           least == {v \in P : \A S \in closed : v \in S}
           n == Needs(its, P)
<1>1. P \subseteq DOMAIN its BY PullableIs
<1>2. ASSUME NEW x \in P PROVE needs[x] \subseteq P /\ FirstSet(n, x) = needs[x]
  <2>1. its[x].deps \in Seq(Seq(Nat)) BY <1>1 DEF DepsTyped
  <2>2. Prerequisites(its, P, x) \in Seq(P \cap DOMAIN its) BY <2>1, PrerequisitesAre
  <2>3. ToSet(Prerequisites(its, P, x)) \subseteq P \cap DOMAIN its BY <2>2, SeqFacts
  <2> HIDE DEF P
  <2>4. FirstSet(n, x) = ToSet(Prerequisites(its, P, x)) BY DEF FirstSet, First, Needs
  <2> QED BY <2>3, <2>4
<1>3. Needed(its, z) = (CHOOSE S \in closed : \A T \in closed : S \subseteq T) BY Zenon DEF Needed
<1>4. z \in P OBVIOUS
<1> HIDE DEF P, needs
<1>5. least \in closed /\ \A T \in closed : least \subseteq T
  <2>1. needs[z] \subseteq least BY <1>2, <1>4
  <2>2. ASSUME NEW x \in least PROVE needs[x] \subseteq least BY <1>2
  <2> QED BY <2>1, <2>2
<1>6. PICK S \in closed : S = Needed(its, z) /\ \A T \in closed : S \subseteq T BY <1>3, <1>5
<1>7. S \in SUBSET P /\ needs[z] \subseteq S /\ \A x \in S : needs[x] \subseteq S OBVIOUS
<1>8. FirstSet(n, z) \subseteq S /\ \A x \in S : FirstSet(n, x) \subseteq S BY <1>2, <1>4, <1>7
<1>9. NeedsPast(n, P, z, u) BY DEF P
<1> HIDE DEF closed, n
<1>10. u \in S BY <1>7, <1>8, <1>9, Zenon DEF NeedsPast
<1> QED BY <1>6, <1>10

(* What a command that edits leaves of the ranking, and what is written.   *)
Ranked(its, old, new) ==
  \A x, y \in ToSet(old) \cap ToSet(new) : Overtakes(x, y, old, new) =>
    \E z \in ToSet(new) : /\ y \in Needed(its, z)
                          /\ RankOf(new, z) <= RankOf(new, x) \/ x \in Needed(its, z)

LEMMA RankAt ==
  ASSUME NEW q, IsQueue(q)
  PROVE  /\ \A k \in 1 .. Len(q) : RankOf(q, q[k]) = k
         /\ \A x \in ToSet(q) : \E k \in 1 .. Len(q) : q[k] = x /\ RankOf(q, x) = k
<1>1. q \in Seq(Seq(Nat)) /\ IsInjective(q) /\ DOMAIN q = 1 .. Len(q) BY SeqFacts DEF IsQueue, SeqIds
<1>2. \A k \in 1 .. Len(q) : RankOf(q, q[k]) = k BY <1>1, RankIs DEF RankOf
<1>3. ASSUME NEW x \in ToSet(q) PROVE \E k \in 1 .. Len(q) : q[k] = x /\ RankOf(q, x) = k
  <2>1. PICK k \in 1 .. Len(q) : q[k] = x BY <1>1 DEF ToSet
  <2>2. RankOf(q, x) = k BY <1>2, <2>1
  <2> QED BY <2>1, <2>2
<1> QED BY <1>2, <1>3

LEMMA ReconciledRanked ==
  ASSUME NEW new, GoodCopy(new), NEW old, IsQueue(old), Keeps(old, new.queue)
  PROVE  Ranked(Reconciled(new).items, old, Reconciled(new).queue)
<1> DEFINE r == Reconciled(new)
           its == r.items
           P == PullableItems(its)
           out == r.queue
<1>1. GoodCopy(r) /\ r.queue = ReconcilePriority(r.items, new.queue) /\ ToSet(r.queue) = PullableItems(r.items)
  BY ReconciledReg, ReconciledIs
<1>2. Tree(its) /\ DepsTyped(its) /\ IsQueue(out) /\ IsQueue(new.queue)
  BY <1>1, ShapedIs DEF GoodCopy
<1>3. out = ReconcilePriority(its, new.queue) /\ ToSet(out) = P BY <1>1
<1> HIDE DEF r, its, out
<1> SUFFICES ASSUME NEW x \in ToSet(old) \cap ToSet(out), NEW y \in ToSet(old) \cap ToSet(out),
                    Overtakes(x, y, old, out)
             PROVE  \E z \in ToSet(out) : /\ y \in Needed(its, z)
                                          /\ RankOf(out, z) <= RankOf(out, x) \/ x \in Needed(its, z)
  BY DEF Ranked, its, out, r
<1>4. Ahead(old, x, y)
  <2>1. PICK i \in 1 .. Len(old) : old[i] = x /\ RankOf(old, x) = i BY RankAt
  <2>2. PICK j \in 1 .. Len(old) : old[j] = y /\ RankOf(old, y) = j BY RankAt
  <2>3. i < j BY <2>1, <2>2 DEF Overtakes
  <2>4. DOMAIN old = 1 .. Len(old) BY SeqFacts DEF IsQueue, SeqIds
  <2> QED BY <2>1, <2>2, <2>3, <2>4 DEF Ahead
<1>5. Ahead(new.queue, x, y) BY <1>4 DEF Keeps
<1>6. x \in P /\ y \in P BY <1>3
<1>7. Excused(Needs(its, P), P, x, y, out)
  <2>1. Excused(Needs(its, P), P, x, y, ReconcilePriority(its, new.queue))
    BY <1>2, <1>5, <1>6, ReconcileKeepsRank
  <2> QED BY <1>3, <2>1
<1>8. PICK j \in 1 .. Len(out) : out[j] = x /\ RankOf(out, x) = j BY <1>2, RankAt
<1>9. PICK i \in 1 .. Len(out) : out[i] = y /\ RankOf(out, y) = i BY <1>2, RankAt
<1>10. i < j BY <1>8, <1>9 DEF Overtakes
<1> HIDE DEF P
<1>11. Excuse(Needs(its, P), P, x, y, out, j) BY <1>7, <1>8, <1>9, <1>10 DEF Excused
<1>12. PICK z \in P : /\ NeedsPast(Needs(its, P), P, z, y)
                      /\ (\E m \in 1 .. Len(out) : m <= j /\ out[m] = z) \/ NeedsPast(Needs(its, P), P, z, x)
  BY <1>11, Zenon DEF Excuse
<1>13. y \in Needed(its, z) BY <1>2, <1>6, <1>12, NeededIs DEF P
<1>14. CASE \E m \in 1 .. Len(out) : m <= j /\ out[m] = z
  <2>1. PICK m \in 1 .. Len(out) : m <= j /\ out[m] = z BY <1>14
  <2>2. RankOf(out, z) = m BY <1>2, <2>1, RankAt
  <2>3. RankOf(out, z) <= RankOf(out, x) BY <1>8, <2>1, <2>2
  <2> QED BY <1>3, <1>13, <2>3
<1>15. CASE NeedsPast(Needs(its, P), P, z, x)
  <2>1. x \in Needed(its, z) BY <1>2, <1>6, <1>15, NeededIs DEF P
  <2> QED BY <1>3, <1>13, <2>1
<1> QED BY <1>12, <1>14, <1>15

(* From the edit to the write of the queue, the ranking that is kept is    *)
(* the one on disk, and the items are those in the copy.                   *)
RankedInv ==
  ~raced =>
    \A p \in Procs : cmd[p] \notin RankCommands =>
      /\ pc[p] \in {"write items", "write questions", "write queue"} =>
           Ranked(reg[p].items, queue, reg[p].queue)
      /\ pc[p] = "write queue" => items = reg[p].items

RankedFits(at, c, r) ==
  ~raced /\ c \notin RankCommands =>
    /\ at \in {"write items", "write questions", "write queue"} => Ranked(r.items, queue', r.queue)
    /\ at = "write queue" => items' = r.items

LEMMA RankedStep ==
  ASSUME DiskInv, NEW p \in Procs, Running(p), raced' = raced,
         NEW at, pc' = [pc EXCEPT ![p] = at], NEW r, reg'[p] = r, RankedFits(at, cmd'[p], r)
  PROVE  RankedInv'
<1> SUFFICES ASSUME ~raced, NEW q \in Procs, cmd'[q] \notin RankCommands
             PROVE  /\ pc'[q] \in {"write items", "write questions", "write queue"} =>
                         Ranked(reg'[q].items, queue', reg'[q].queue)
                    /\ pc'[q] = "write queue" => items' = reg'[q].items
  BY DEF RankedInv
<1>1. DOMAIN pc = Procs BY DEF DiskInv, LockInv
<1>2. CASE q = p
  <2>1. pc'[q] = at /\ reg'[q] = r BY <1>1, <1>2
  <2> QED BY <1>2, <2>1 DEF RankedFits
<1>3. CASE q # p
  <2>1. pc'[q] = "idle" BY <1>1, <1>3, OthersIdle
  <2> QED BY <2>1
<1> QED BY <1>2, <1>3

LEMMA MutateRanked ==
  ASSUME DiskInv, NEW p \in Procs, Mutate(p) PROVE RankedInv'
<1>1. pc[p] = "loaded"
  BY DEF Mutate, AddItem, AddQuestion, Split, SetStatus, SetTitle, SetDesc, SetOwner, SetPR,
         DepAdd, DepRm, Answer, Prioritize, Move, Loaded
<1>2. UNCHANGED <<items, queue, raced, cmd>> /\ Running(p)
  BY <1>1, MutateGoesOn DEF files, GoesOn
<1>3. \/ cmd[p] \notin RankCommands /\ Edited(p)
      \/ cmd[p] \in RankCommands /\ Reorders(p)
  BY MutateEdits DEF DiskInv, IdInv
<1>4. CASE cmd[p] \notin RankCommands /\ Edited(p)
  <2>1. PICK new : Apply(p, new) /\ Edits(p, new) BY <1>4 DEF Edited
  <2> DEFINE r == Reconciled(new)
  <2>2. PICK at : /\ reg' = [reg EXCEPT ![p] = r] /\ pc' = [pc EXCEPT ![p] = at]
                  /\ at \in {"write items", "refused"}
    BY <2>1, Zenon DEF Apply
  <2>3. ~raced => Ranked(r.items, queue, r.queue)
    <3> SUFFICES ASSUME ~raced PROVE Ranked(r.items, queue, r.queue)
      OBVIOUS
    <3>1. reg[p].queue = queue BY <1>1 DEF DiskInv, CopyInv
    <3>2. GoodCopy(new) /\ Keeps(queue, new.queue) BY <2>1, <3>1 DEF Edits
    <3>3. IsQueue(queue) BY DEF DiskInv, IdInv, CopiesTyped
    <3> QED BY <3>2, <3>3, ReconciledRanked
  <2> HIDE DEF r
  <2>4. RankedFits(at, cmd'[p], r) BY <1>2, <2>2, <2>3 DEF RankedFits
  <2>5. reg'[p] = r BY <2>2, NewCopy
  <2> QED BY <1>2, <2>2, <2>4, <2>5, RankedStep
<1>5. CASE cmd[p] \in RankCommands /\ Reorders(p)
  <2>1. PICK at, r : reg' = [reg EXCEPT ![p] = r] /\ pc' = [pc EXCEPT ![p] = at]
    <3>1. IdInv BY DEF DiskInv
    <3> QED BY <1>5, <3>1, RankChanges
  <2>2. RankedFits(at, cmd'[p], r) BY <1>2, <1>5 DEF RankedFits
  <2> QED BY <1>2, <2>1, <2>2, NewCopy, RankedStep
<1> QED BY <1>3, <1>4, <1>5

LEMMA WritesRanked ==
  ASSUME DiskInv, OrderInv, RankedInv, NEW p \in Procs, Writes(p) PROVE RankedInv'
<1>1. CASE WriteItems(p)
  <2>1. /\ pc[p] = "write items" /\ UNCHANGED <<queue, raced, reg, cmd>>
        /\ pc' = [pc EXCEPT ![p] = "write questions"] /\ Running(p)
    BY <1>1 DEF WriteItems, Running
  <2>2. RankedFits("write questions", cmd'[p], reg[p]) BY <2>1 DEF RankedFits, RankedInv
  <2> QED BY <2>1, <2>2, RankedStep
<1>2. CASE WriteQuestions(p)
  <2>1. /\ pc[p] = "write questions" /\ UNCHANGED <<items, queue, raced, reg, cmd>>
        /\ pc' = [pc EXCEPT ![p] = "write queue"] /\ Running(p)
    BY <1>2 DEF WriteQuestions, Running
  <2>2. RankedFits("write queue", cmd'[p], reg[p]) BY <2>1 DEF RankedFits, RankedInv, OrderInv
  <2> QED BY <2>1, <2>2, RankedStep
<1>3. CASE WriteQueue(p)
  <2>1. /\ UNCHANGED raced /\ reg' = [reg EXCEPT ![p] = NoRegistry]
        /\ pc' = [pc EXCEPT ![p] = "idle"] /\ Running(p)
    BY <1>3 DEF WriteQueue, Running
  <2> HIDE DEF NoRegistry
  <2>2. RankedFits("idle", cmd'[p], NoRegistry) BY DEF RankedFits
  <2> QED BY <2>1, <2>2, NewCopy, RankedStep
<1> QED BY <1>1, <1>2, <1>3 DEF Writes

(* The steps that bring no process nearer to the write of the queue.       *)
LEMMA LoadsRanked ==
  ASSUME DiskInv, NEW p \in Procs, LoadItems(p) \/ LoadQuestions(p) \/ LoadQueue(p)
  PROVE  RankedInv'
<1>1. UNCHANGED raced /\ Running(p) BY DEF LoadItems, LoadQuestions, LoadQueue, ghosts, Running
<1>2. PICK at, r : /\ pc' = [pc EXCEPT ![p] = at] /\ reg' = [reg EXCEPT ![p] = r]
                   /\ at \in {"questions", "queue", "loaded"}
  BY DEF LoadItems, LoadQuestions, LoadQueue
<1>3. RankedFits(at, cmd'[p], r) BY <1>2 DEF RankedFits
<1> QED BY <1>1, <1>2, <1>3, NewCopy, RankedStep

LEMMA EndsRanked ==
  ASSUME DiskInv, NEW p \in Procs, Reject(p) \/ Refuse(p) \/ Crash(p) PROVE RankedInv'
<1>1. /\ UNCHANGED raced /\ Running(p)
      /\ pc' = [pc EXCEPT ![p] = "idle"] /\ reg' = [reg EXCEPT ![p] = NoRegistry]
  BY DEF Reject, Refuse, Crash, End, Running
<1> HIDE DEF NoRegistry
<1>2. RankedFits("idle", cmd'[p], NoRegistry) BY DEF RankedFits
<1> QED BY <1>1, <1>2, NewCopy, RankedStep

LEMMA BeginRanked ==
  ASSUME DiskInv, RankedInv, NEW p \in Procs, NEW c \in Commands, Begin(p, c) PROVE RankedInv'
<1>1. /\ UNCHANGED <<items, queue, reg>> /\ (~raced' => ~raced)
      /\ pc' = [pc EXCEPT ![p] = "items"] /\ cmd' = [cmd EXCEPT ![p] = c]
  BY DEF Begin, files
<1>2. DOMAIN pc = Procs /\ DOMAIN cmd = Procs BY DEF DiskInv, LockInv
<1>3. \A q \in Procs : \/ pc'[q] = pc[q] /\ cmd'[q] = cmd[q]
                       \/ pc'[q] = "items"
  BY <1>1, <1>2
<1> QED BY <1>1, <1>3 DEF RankedInv

LEMMA RankedInvHolds == Spec => []RankedInv
<1>1. Init => RankedInv BY DEF Init, RankedInv
<1>2. DiskInv /\ OrderInv /\ RankedInv /\ [Next]_vars => RankedInv'
  <2> SUFFICES ASSUME DiskInv, OrderInv, RankedInv, [Next]_vars PROVE RankedInv'
    OBVIOUS
  <2>1. ASSUME NEW p \in Procs, NEW c \in Commands, Begin(p, c) PROVE RankedInv'
    BY <2>1, BeginRanked
  <2>2. ASSUME UNCHANGED <<items, queue, raced, reg, pc, cmd>> PROVE RankedInv'
    BY <2>2 DEF RankedInv
  <2>3. ASSUME NEW p \in Procs, NEW c \in Commands, GiveUp(p, c) PROVE RankedInv'
    BY <2>2, <2>3 DEF GiveUp, files, ghosts
  <2>4. ASSUME NEW p \in Procs, Step(p) PROVE RankedInv'
    BY <2>4, LoadsRanked, MutateRanked, EndsRanked, WritesRanked DEF Step, Writes
  <2>5. ASSUME NEW p \in Procs, Crash(p) PROVE RankedInv' BY <2>5, EndsRanked
  <2>6. CASE UNCHANGED vars BY <2>2, <2>6 DEF vars, files
  <2> QED BY <2>1, <2>3, <2>4, <2>5, <2>6 DEF Next
<1> QED BY <1>1, <1>2, DiskInvHolds, OrderInvHolds, PTL DEF Spec

(* A command that edits the items keeps the curated ranking: where one     *)
(* entry of the queue overtakes another, the walk placed it for an entry   *)
(* that depends on it and is not behind the other for its own sake         *)
(* (reconcilePriority and topoRepairPriority in priority.go), and what is  *)
(* written is compared with the ranking that was on disk.                  *)
THEOREM RankingAlwaysKept == Spec => RankingIsKept
<1>1. RankedInv =>
        [~raced /\ (\E p \in Procs : WriteQueue(p) /\ cmd[p] \notin {"prioritize", "move"}) =>
           \A x, y \in ToSet(queue) \cap ToSet(queue') : Overtakes(x, y, queue, queue') =>
             \E z \in ToSet(queue') :
               /\ y \in Needed(items, z)
               /\ (RankOf(queue', z) <= RankOf(queue', x) \/ x \in Needed(items, z))]_vars
  <2> SUFFICES ASSUME RankedInv, ~raced, NEW p \in Procs, WriteQueue(p), cmd[p] \notin RankCommands
               PROVE  Ranked(items, queue, queue')
    BY Zenon DEF Ranked, RankCommands
  <2>1. pc[p] = "write queue" /\ queue' = reg[p].queue BY DEF WriteQueue
  <2> QED BY <2>1 DEF RankedInv
<1> QED BY <1>1, RankedInvHolds, PTL DEF RankingIsKept
=====================================================================
