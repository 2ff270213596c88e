--------------------------- MODULE AssemblerProofs ---------------------------
(***************************************************************************)
(* Proofs about Assembler, for every source, layout and page size.         *)
(*                                                                         *)
(* First what the functions of a model compute: lists, expressions, the    *)
(* pool, runs of chunks, a flush.  Then well-formedness (WellFormed), step *)
(* by step, through Pass1, Pass2, the NOPs and Flatten.  Then how the two  *)
(* walks keep in step (InStep): pass 1 has given each record an address    *)
(* from which it moves as its kind says (LaidOut), and pass 2 stands at    *)
(* the address of the record it has come to (Lock).  From these two        *)
(* invariants the properties of a finished image follow.                   *)
(***************************************************************************)
EXTENDS Assembler, FiniteSetTheorems, WellFoundedInduction, TLAPS

(* A set of naturals that is not empty has a least element.                *)
LEMMA LeastExists == ASSUME NEW S \in SUBSET Nat, S # {} PROVE \E lo \in S : \A x \in S : lo <= x
<1>1. PICK lo \in S : \A x \in S : ~(<<x, lo>> \in OpToRel(<, Nat))
  BY NatLessThanWellFounded, WFMin
<1>2. \A x \in S : lo <= x
  <2> SUFFICES ASSUME NEW x \in S, x < lo PROVE FALSE
    OBVIOUS
  <2>1. <<x, lo>> \in OpToRel(<, Nat) BY DEF OpToRel
  <2> QED BY <1>1, <2>1
<1> QED BY <1>2

(* What holds of 0, and of n + 1 when it does of n, holds of every number. *)
LEMMA Climb ==
  ASSUME NEW S, 0 \in S, \A n \in Nat : n \in S => n + 1 \in S
  PROVE  \A n \in Nat : n \in S
<1> DEFINE Bad == {n \in Nat : n \notin S}
<1> SUFFICES ASSUME Bad # {} PROVE FALSE
  OBVIOUS
<1>1. PICK lo \in Bad : \A m \in Bad : lo <= m
  <2>1. Bad \in SUBSET Nat OBVIOUS
  <2> HIDE DEF Bad
  <2> QED BY <2>1, LeastExists
<1>2. lo \in Nat /\ lo \notin S OBVIOUS
<1>3. lo - 1 \in Nat /\ lo = (lo - 1) + 1 /\ ~(lo <= lo - 1) BY <1>2
<1>4. lo - 1 \notin Bad
  <2> HIDE DEF Bad
  <2> QED BY <1>1, <1>3
<1>5. lo - 1 \in S BY <1>3, <1>4
<1> QED BY <1>2, <1>3, <1>5

(* A value for each of n steps, given the first and how each is made.      *)
Stepped(g, n, V, v, s) ==
  g \in [0 .. n -> V] /\ g[0] = v /\ \A i \in 1 .. n : g[i] = s[i][g[i - 1]]

(* A function is given by its first value and by the step from one to the  *)
(* next.                                                                   *)
LEMMA Recursion ==
  ASSUME NEW n \in Nat, NEW V, NEW v \in V, NEW s \in [1 .. n -> [V -> V]]
  PROVE  \E g : Stepped(g, n, V, v, s)
<1> DEFINE S == {m \in Nat : m <= n => \E g : Stepped(g, m, V, v, s)}
<1>1. 0 \in S
  <2>1. PICK g : g = [i \in 0 .. 0 |-> v] OBVIOUS
  <2>2. g \in [0 .. 0 -> V] /\ g[0] = v BY <2>1
  <2>3. \A i \in 1 .. 0 : FALSE OBVIOUS
  <2>4. Stepped(g, 0, V, v, s) BY <2>2, <2>3, Zenon DEF Stepped
  <2> QED BY <2>4
<1>2. ASSUME NEW m \in Nat, m \in S PROVE m + 1 \in S
  <2> SUFFICES ASSUME m + 1 <= n PROVE \E g : Stepped(g, m + 1, V, v, s)
    OBVIOUS
  <2>1. PICK p \in 1 .. n : p = m + 1 /\ p - 1 = m /\ m <= n OBVIOUS
  <2>2. PICK g : Stepped(g, m, V, v, s) BY <1>2, <2>1
  <2>3. g \in [0 .. m -> V] /\ g[0] = v /\ \A i \in 1 .. m : g[i] = s[i][g[i - 1]]
    BY <2>2, Zenon DEF Stepped
  <2>4. m \in 0 .. m /\ 0 \in 0 .. m /\ m \in 0 .. p /\ 0 \in 0 .. p BY <2>1
  <2>5. PICK c \in V : c = s[p][g[m]]
    <3>1. g[m] \in V /\ s[p] \in [V -> V] BY <2>3, <2>4, Zenon
    <3> QED BY <3>1
  <2>6. PICK f : f = [i \in 0 .. p |-> IF i = p THEN c ELSE g[i]] OBVIOUS
  <2>7. \A i \in 0 .. p : i = p \/ i \in 0 .. m BY <2>1
  <2>8. \A i \in 0 .. m : i # p /\ i \in 0 .. p BY <2>1
  <2>9. \A i \in 0 .. m : f[i] = g[i] BY <2>6, <2>8, Zenon
  <2>10. p \in 0 .. p /\ f[p] = c
    <3>1. p \in 0 .. p BY <2>1
    <3> QED BY <2>6, <3>1, Zenon
  <2>11. f \in [0 .. p -> V]
    <3>1. \A i \in 0 .. p : f[i] \in V BY <2>3, <2>7, <2>9, <2>10, Zenon
    <3> QED BY <2>6, <3>1, Zenon
  <2>12. f[0] = v BY <2>3, <2>4, <2>9, Zenon
  <2>13. ASSUME NEW i \in 1 .. p PROVE f[i] = s[i][f[i - 1]]
    <3>1. CASE i = p
      <4>1. f[m] = g[m] BY <2>4, <2>9, Zenon
      <4> QED BY <2>1, <2>5, <2>10, <3>1, <4>1, Zenon
    <3>2. CASE i # p
      <4>1. i \in 1 .. m /\ i \in 0 .. m /\ i - 1 \in 0 .. m BY <2>1, <3>2
      <4>2. f[i] = g[i] /\ f[i - 1] = g[i - 1] BY <2>9, <4>1, Zenon
      <4> QED BY <2>3, <4>1, <4>2, Zenon
    <3> QED BY <3>1, <3>2
  <2>14. Stepped(f, p, V, v, s) BY <2>11, <2>12, <2>13, Zenon DEF Stepped
  <2> QED BY <2>1, <2>14, Zenon
<1>3. \A m \in Nat : m \in S
  <2> HIDE DEF S
  <2> QED BY <1>1, <1>2, Climb
<1>4. n \in S BY <1>3, Zenon
<1> QED BY <1>4

-----------------------------------------------------------------------------

(* What holds at 0 and goes from one number to the next holds up to the    *)
(* last.                                                                   *)
LEMMA ClimbTo ==
  ASSUME NEW n \in Nat, NEW S, 0 \in S, \A m \in 0 .. n : m < n /\ m \in S => m + 1 \in S
  PROVE  \A m \in 0 .. n : m \in S
<1> DEFINE T == {m \in Nat : m <= n => m \in S}
<1>1. 0 \in T OBVIOUS
<1>2. ASSUME NEW m \in Nat, m \in T PROVE m + 1 \in T
  <2> SUFFICES ASSUME m + 1 <= n PROVE m + 1 \in S
    OBVIOUS
  <2>1. m \in 0 .. n /\ m < n /\ m \in S BY <1>2
  <2> QED BY <2>1
<1>3. \A m \in Nat : m \in T
  <2> HIDE DEF T
  <2> QED BY <1>1, <1>2, Climb
<1>4. ASSUME NEW m \in 0 .. n PROVE m \in S
  <2>1. m \in Nat /\ m <= n OBVIOUS
  <2>2. m \in T BY <1>3, <2>1, Zenon
  <2> QED BY <2>1, <2>2
<1> QED BY <1>4, Zenon

(* Sequences. *)
LEMMA SeqFacts ==
  ASSUME NEW X, NEW s \in Seq(X)
  PROVE  /\ Len(s) \in Nat /\ DOMAIN s = 1 .. Len(s) /\ \A k \in 1 .. Len(s) : s[k] \in X
         /\ ToSet(s) \subseteq X /\ s \in Seq(ToSet(s))
         /\ s = <<>> <=> ToSet(s) = {}
<1>1. Len(s) \in Nat /\ DOMAIN s = 1 .. Len(s) /\ s \in [1 .. Len(s) -> X] OBVIOUS
<1>2. s \in [1 .. Len(s) -> ToSet(s)] BY <1>1 DEF ToSet
<1>3. s = <<>> <=> ToSet(s) = {}
  <2>1. CASE Len(s) = 0
    <3>1. s = <<>> BY <2>1
    <3>2. ToSet(s) = {} BY <1>1, <2>1 DEF ToSet
    <3> QED BY <3>1, <3>2
  <2>2. CASE Len(s) # 0
    <3>1. s[1] \in ToSet(s) BY <1>1, <2>2 DEF ToSet
    <3>2. s # <<>> BY <2>2
    <3> QED BY <3>1, <3>2
  <2> QED BY <2>1, <2>2
<1>4. s \in Seq(ToSet(s)) BY <1>1, <1>2
<1> QED BY <1>1, <1>3, <1>4 DEF ToSet

(* Two elements joined on are two elements appended.                       *)
LEMMA AppendTwo ==
  ASSUME NEW X, NEW s \in Seq(X), NEW a \in X, NEW b \in X, NEW s1, s1 = Append(s, a), NEW s2, s2 = Append(s1, b)
  PROVE  s \o <<a, b>> = s2
OBVIOUS

(* Append, as the proofs use it: one longer, with the new one last.        *)
LEMMA AppendFacts ==
  ASSUME NEW X, NEW s \in Seq(X), NEW x \in X, NEW t, t = Append(s, x)
  PROVE  /\ t \in Seq(X) /\ Len(s) \in Nat /\ Len(t) = Len(s) + 1 /\ t[Len(t)] = x
         /\ \A k \in 1 .. Len(s) : t[k] = s[k]
         /\ t # <<>>
OBVIOUS

(* What a sequence is followed by.                                         *)
LEMMA ConcatFacts ==
  ASSUME NEW X, NEW s \in Seq(X), NEW t \in Seq(X), NEW u, u = s \o t
  PROVE  /\ u \in Seq(X) /\ Len(s) \in Nat /\ Len(t) \in Nat /\ Len(u) = Len(s) + Len(t)
         /\ \A k \in 1 .. Len(s) : u[k] = s[k]
         /\ \A k \in 1 .. Len(t) : u[Len(s) + k] = t[k]
<1>1. u \in Seq(X) /\ Len(s) \in Nat /\ Len(t) \in Nat /\ Len(u) = Len(s) + Len(t) OBVIOUS
<1>2. \A k \in 1 .. Len(s) : u[k] = s[k] OBVIOUS
<1>3. ASSUME NEW k \in 1 .. Len(t) PROVE u[Len(s) + k] = t[k]
  BY <1>1
<1> QED BY <1>1, <1>2, <1>3
-----------------------------------------------------------------------------
(* k is what stands in seq at the indices of S, in order, if pos tells     *)
(* where each of them comes from.                                          *)
Lists(k, seq, S, pos) ==
  /\ pos \in [1 .. Len(k) -> S]
  /\ \A i, j \in 1 .. Len(k) : i < j => pos[i] < pos[j]
  /\ \A i \in S : \E j \in 1 .. Len(k) : pos[j] = i
  /\ \A j \in 1 .. Len(k) : k[j] = seq[pos[j]]

(* A list of places goes on with one above them all.                       *)
LEMMA ListsMore ==
  ASSUME NEW X, NEW k \in Seq(X), NEW seq, NEW S \in SUBSET Nat, NEW pos, Lists(k, seq, S, pos),
         NEW m \in Nat, \A i \in S : i < m, NEW x \in X, seq[m] = x
  PROVE  \E more : Lists(Append(k, x), seq, S \cup {m}, more)
<1> DEFINE n == Len(k)
           t == Append(k, x)
<1>1. t \in Seq(X) /\ n \in Nat /\ Len(t) = n + 1 /\ t[n + 1] = x /\ \A j \in 1 .. n : t[j] = k[j]
  OBVIOUS
<1>2. /\ pos \in [1 .. n -> S]
      /\ \A i, j \in 1 .. n : i < j => pos[i] < pos[j]
      /\ \A i \in S : \E j \in 1 .. n : pos[j] = i
      /\ \A j \in 1 .. n : k[j] = seq[pos[j]]
  BY DEF Lists
<1> HIDE DEF n, t
<1>3. PICK more : more = [j \in 1 .. n + 1 |-> IF j = n + 1 THEN m ELSE pos[j]] OBVIOUS
<1>4. more[n + 1] = m /\ \A j \in 1 .. n : more[j] = pos[j]
  <2>1. n + 1 \in 1 .. n + 1 /\ \A j \in 1 .. n : j \in 1 .. n + 1 /\ j # n + 1 BY <1>1
  <2> QED BY <1>3, <2>1
<1>5. \A j \in 1 .. n + 1 : j \in 1 .. n \/ j = n + 1 BY <1>1
<1>6. more \in [1 .. n + 1 -> S \cup {m}]
  <2>1. \A j \in 1 .. n + 1 : more[j] \in S \cup {m} BY <1>2, <1>4, <1>5
  <2> QED BY <1>3, <2>1
<1>7. ASSUME NEW i \in 1 .. n + 1, NEW j \in 1 .. n + 1, i < j PROVE more[i] < more[j]
  <2>1. i \in 1 .. n BY <1>1, <1>7
  <2>2. pos[i] \in S BY <1>2, <2>1
  <2>3. CASE j = n + 1 BY <1>4, <2>1, <2>2, <2>3
  <2>4. CASE j \in 1 .. n BY <1>2, <1>4, <1>7, <2>1, <2>4
  <2> QED BY <1>5, <2>3, <2>4
<1>8. ASSUME NEW i \in S \cup {m} PROVE \E j \in 1 .. n + 1 : more[j] = i
  <2>1. CASE i = m BY <1>1, <1>4, <2>1
  <2>2. CASE i \in S
    <3>1. PICK j \in 1 .. n : pos[j] = i BY <1>2, <2>2
    <3> QED BY <1>1, <1>4, <3>1
  <2> QED BY <2>1, <2>2
<1>9. ASSUME NEW j \in 1 .. n + 1 PROVE t[j] = seq[more[j]]
  BY <1>1, <1>2, <1>4, <1>5
<1>10. Lists(t, seq, S \cup {m}, more) BY <1>1, <1>6, <1>7, <1>8, <1>9 DEF Lists
<1> QED BY <1>10 DEF t

(* What is listed may be read off any sequence that agrees at those        *)
(* places.                                                                 *)
LEMMA ListsSame ==
  ASSUME NEW k, NEW seq, NEW other, NEW S, NEW pos, Lists(k, seq, S, pos),
         \A i \in S : other[i] = seq[i]
  PROVE  Lists(k, other, S, pos)
BY DEF Lists

(* In a list the next of what is kept comes next.                          *)
NoneBetween(S, a, b) == a < b /\ \A c \in S : ~(a < c /\ c < b)
GoesOn(k, pos, i, d) == i + 1 \in 1 .. Len(k) /\ pos[i + 1] = d

(* The next of the places listed is the nearest one above.                 *)
LEMMA ListsNext ==
  ASSUME NEW k, Len(k) \in Nat, NEW seq, NEW S \in SUBSET Nat, NEW pos, Lists(k, seq, S, pos),
         NEW i \in 1 .. Len(k), NEW d \in S, NoneBetween(S, pos[i], d)
  PROVE  GoesOn(k, pos, i, d)
<1>0. pos[i] < d /\ \A c \in S : ~(pos[i] < c /\ c < d) BY DEF NoneBetween
<1>1. PICK j \in 1 .. Len(k) : pos[j] = d BY DEF Lists
<1>2. pos \in [1 .. Len(k) -> S] /\ \A a, b \in 1 .. Len(k) : a < b => pos[a] < pos[b] BY DEF Lists
<1>3. i < j
  <2>1. pos[i] \in Nat /\ pos[j] \in Nat BY <1>2
  <2>2. ~(j < i) /\ j # i BY <1>0, <1>1, <1>2, <2>1
  <2> QED BY <2>2
<1>4. i + 1 \in 1 .. Len(k) /\ pos[i] < pos[i + 1] BY <1>2, <1>3
<1>5. pos[i + 1] \in S BY <1>2, <1>4
<1>6. ~(i + 1 < j)
  <2> SUFFICES ASSUME i + 1 < j PROVE FALSE OBVIOUS
  <2>1. pos[i + 1] < d BY <1>1, <1>2, <1>4
  <2> QED BY <2>1, <1>0, <1>4, <1>5
<1>7. i + 1 = j BY <1>3, <1>6
<1> QED BY <1>1, <1>4, <1>7 DEF GoesOn

(* A list of nothing, and what is first in one.                            *)
LEMMA ListsNone == ASSUME NEW seq PROVE \E pos : Lists(<<>>, seq, {}, pos)
<1>1. PICK pos : pos = [j \in 1 .. 0 |-> 0] OBVIOUS
<1>2. Len(<<>>) = 0 /\ \A j \in 1 .. 0 : FALSE OBVIOUS
<1>3. pos \in [1 .. 0 -> {}] BY <1>1, <1>2
<1> QED BY <1>2, <1>3 DEF Lists

KeptIs(f, seq, S) ==
  f = [i \in 0 .. Len(seq) |->
        IF i = 0 THEN <<>> ELSE IF i \in S THEN Append(f[i - 1], seq[i]) ELSE f[i - 1]]

(* The function that Kept is the last value of exists.                     *)
LEMMA KeptExists ==
  ASSUME NEW X, NEW seq \in Seq(X), NEW S PROVE \E f : KeptIs(f, seq, S)
<1> DEFINE n == Len(seq)
           V == Seq(X)
<1>1. n \in Nat /\ \A k \in 1 .. n : seq[k] \in X BY SeqFacts
<1>2. PICK s : s = [k \in 1 .. n |-> [a \in V |-> IF k \in S THEN Append(a, seq[k]) ELSE a]]
  OBVIOUS
<1>3. s \in [1 .. n -> [V -> V]]
  <2>1. \A k \in 1 .. n : [a \in V |-> IF k \in S THEN Append(a, seq[k]) ELSE a] \in [V -> V]
    BY <1>1
  <2> HIDE DEF n, V
  <2> QED BY <1>2, <2>1
<1>4. <<>> \in V OBVIOUS
<1> HIDE DEF V, n
<1>5. PICK g : Stepped(g, n, V, <<>>, s) BY <1>1, <1>3, <1>4, Recursion
<1>6. g \in [0 .. n -> V] /\ g[0] = <<>> /\ \A i \in 1 .. n : g[i] = s[i][g[i - 1]]
  BY <1>5, Zenon DEF Stepped
<1>7. ASSUME NEW k \in 0 .. n
      PROVE  g[k] = IF k = 0 THEN <<>>
                    ELSE IF k \in S THEN Append(g[k - 1], seq[k]) ELSE g[k - 1]
  <2>1. CASE k = 0 BY <1>6, <2>1
  <2>2. CASE k # 0
    <3>1. k \in 1 .. n /\ k - 1 \in 0 .. n BY <1>1, <2>2
    <3>2. g[k - 1] \in V BY <1>6, <3>1
    <3>3. s[k] = [a \in V |-> IF k \in S THEN Append(a, seq[k]) ELSE a] BY <1>2, <3>1, Zenon
    <3>4. s[k][g[k - 1]] = IF k \in S THEN Append(g[k - 1], seq[k]) ELSE g[k - 1]
      BY <3>2, <3>3, Zenon
    <3> QED BY <1>6, <2>2, <3>1, <3>4, Zenon
  <2> QED BY <2>1, <2>2
<1>8. g = [k \in 0 .. n |-> g[k]] BY <1>6, Zenon
<1> QED BY <1>7, <1>8, Zenon DEF KeptIs, n

(* What Kept keeps is a list of what stands at the indices it is given.    *)
LEMMA KeptLists ==
  ASSUME NEW X, NEW seq \in Seq(X), NEW S, S \subseteq DOMAIN seq
  PROVE  Kept(seq, S) \in Seq(X) /\ \E pos : Lists(Kept(seq, S), seq, S, pos)
<1>1. PICK f : KeptIs(f, seq, S) /\ Kept(seq, S) = f[Len(seq)]
  <2>1. PICK g : KeptIs(g, seq, S) BY KeptExists
  <2>2. PICK f : f = (CHOOSE h : KeptIs(h, seq, S)) /\ KeptIs(f, seq, S) BY <2>1, Zenon
  <2>3. Kept(seq, S) = f[Len(seq)] BY <2>2, Zenon DEF Kept, KeptIs
  <2> QED BY <2>2, <2>3
<1> DEFINE n == Len(seq)
           Upto(m) == {i \in S : i <= m}
           T == {m \in 0 .. n : f[m] \in Seq(X) /\ \E pos : Lists(f[m], seq, Upto(m), pos)}
<1>2. n \in Nat /\ DOMAIN seq = 1 .. n /\ \A k \in 1 .. n : seq[k] \in X BY SeqFacts
<1>3. /\ f[0] = <<>>
      /\ \A k \in 1 .. n : f[k] = IF k \in S THEN Append(f[k - 1], seq[k]) ELSE f[k - 1]
  <2>1. 0 \in 0 .. n /\ \A k \in 1 .. n : k \in 0 .. n /\ k # 0 BY <1>2
  <2> QED BY <1>1, <2>1, Zenon DEF KeptIs
<1>a. S \subseteq 1 .. n BY <1>2
<1>4. 0 \in T
  <2>1. Upto(0) = {} BY <1>a
  <2>2. f[0] \in Seq(X) BY <1>3
  <2>3. \E pos : Lists(f[0], seq, Upto(0), pos) BY <1>3, <2>1, ListsNone
  <2>4. 0 \in 0 .. n BY <1>2
  <2> HIDE DEF Upto
  <2> QED BY <2>2, <2>3, <2>4
<1>5. ASSUME NEW m \in 0 .. n, m < n, m \in T PROVE m + 1 \in T
  <2>1. PICK k \in 1 .. n : k = m + 1 /\ k - 1 = m /\ k \in 0 .. n BY <1>2, <1>5
  <2>2. f[m] \in Seq(X) /\ \E pos : Lists(f[m], seq, Upto(m), pos) BY <1>5
  <2>3. PICK pos : Lists(f[m], seq, Upto(m), pos) BY <2>2
  <2>4. seq[k] \in X BY <1>2
  <2>5. f[k] = IF k \in S THEN Append(f[m], seq[k]) ELSE f[m] BY <1>3, <2>1, Zenon
  <2>6. Upto(m) \in SUBSET Nat /\ \A i \in Upto(m) : i < k BY <1>a, <2>1
  <2>7. CASE k \in S
    <3>1. Upto(k) = Upto(m) \cup {k} BY <1>a, <2>1, <2>7
    <3> HIDE DEF Upto, T
    <3>2. f[k] = Append(f[m], seq[k]) BY <2>5, <2>7
    <3>3. \E more : Lists(Append(f[m], seq[k]), seq, Upto(m) \cup {k}, more)
      <4>1. f[m] \in Seq(X) /\ k \in Nat /\ Lists(f[m], seq, Upto(m), pos) BY <2>1, <2>2, <2>3
      <4> QED BY <2>4, <2>6, <4>1, ListsMore
    <3>4. f[k] \in Seq(X) BY <2>2, <2>4, <3>2
    <3>5. f[k] \in Seq(X) /\ \E more : Lists(f[k], seq, Upto(k), more) BY <3>1, <3>2, <3>3, <3>4
    <3> QED BY <2>1, <3>5 DEF T
  <2>8. CASE k \notin S
    <3>1. Upto(k) = Upto(m)
      <4>1. \A i \in S : i <= k <=> i <= m BY <1>a, <2>1, <2>8
      <4> QED BY <4>1
    <3> HIDE DEF Upto
    <3> QED BY <2>1, <2>2, <2>5, <2>8, <3>1
  <2> QED BY <2>7, <2>8
<1>6. n \in T
  <2>1. n \in 0 .. n BY <1>2
  <2> HIDE DEF T
  <2> QED BY <1>2, <1>4, <1>5, <2>1, ClimbTo
<1>7. Upto(n) = S BY <1>a
<1> QED BY <1>1, <1>6, <1>7

-----------------------------------------------------------------------------
(* Numbers and expressions.                                                *)

LEMMA PadIs == ASSUME NEW a \in Int, NEW n \in Nat, n # 0 PROVE Pad(a, n) \in 0 .. n - 1
BY DEF Pad

(* Padding to four makes a multiple of four, and adds nothing to one.      *)
LEMMA PadFour == ASSUME NEW a \in Int PROVE (a + Pad(a, 4)) % 4 = 0 /\ (a % 4 = 0 => Pad(a, 4) = 0)
BY DEF Pad

(* Padding to eight makes a multiple of eight, and adds nothing to one.    *)
LEMMA PadEight == ASSUME NEW a \in Int PROVE (a + Pad(a, 8)) % 8 = 0 /\ (a % 8 = 0 => Pad(a, 8) = 0)
BY DEF Pad

(* A local label is found at most once: there is one definition that is    *)
(* the first further on, and one that is the last that is not.             *)
LEMMA LocalLabelIs ==
  ASSUME NEW defs \in Seq(Int), NEW from \in Int, NEW dir, NEW v \in LocalLabel(dir, from, defs)
  PROVE  /\ v \in Int /\ LocalLabel(dir, from, defs) = {v}
         /\ dir = "f" => \E h \in 1 .. Len(defs) : /\ v = defs[h] /\ from < v
                                                   /\ \A g \in 1 .. h - 1 : defs[g] <= from
         /\ dir # "f" => \E h \in 1 .. Len(defs) : /\ v = defs[h] /\ v <= from
                                                   /\ \A g \in h + 1 .. Len(defs) : from < defs[g]
<1> DEFINE D == 1 .. Len(defs)
           F == {h \in D : IsForward(defs[h], from) /\ \A g \in 1 .. h - 1 : ~IsForward(defs[g], from)}
           B == {h \in D : defs[h] <= from /\ \A g \in h + 1 .. Len(defs) : defs[g] > from}
<1>1. Len(defs) \in Nat /\ DOMAIN defs = D /\ \A h \in D : defs[h] \in Int BY SeqFacts
<1>2. LocalLabel(dir, from, defs) = {defs[k] : k \in IF dir = "f" THEN F ELSE B}
  BY <1>1 DEF LocalLabel
<1>3. CASE dir = "f"
  <2>1. LocalLabel(dir, from, defs) = {defs[k] : k \in F} BY <1>2, <1>3
  <2>2. PICK h \in F : v = defs[h] BY <2>1
  <2>3. \A k \in F : k = h
    <3>1. ASSUME NEW k \in F PROVE k = h
      <4>1. k \in D /\ h \in D OBVIOUS
      <4>2. ~(h \in 1 .. k - 1) /\ ~(k \in 1 .. h - 1) OBVIOUS
      <4> QED BY <1>1, <4>1, <4>2
    <3> QED BY <3>1
  <2>4. LocalLabel(dir, from, defs) = {v} BY <2>1, <2>2, <2>3
  <2>5. /\ h \in D /\ v = defs[h] /\ v > from /\ \A g \in 1 .. h - 1 : ~(defs[g] > from)
    BY <2>2 DEF IsForward
  <2>6. \A g \in 1 .. h - 1 : g \in D BY <1>1, <2>5
  <2>7. v \in Int /\ from < v /\ \A g \in 1 .. h - 1 : defs[g] <= from BY <1>1, <2>5, <2>6
  <2> QED BY <1>3, <2>4, <2>5, <2>7
<1>4. CASE dir # "f"
  <2>1. LocalLabel(dir, from, defs) = {defs[k] : k \in B} BY <1>2, <1>4
  <2>2. PICK h \in B : v = defs[h] BY <2>1
  <2>3. \A k \in B : k = h
    <3>1. ASSUME NEW k \in B PROVE k = h
      <4>1. k \in D /\ h \in D OBVIOUS
      <4>2. defs[k] <= from /\ defs[h] <= from /\ defs[k] \in Int /\ defs[h] \in Int BY <1>1
      <4>3. ~(h \in k + 1 .. Len(defs)) /\ ~(k \in h + 1 .. Len(defs)) BY <4>2
      <4> QED BY <1>1, <4>1, <4>3
    <3> QED BY <3>1
  <2>4. LocalLabel(dir, from, defs) = {v} BY <2>1, <2>2, <2>3
  <2>5. h \in D /\ v = defs[h] /\ v <= from /\ \A g \in h + 1 .. Len(defs) : defs[g] > from
    BY <2>2
  <2>6. \A g \in h + 1 .. Len(defs) : g \in D BY <1>1, <2>5
  <2>7. v \in Int /\ \A g \in h + 1 .. Len(defs) : from < defs[g] BY <1>1, <2>5, <2>6
  <2> QED BY <1>4, <2>4, <2>5, <2>7
<1> QED BY <1>3, <1>4

SymbolsOK(symbols) == \A n \in DOMAIN symbols : symbols[n] \in Int

(* What an expression means, by its form.                                  *)
LEMMA EvalCases ==
  ASSUME NEW e, NEW from, NEW symbols, NEW defs
  PROVE  /\ e.op = "int" => Eval(e, from, symbols, defs) = {e.v}
         /\ e.op = "dot" => Eval(e, from, symbols, defs) = {from}
         /\ e.op = "sym" => Eval(e, from, symbols, defs) =
                              IF e.v \in DOMAIN symbols THEN {symbols[e.v]} ELSE {}
         /\ e.op = "local" => Eval(e, from, symbols, defs) = LocalLabel(e.v, from, defs)
BY DEF Eval

(* An expression has one value at most, and it is a number.                *)
LEMMA EvalSingle ==
  ASSUME NEW e, IsExpr(e), NEW from \in Int, NEW symbols, SymbolsOK(symbols), NEW defs \in Seq(Int),
         NEW v \in Eval(e, from, symbols, defs)
  PROVE  v \in Int /\ Eval(e, from, symbols, defs) = {v}
<1>1. CASE e.op = "int" BY <1>1, EvalCases DEF IsExpr
<1>2. CASE e.op = "dot" BY <1>2, EvalCases
<1>3. CASE e.op = "sym" BY <1>3, EvalCases DEF SymbolsOK
<1>4. CASE e.op = "local"
  <2>1. v \in LocalLabel(e.v, from, defs) BY <1>4, EvalCases
  <2> QED BY <1>4, <2>1, EvalCases, LocalLabelIs
<1> QED BY <1>1, <1>2, <1>3, <1>4 DEF IsExpr

(* Before any local label there is none to find, and symbols that are only *)
(* added to leave a value as it was.                                       *)
Extends(more, symbols) ==
  DOMAIN symbols \subseteq DOMAIN more /\ \A n \in DOMAIN symbols : more[n] = symbols[n]

(* A value that pass 1 computed is still the value once more symbols are   *)
(* known.                                                                  *)
LEMMA EvalGrows ==
  ASSUME NEW e, IsExpr(e), NEW from, NEW symbols, NEW more, Extends(more, symbols), NEW defs,
         NEW v \in Eval(e, from, symbols, <<>>)
  PROVE  /\ e.op # "local" /\ v \in Eval(e, from, more, defs)
<1>1. CASE e.op = "int" BY <1>1, EvalCases
<1>2. CASE e.op = "dot" BY <1>2, EvalCases
<1>3. CASE e.op = "sym" BY <1>3, EvalCases DEF Extends
<1>4. CASE e.op = "local"
  <2>1. v \in LocalLabel(e.v, from, <<>>) BY <1>4, EvalCases
  <2>2. DOMAIN <<>> = {} OBVIOUS
  <2> QED BY <2>1, <2>2 DEF LocalLabel
<1> QED BY <1>1, <1>2, <1>3, <1>4 DEF IsExpr
-----------------------------------------------------------------------------
(* The literal pool.                                                       *)

IsEntry(x) ==
  /\ x = [w |-> x.w, e |-> x.e, evalPC |-> x.evalPC, pc |-> x.pc]
  /\ x.w \in {4, 8} /\ IsExpr(x.e) /\ x.evalPC \in Int /\ x.pc \in Int
IsPool(pool) == pool \in Seq(Range(pool)) /\ \A i \in DOMAIN pool : IsEntry(pool[i])

(* The pending entries of a width: those of that width, all of them.       *)
LEMMA OfWidthIs ==
  ASSUME NEW pool, NEW ids \in Seq(1 .. Len(pool)), NEW w, NEW part, part = OfWidth(pool, ids, w)
  PROVE  /\ part \in Seq(1 .. Len(pool)) /\ Len(part) \in Nat
         /\ \A k \in 1 .. Len(part) : part[k] \in Range(ids) /\ pool[part[k]].w = w
         /\ \A i \in Range(ids) : pool[i].w = w => \E k \in 1 .. Len(part) : part[k] = i
<1> DEFINE S == {k \in DOMAIN ids : pool[ids[k]].w = w}
<1>1. S \subseteq DOMAIN ids OBVIOUS
<1>2. part \in Seq(1 .. Len(pool)) /\ \E pos : Lists(part, ids, S, pos)
  <2>1. part = Kept(ids, S) BY DEF OfWidth
  <2> HIDE DEF S
  <2> QED BY <1>1, <2>1, KeptLists
<1>3. PICK pos : Lists(part, ids, S, pos) BY <1>2
<1>4. /\ pos \in [1 .. Len(part) -> S] /\ \A i \in S : \E j \in 1 .. Len(part) : pos[j] = i
      /\ \A j \in 1 .. Len(part) : part[j] = ids[pos[j]]
  BY <1>3 DEF Lists
<1>5. Len(part) \in Nat BY <1>2
<1>6. ASSUME NEW k \in 1 .. Len(part) PROVE part[k] \in Range(ids) /\ pool[part[k]].w = w
  <2>1. pos[k] \in S /\ part[k] = ids[pos[k]] BY <1>4
  <2> QED BY <2>1 DEF Range
<1>7. ASSUME NEW i \in Range(ids), pool[i].w = w PROVE \E k \in 1 .. Len(part) : part[k] = i
  <2>1. PICK a \in DOMAIN ids : ids[a] = i BY DEF Range
  <2>2. a \in S BY <1>7, <2>1
  <2>3. PICK k \in 1 .. Len(part) : pos[k] = a BY <1>4, <2>2
  <2> QED BY <1>4, <2>1, <2>3
<1>8. part \in Seq(1 .. Len(pool)) BY <1>2
<1> QED BY <1>5, <1>6, <1>7, <1>8, Zenon

PartIs(pool, ids, w, part) ==
  /\ part \in Seq(1 .. Len(pool)) /\ Len(part) \in Nat
  /\ \A k \in 1 .. Len(part) : part[k] \in Range(ids) /\ pool[part[k]].w = w
  /\ \A i \in Range(ids) : pool[i].w = w => \E k \in 1 .. Len(part) : part[k] = i

(* The entries of a width, as one fact.                                    *)
LEMMA PartOfWidth ==
  ASSUME NEW pool, NEW ids \in Seq(1 .. Len(pool)), NEW w, NEW part, part = OfWidth(pool, ids, w)
  PROVE  PartIs(pool, ids, w, part)
BY OfWidthIs DEF PartIs

(* Where the entries of a pool go depends on their widths only.            *)
SameWidths(pool, other) ==
  Len(pool) <= Len(other) /\ \A i \in 1 .. Len(pool) : other[i].w = pool[i].w

(* Two pools whose flushes end alike, each slot where it is in the other.  *)
SameSlots(pool, other, ids, from) ==
  /\ PoolEnd(other, ids, from) = PoolEnd(pool, ids, from)
  /\ \A i \in 1 .. Len(pool) : SlotPC(other, ids, from, i) = SlotPC(pool, ids, from, i)

(* Where the slots are depends on the widths of the entries only.          *)
LEMMA SlotsStable ==
  ASSUME NEW pool, Len(pool) \in Nat, NEW other, SameWidths(pool, other), NEW ids \in Seq(1 .. Len(pool)),
         NEW from
  PROVE  SameSlots(pool, other, ids, from)
<1>1. ASSUME NEW w PROVE OfWidth(other, ids, w) = OfWidth(pool, ids, w)
  <2>1. \A k \in DOMAIN ids : ids[k] \in 1 .. Len(pool) OBVIOUS
  <2>2. {k \in DOMAIN ids : other[ids[k]].w = w} = {k \in DOMAIN ids : pool[ids[k]].w = w}
    BY <2>1 DEF SameWidths
  <2> QED BY <2>2 DEF OfWidth
<1>2. Fours(other, ids) = Fours(pool, ids) /\ Eights(other, ids) = Eights(pool, ids)
  BY <1>1 DEF Fours, Eights
<1>3. FourBase(other, ids, from) = FourBase(pool, ids, from) BY <1>2 DEF FourBase
<1>4. FourEnd(other, ids, from) = FourEnd(pool, ids, from) BY <1>2, <1>3 DEF FourEnd
<1>5. EightBase(other, ids, from) = EightBase(pool, ids, from) BY <1>2, <1>4 DEF EightBase
<1>6. PoolEnd(other, ids, from) = PoolEnd(pool, ids, from) BY <1>2, <1>5 DEF PoolEnd
<1>7. ASSUME NEW i \in 1 .. Len(pool) PROVE SlotPC(other, ids, from, i) = SlotPC(pool, ids, from, i)
  <2>1. other[i].w = pool[i].w BY DEF SameWidths
  <2> QED BY <1>2, <1>3, <1>5, <2>1 DEF SlotPC
<1> QED BY <1>6, <1>7, Zenon DEF SameSlots

(* A pool ends where it does in any pool of the same widths.               *)
LEMMA EndSame ==
  ASSUME NEW pool, Len(pool) \in Nat, NEW other, SameWidths(pool, other), NEW ids \in Seq(1 .. Len(pool)),
         NEW from
  PROVE  PoolEnd(other, ids, from) = PoolEnd(pool, ids, from)
<1>1. SameSlots(pool, other, ids, from) BY SlotsStable, Zenon
<1> QED BY <1>1 DEF SameSlots

(* A slot is where it was in any pool of the same widths.                  *)
LEMMA SlotSame ==
  ASSUME NEW pool, Len(pool) \in Nat, NEW other, SameWidths(pool, other), NEW ids \in Seq(1 .. Len(pool)),
         NEW from, NEW i \in 1 .. Len(pool)
  PROVE  SlotPC(other, ids, from, i) = SlotPC(pool, ids, from, i)
<1>1. SameSlots(pool, other, ids, from) BY SlotsStable, Zenon
<1> QED BY <1>1 DEF SameSlots

(* The bounds of a pool, and where its slots are.                          *)
PoolShape(pool, ids, from) ==
  LET lf == Len(Fours(pool, ids))
      le == Len(Eights(pool, ids))
      fb == FourBase(pool, ids, from)
      eb == EightBase(pool, ids, from)
  IN  /\ lf \in Nat /\ le \in Nat /\ fb \in Int /\ eb \in Int
      /\ lf = 0 => fb = from
      /\ lf # 0 => fb = from + Pad(from, 4) /\ fb % 4 = 0
      /\ le = 0 => eb = fb + 4 * lf
      /\ le # 0 => eb = fb + 4 * lf + Pad(fb + 4 * lf, 8) /\ eb % 8 = 0
      /\ from <= fb /\ fb + 4 * lf <= eb
      /\ PoolEnd(pool, ids, from) = eb + 8 * le

(* A flush lays out its four-byte words, then its eight-byte ones, in      *)
(* order.                                                                  *)
LEMMA PoolIsShaped ==
  ASSUME NEW pool, Len(pool) \in Nat, NEW ids \in Seq(1 .. Len(pool)), NEW from \in Int
  PROVE  PoolShape(pool, ids, from)
<1> DEFINE F == Fours(pool, ids)
           E == Eights(pool, ids)
           lf == Len(F)
           le == Len(E)
           fb == FourBase(pool, ids, from)
           fe == FourEnd(pool, ids, from)
           eb == EightBase(pool, ids, from)
<1>1. F \in Seq(1 .. Len(pool)) /\ E \in Seq(1 .. Len(pool))
  <2>1. F = OfWidth(pool, ids, 4) /\ E = OfWidth(pool, ids, 8) BY DEF Fours, Eights
  <2> HIDE DEF F, E
  <2> QED BY <2>1, OfWidthIs
<1>2. lf \in Nat /\ le \in Nat /\ (lf = 0 <=> F = <<>>) /\ (le = 0 <=> E = <<>>)
  <2> HIDE DEF F, E
  <2> QED BY <1>1
<1>3. fb = (IF F = <<>> THEN from ELSE from + Pad(from, 4)) BY DEF FourBase
<1>4. fe = fb + 4 * lf BY DEF FourEnd
<1>5. eb = IF E = <<>> THEN fe ELSE fe + Pad(fe, 8) BY DEF EightBase
<1>6. PoolEnd(pool, ids, from) = eb + 8 * le BY DEF PoolEnd
<1> HIDE DEF F, E, lf, le, fb, fe, eb
<1>7. Pad(from, 4) \in 0 .. 3 /\ (from + Pad(from, 4)) % 4 = 0
  <2>1. 4 \in Nat /\ 4 # 0 OBVIOUS
  <2>2. Pad(from, 4) \in 0 .. 4 - 1 BY <2>1, PadIs
  <2> QED BY <2>2, PadFour
<1>8. fb \in Int /\ from <= fb /\ (lf = 0 => fb = from) /\ (lf # 0 => fb = from + Pad(from, 4) /\ fb % 4 = 0)
  BY <1>2, <1>3, <1>7
<1>9. fe \in Int BY <1>2, <1>4, <1>8
<1>10. Pad(fe, 8) \in 0 .. 7 /\ (fe + Pad(fe, 8)) % 8 = 0
  <2>1. 8 \in Nat /\ 8 # 0 OBVIOUS
  <2>2. Pad(fe, 8) \in 0 .. 8 - 1 BY <1>9, <2>1, PadIs
  <2> QED BY <1>9, <2>2, PadEight
<1>11. eb \in Int /\ fe <= eb /\ (le = 0 => eb = fe) /\ (le # 0 => eb = fe + Pad(fe, 8) /\ eb % 8 = 0)
  BY <1>2, <1>5, <1>9, <1>10
<1> QED BY <1>2, <1>4, <1>6, <1>8, <1>11 DEF PoolShape, F, E, lf, le, fb, eb

(* A pool that is not empty takes room.                                    *)
LEMMA PoolGrows ==
  ASSUME NEW pool, IsPool(pool), NEW ids \in Seq(1 .. Len(pool)), NEW from \in Int
  PROVE  /\ PoolEnd(pool, ids, from) \in Int /\ from <= PoolEnd(pool, ids, from)
         /\ ids # <<>> => from < PoolEnd(pool, ids, from)
<1>1. Len(pool) \in Nat /\ DOMAIN pool = 1 .. Len(pool) BY DEF IsPool
<1>2. PoolShape(pool, ids, from) BY <1>1, PoolIsShaped
<1>3. PICK lf, le, fb, eb : /\ lf = Len(Fours(pool, ids)) /\ le = Len(Eights(pool, ids))
                            /\ fb = FourBase(pool, ids, from) /\ eb = EightBase(pool, ids, from)
  OBVIOUS
<1>4. /\ lf \in Nat /\ le \in Nat /\ fb \in Int /\ eb \in Int
      /\ from <= fb /\ fb + 4 * lf <= eb /\ PoolEnd(pool, ids, from) = eb + 8 * le
  BY <1>2, <1>3 DEF PoolShape
<1>5. ids # <<>> => lf # 0 \/ le # 0
  <2> SUFFICES ASSUME ids # <<>> PROVE lf # 0 \/ le # 0 OBVIOUS
  <2>1. 1 \in DOMAIN ids /\ ids[1] \in 1 .. Len(pool) OBVIOUS
  <2>2. ids[1] \in Range(ids) BY <2>1 DEF Range
  <2>3. pool[ids[1]].w \in {4, 8} BY <1>1, <2>1 DEF IsPool, IsEntry
  <2>4. CASE pool[ids[1]].w = 4
    <3>1. PICK k \in 1 .. Len(Fours(pool, ids)) : TRUE BY <2>2, <2>4, OfWidthIs DEF Fours
    <3> QED BY <1>3, <1>4, <3>1
  <2>5. CASE pool[ids[1]].w = 8
    <3>1. PICK k \in 1 .. Len(Eights(pool, ids)) : TRUE BY <2>2, <2>5, OfWidthIs DEF Eights
    <3> QED BY <1>3, <1>4, <3>1
  <2> QED BY <2>3, <2>4, <2>5
<1> QED BY <1>4, <1>5

-----------------------------------------------------------------------------
(* Images.                                                                 *)

IsChunk(x) ==
  /\ x = [k |-> x.k, n |-> x.n, pc |-> x.pc, len |-> x.len, rec |-> x.rec, val |-> x.val]
  /\ x.pc \in Int /\ x.len \in Nat
End(x) == x.pc + x.len

(* Chunks one after the other, from one address to another.                *)
Contig(im, from, to) ==
  /\ from \in Int /\ to \in Int /\ from <= to
  /\ im \in Seq(Range(im)) /\ Len(im) \in Nat
  /\ \A c \in 1 .. Len(im) : IsChunk(im[c])
  /\ \A c \in 1 .. Len(im) : im[c].pc = IF c = 1 THEN from ELSE im[c - 1].pc + im[c - 1].len
  /\ \A c \in 1 .. Len(im) : from <= im[c].pc /\ End(im[c]) <= to
  /\ \A c, d \in 1 .. Len(im) : c < d => End(im[c]) <= im[d].pc
  /\ to = IF im = <<>> THEN from ELSE End(im[Len(im)])

(* A chunk has a first address and an end.                                 *)
LEMMA ChunkEnds == ASSUME NEW x, IsChunk(x) PROVE x.pc \in Int /\ x.len \in Nat /\ End(x) \in Int
<1>1. x.pc \in Int /\ x.len \in Nat BY DEF IsChunk
<1> QED BY <1>1 DEF End

(* A sequence of no elements is the empty one.                             *)
LEMMA EmptySeq == ASSUME NEW X, NEW s \in Seq(X), Len(s) = 0 PROVE s = <<>>
OBVIOUS

(* No chunks lie one after another from an address to itself.              *)
LEMMA ContigNone == ASSUME NEW from \in Int PROVE Contig(<<>>, from, from)
<1>1. Len(<<>>) = 0 /\ \A c \in 1 .. 0 : FALSE OBVIOUS
<1>2. <<>> \in Seq(Range(<<>>)) OBVIOUS
<1> QED BY <1>1, <1>2 DEF Contig

(* One more chunk, from the end, goes on without a gap.                    *)
LEMMA ContigMore ==
  ASSUME NEW im, NEW from, NEW to, Contig(im, from, to), NEW x, IsChunk(x), x.pc = to
  PROVE  Contig(Append(im, x), from, to + x.len)
<1>1. PICK n, t : n = Len(im) /\ t = Append(im, x) OBVIOUS
<1>2. /\ from \in Int /\ to \in Int /\ from <= to /\ n \in Nat /\ im \in Seq(Range(im))
      /\ \A c \in 1 .. n : IsChunk(im[c])
      /\ \A c \in 1 .. n : im[c].pc = IF c = 1 THEN from ELSE im[c - 1].pc + im[c - 1].len
      /\ \A c \in 1 .. n : from <= im[c].pc /\ End(im[c]) <= to
      /\ \A c, d \in 1 .. n : c < d => End(im[c]) <= im[d].pc
      /\ to = IF im = <<>> THEN from ELSE End(im[n])
  BY <1>1 DEF Contig
<1>3. /\ Len(t) = n + 1 /\ t[n + 1] = x /\ \A c \in 1 .. n : t[c] = im[c]
      /\ t # <<>> /\ DOMAIN t = 1 .. n + 1
  BY <1>1, <1>2
<1>4. t \in Seq(Range(t))
  <2>1. \A c \in 1 .. n + 1 : t[c] \in Range(t) BY <1>3 DEF Range
  <2>2. t \in Seq(Range(im) \cup {x}) BY <1>1, <1>2
  <2> QED BY <1>3, <2>1, <2>2
<1>5. x.len \in Nat /\ x.pc \in Int /\ End(x) = to + x.len BY DEF IsChunk, End
<1>6. \A c \in 1 .. n + 1 : c \in 1 .. n \/ c = n + 1 BY <1>2
<1>7. \A c \in 1 .. n + 1 : IsChunk(t[c]) BY <1>2, <1>3, <1>6
<1>8. ASSUME NEW c \in 1 .. n + 1
      PROVE  t[c].pc = IF c = 1 THEN from ELSE t[c - 1].pc + t[c - 1].len
  <2>1. CASE c \in 1 .. n
    <3>1. c = 1 \/ c - 1 \in 1 .. n BY <1>2, <2>1
    <3> QED BY <1>2, <1>3, <2>1, <3>1
  <2>2. CASE c = n + 1 /\ n = 0
    <3>1. im = <<>>
      <4>1. im \in Seq(Range(im)) /\ Len(im) = 0 BY <1>1, <1>2, <2>2
      <4> QED BY <4>1, EmptySeq
    <3> QED BY <1>2, <1>3, <2>2, <3>1
  <2>3. CASE c = n + 1 /\ n # 0
    <3>1. im # <<>> /\ n \in 1 .. n /\ c - 1 = n /\ c # 1 BY <1>1, <1>2, <2>3
    <3> QED BY <1>2, <1>3, <2>3, <3>1 DEF End
  <2> QED BY <1>6, <2>1, <2>2, <2>3
<1>9. ASSUME NEW c \in 1 .. n + 1 PROVE from <= t[c].pc /\ End(t[c]) <= to + x.len
  <2>1. CASE c \in 1 .. n
    <3>1. End(im[c]) <= to /\ End(im[c]) \in Int /\ from <= im[c].pc BY <1>2, <2>1, ChunkEnds
    <3> QED BY <1>2, <1>3, <1>5, <2>1, <3>1
  <2>2. CASE c = n + 1 BY <1>2, <1>3, <1>5, <2>2
  <2> QED BY <1>6, <2>1, <2>2
<1>10. ASSUME NEW c \in 1 .. n + 1, NEW d \in 1 .. n + 1, c < d PROVE End(t[c]) <= t[d].pc
  <2>1. c \in 1 .. n BY <1>2, <1>10
  <2>2. CASE d \in 1 .. n BY <1>2, <1>3, <1>10, <2>1, <2>2
  <2>3. CASE d = n + 1 BY <1>2, <1>3, <2>1, <2>3
  <2> QED BY <1>6, <2>2, <2>3
<1>11. to + x.len = End(t[n + 1]) BY <1>3, <1>5
<1>12. from <= to + x.len /\ to + x.len \in Int BY <1>2, <1>5
<1>13. Contig(t, from, to + x.len)
  BY <1>2, <1>3, <1>4, <1>7, <1>8, <1>9, <1>10, <1>11, <1>12 DEF Contig
<1> QED BY <1>1, <1>13

(* Chunks up to an address and chunks from it on lie one after another.    *)
LEMMA ContigJoin ==
  ASSUME NEW a, NEW b, NEW from, NEW mid, NEW to, Contig(a, from, mid), Contig(b, mid, to)
  PROVE  Contig(a \o b, from, to)
<1>1. PICK m, n, t : m = Len(a) /\ n = Len(b) /\ t = a \o b OBVIOUS
<1>2. /\ from \in Int /\ mid \in Int /\ from <= mid /\ m \in Nat /\ a \in Seq(Range(a))
      /\ \A c \in 1 .. m : IsChunk(a[c])
      /\ \A c \in 1 .. m : a[c].pc = IF c = 1 THEN from ELSE a[c - 1].pc + a[c - 1].len
      /\ \A c \in 1 .. m : from <= a[c].pc /\ End(a[c]) <= mid
      /\ \A c, d \in 1 .. m : c < d => End(a[c]) <= a[d].pc
      /\ mid = IF a = <<>> THEN from ELSE End(a[m])
  BY <1>1 DEF Contig
<1>3. /\ to \in Int /\ mid <= to /\ n \in Nat /\ b \in Seq(Range(b))
      /\ \A c \in 1 .. n : IsChunk(b[c])
      /\ \A c \in 1 .. n : b[c].pc = IF c = 1 THEN mid ELSE b[c - 1].pc + b[c - 1].len
      /\ \A c \in 1 .. n : mid <= b[c].pc /\ End(b[c]) <= to
      /\ \A c, d \in 1 .. n : c < d => End(b[c]) <= b[d].pc
      /\ to = IF b = <<>> THEN mid ELSE End(b[n])
  BY <1>1 DEF Contig
<1>4. /\ t \in Seq(Range(a) \cup Range(b)) /\ Len(t) = m + n
      /\ \A c \in 1 .. m : t[c] = a[c] /\ \A d \in 1 .. n : t[m + d] = b[d]
  <2>1. a \in Seq(Range(a) \cup Range(b)) /\ b \in Seq(Range(a) \cup Range(b)) BY <1>2, <1>3
  <2> QED BY <1>1, <2>1, ConcatFacts
<1>5. \A c \in 1 .. m : t[c] = a[c] BY <1>4
<1>6. \A d \in 1 .. n : t[m + d] = b[d]
  <2>1. a \in Seq(Range(a) \cup Range(b)) /\ b \in Seq(Range(a) \cup Range(b)) BY <1>2, <1>3
  <2> QED BY <1>1, <2>1, ConcatFacts
<1>7. \A c \in 1 .. m + n : c \in 1 .. m \/ (c - m \in 1 .. n /\ m + (c - m) = c /\ c \notin 1 .. m)
  BY <1>2, <1>3
<1>8. t \in Seq(Range(t))
  <2>1. DOMAIN t = 1 .. m + n BY <1>4
  <2>2. \A c \in 1 .. m + n : t[c] \in Range(t) BY <2>1 DEF Range
  <2> QED BY <1>4, <2>1, <2>2
<1>9. \A c \in 1 .. m + n : IsChunk(t[c]) BY <1>2, <1>3, <1>5, <1>6, <1>7
<1>10. ASSUME NEW c \in 1 .. m + n
       PROVE  t[c].pc = IF c = 1 THEN from ELSE t[c - 1].pc + t[c - 1].len
  <2>1. CASE c \in 1 .. m
    <3>1. c = 1 \/ c - 1 \in 1 .. m BY <1>2, <2>1
    <3> QED BY <1>2, <1>5, <2>1, <3>1
  <2>2. CASE c \notin 1 .. m
    <3>1. c - m \in 1 .. n /\ t[c] = b[c - m] BY <1>6, <1>7, <2>2
    <3>2. CASE c - m = 1
      <4>1. t[c].pc = mid BY <1>3, <3>1, <3>2
      <4>2. CASE m = 0
        <5>1. a = <<>>
          <6>1. a \in Seq(Range(a)) /\ Len(a) = 0 BY <1>1, <1>2, <4>2
          <6> QED BY <6>1, EmptySeq
        <5>2. c = 1 BY <3>2, <4>2
        <5> QED BY <1>2, <4>1, <5>1, <5>2
      <4>3. CASE m # 0
        <5>1. a # <<>> /\ m \in 1 .. m /\ c - 1 = m /\ c # 1 BY <1>1, <1>2, <3>2, <4>3
        <5> QED BY <1>2, <1>5, <4>1, <5>1 DEF End
      <4> QED BY <4>2, <4>3
    <3>3. CASE c - m # 1
      <4>1. (c - m) - 1 \in 1 .. n /\ m + ((c - m) - 1) = c - 1 /\ c # 1 BY <1>2, <1>3, <3>1, <3>3
      <4>2. t[c - 1] = b[(c - m) - 1] BY <1>6, <4>1
      <4> QED BY <1>3, <3>1, <3>3, <4>1, <4>2
    <3> QED BY <3>2, <3>3
  <2> QED BY <2>1, <2>2
<1>11. ASSUME NEW c \in 1 .. m + n PROVE from <= t[c].pc /\ End(t[c]) <= to
  <2>1. CASE c \in 1 .. m
    <3>1. End(a[c]) <= mid /\ End(a[c]) \in Int /\ from <= a[c].pc BY <1>2, <2>1, ChunkEnds
    <3> QED BY <1>2, <1>3, <1>5, <2>1, <3>1
  <2>2. CASE c \notin 1 .. m
    <3>1. c - m \in 1 .. n /\ t[c] = b[c - m] BY <1>6, <1>7, <2>2
    <3>2. mid <= b[c - m].pc /\ b[c - m].pc \in Int /\ End(b[c - m]) <= to
      BY <1>3, <3>1 DEF IsChunk
    <3> QED BY <1>2, <3>1, <3>2
  <2> QED BY <2>1, <2>2
<1>12. ASSUME NEW c \in 1 .. m + n, NEW d \in 1 .. m + n, c < d PROVE End(t[c]) <= t[d].pc
  <2>1. CASE d \in 1 .. m
    <3>1. c \in 1 .. m BY <1>2, <1>12, <2>1
    <3> QED BY <1>2, <1>5, <1>12, <2>1, <3>1
  <2>2. CASE d \notin 1 .. m
    <3>1. d - m \in 1 .. n /\ t[d] = b[d - m] BY <1>6, <1>7, <2>2
    <3>2. CASE c \in 1 .. m
      <4>1. End(a[c]) <= mid /\ End(a[c]) \in Int BY <1>2, <3>2, ChunkEnds
      <4>2. mid <= b[d - m].pc /\ b[d - m].pc \in Int BY <1>3, <3>1 DEF IsChunk
      <4> QED BY <1>2, <1>5, <3>1, <3>2, <4>1, <4>2
    <3>3. CASE c \notin 1 .. m
      <4>1. c - m \in 1 .. n /\ t[c] = b[c - m] BY <1>6, <1>7, <3>3
      <4>2. c - m < d - m BY <1>2, <1>12, <3>1, <4>1
      <4> QED BY <1>3, <3>1, <4>1, <4>2
    <3> QED BY <3>2, <3>3
  <2> QED BY <2>1, <2>2
<1>13. to = IF t = <<>> THEN from ELSE End(t[m + n])
  <2>1. CASE n = 0
    <3>0. b \in Seq(Range(b)) /\ Len(b) = 0 /\ a \in Seq(Range(a)) BY <1>1, <1>2, <1>3, <2>1
    <3>a. b = <<>> BY <3>0, EmptySeq
    <3>1. b = <<>> /\ t = a /\ m + n = m BY <1>1, <1>2, <2>1, <3>0, <3>a
    <3> QED BY <1>2, <1>3, <3>1
  <2>2. CASE n # 0
    <3>1. b # <<>> /\ t # <<>> /\ n \in 1 .. n BY <1>1, <1>2, <1>3, <1>4, <2>2
    <3> QED BY <1>3, <1>6, <3>1
  <2> QED BY <2>1, <2>2
<1>14. from <= to BY <1>2, <1>3
<1>15. Contig(t, from, to)
  BY <1>2, <1>3, <1>4, <1>8, <1>9, <1>10, <1>11, <1>12, <1>13, <1>14 DEF Contig
<1> QED BY <1>1, <1>15

(* Two chunks of four bytes or more at one address are one chunk, and what *)
(* stands between two addresses is between their chunks.                   *)
LEMMA ContigOrder ==
  ASSUME NEW im, NEW from, NEW to, Contig(im, from, to),
         NEW c \in 1 .. Len(im), NEW d \in 1 .. Len(im)
  PROVE  /\ im[c].pc \in Int /\ im[d].pc \in Int /\ im[c].len \in Nat /\ im[d].len \in Nat
         /\ im[c].pc < im[d].pc => c < d
         /\ c < d => im[c].pc + im[c].len <= im[d].pc
         /\ im[c].pc = im[d].pc /\ im[c].len # 0 /\ im[d].len # 0 => c = d
<1>1. IsChunk(im[c]) /\ IsChunk(im[d]) /\ (c < d => End(im[c]) <= im[d].pc)
      /\ (d < c => End(im[d]) <= im[c].pc)
  BY DEF Contig
<1>2. /\ im[c].pc \in Int /\ im[d].pc \in Int /\ im[c].len \in Nat /\ im[d].len \in Nat
      /\ End(im[c]) = im[c].pc + im[c].len /\ End(im[d]) = im[d].pc + im[d].len
  BY <1>1 DEF IsChunk, End
<1> QED BY <1>1, <1>2

-----------------------------------------------------------------------------
(* What emitFlush places.                                                  *)

ResReads(r) == IsPool(r.pool) /\ SymbolsOK(r.symbols) /\ r.localDefs \in Seq(Int)
EntryValue(r, i) == Eval(r.pool[i].e, r.pool[i].evalPC, r.symbols, r.localDefs)

Slots(n) == [k : {"pad", "pool"}, n : {""}, pc : Int, len : Nat, rec : {n}, val : Int]
Placing(n) == [pc : Int, known : BOOLEAN, out : Seq(Slots(n))]

EntryPlaced(r, n, acc, i, b, w, gap) ==
  /\ b \in Placing(n) /\ gap \in Slots(n)
  /\ EntryValue(r, i) = {} => b = [acc EXCEPT !.known = FALSE]
  /\ EntryValue(r, i) # {} =>
       \E x \in Int : \E slot \in Slots(n) :
         /\ slot = Chunk("pool", "", acc.pc + Pad(acc.pc, w), w, n, x)
         /\ EntryValue(r, i) = {x} /\ b.out = acc.out \o <<gap, slot>>
         /\ b.pc = acc.pc + Pad(acc.pc, w) + w /\ b.known = acc.known

(* What emitFlush does with one entry: its padding, then its slot.         *)
LEMMA PlaceEntryIs ==
  ASSUME NEW r, ResReads(r), NEW n, NEW acc \in Placing(n), NEW i \in 1 .. Len(r.pool)
  PROVE  EntryPlaced(r, n, acc, i, PlaceEntry(r, n, acc, i), r.pool[i].w,
                     Chunk("pad", "", acc.pc, Pad(acc.pc, r.pool[i].w), n, 0))
<1>1. PICK w, gap : w = r.pool[i].w /\ gap = Chunk("pad", "", acc.pc, Pad(acc.pc, w), n, 0) OBVIOUS
<1>2. IsEntry(r.pool[i])
  <2>1. DOMAIN r.pool = 1 .. Len(r.pool) BY DEF ResReads, IsPool
  <2> QED BY <2>1 DEF ResReads, IsPool
<1>3. w \in {4, 8} /\ IsExpr(r.pool[i].e) /\ r.pool[i].evalPC \in Int BY <1>1, <1>2 DEF IsEntry
<1>4. acc.pc \in Int /\ acc.known \in BOOLEAN /\ acc.out \in Seq(Slots(n)) BY DEF Placing
<1>5. Pad(acc.pc, w) \in Nat
  <2>1. w \in Nat /\ w # 0 BY <1>3
  <2>2. Pad(acc.pc, w) \in 0 .. w - 1 BY <1>4, <2>1, PadIs
  <2> QED BY <2>1, <2>2
<1>a. ASSUME NEW k \in {"pad", "pool"}, NEW a \in Int, NEW len \in Nat, NEW x \in Int
      PROVE  Chunk(k, "", a, len, n, x) \in Slots(n)
  BY DEF Slots, Chunk
<1>6. gap \in Slots(n) /\ gap.pc = acc.pc /\ gap.len = Pad(acc.pc, w)
  <2>1. gap \in Slots(n)
    <3>1. 0 \in Int /\ "pad" \in {"pad", "pool"} OBVIOUS
    <3>2. Chunk("pad", "", acc.pc, Pad(acc.pc, w), n, 0) \in Slots(n) BY <1>4, <1>5, <1>a, <3>1, Zenon
    <3> QED BY <1>1, <3>2
  <2> QED BY <1>1, <2>1 DEF Chunk
<1>7. PICK b : b = PlaceEntry(r, n, acc, i) OBVIOUS
<1>8. PICK v : v = EntryValue(r, i) OBVIOUS
<1>9. b = IF v = {} THEN [acc EXCEPT !.known = FALSE]
          ELSE [acc EXCEPT !.pc = gap.pc + gap.len + w,
                 !.out = @ \o <<gap, Chunk("pool", "", gap.pc + gap.len, w, n, CHOOSE x \in v : TRUE)>>]
  BY <1>1, <1>7, <1>8 DEF PlaceEntry, EntryValue
<1>10. CASE v = {}
  <2>1. b = [acc EXCEPT !.known = FALSE] BY <1>9, <1>10
  <2>2. b \in Placing(n) BY <2>1 DEF Placing
  <2>3. EntryPlaced(r, n, acc, i, b, w, gap) BY <1>6, <1>8, <1>10, <2>1, <2>2 DEF EntryPlaced
  <2> QED BY <1>1, <1>7, <2>3
<1>11. CASE v # {}
  <2>1. PICK x \in v : x = CHOOSE y \in v : TRUE BY <1>11
  <2>2. x \in Int /\ v = {x}
    <3>1. x \in Eval(r.pool[i].e, r.pool[i].evalPC, r.symbols, r.localDefs) BY <1>8, <2>1 DEF EntryValue
    <3>2. SymbolsOK(r.symbols) /\ r.localDefs \in Seq(Int) BY DEF ResReads
    <3>3. x \in Int /\ Eval(r.pool[i].e, r.pool[i].evalPC, r.symbols, r.localDefs) = {x}
      BY <1>3, <3>1, <3>2, EvalSingle
    <3> QED BY <1>8, <3>3 DEF EntryValue
  <2>3. PICK slot : slot = Chunk("pool", "", acc.pc + Pad(acc.pc, w), w, n, x) OBVIOUS
  <2>4. slot \in Slots(n) 
    <3>1. acc.pc + Pad(acc.pc, w) \in Int /\ w \in Nat BY <1>3, <1>4, <1>5
    <3> QED BY <2>2, <2>3, <3>1, <1>a
  <2>5. b = [acc EXCEPT !.pc = gap.pc + gap.len + w, !.out = @ \o <<gap, slot>>]
    BY <1>6, <1>9, <1>11, <2>1, <2>3
  <2>6. b.pc = acc.pc + Pad(acc.pc, w) + w /\ b.known = acc.known /\ b.out = acc.out \o <<gap, slot>>
    BY <1>4, <1>6, <2>5 DEF Placing
  <2>7. acc.out \o <<gap, slot>> \in Seq(Slots(n))
    <3>1. <<gap, slot>> \in Seq(Slots(n)) BY <1>6, <2>4
    <3> QED BY <1>4, <3>1
  <2>8. b \in Placing(n)
    <3>1. acc.pc + Pad(acc.pc, w) + w \in Int BY <1>3, <1>4, <1>5
    <3>2. b = [acc EXCEPT !.pc = acc.pc + Pad(acc.pc, w) + w, !.out = acc.out \o <<gap, slot>>]
      BY <1>6, <2>5
    <3> QED BY <2>7, <3>1, <3>2 DEF Placing
  <2>9. EntryPlaced(r, n, acc, i, b, w, gap)
    BY <1>6, <1>8, <1>11, <2>2, <2>3, <2>4, <2>6, <2>8 DEF EntryPlaced
  <2> QED BY <1>1, <1>7, <2>9
<1> QED BY <1>10, <1>11

AfterIs(f, r, n, from, order) ==
  f = [k \in 0 .. Len(order) |->
        IF k = 0 THEN [pc |-> from, known |-> TRUE, out |-> <<>>]
        ELSE PlaceEntry(r, n, f[k - 1], order[k])]

(* The function that Placed is the last value of exists.                   *)
LEMMA AfterExists ==
  ASSUME NEW r, ResReads(r), NEW n, NEW from \in Int, NEW order \in Seq(1 .. Len(r.pool))
  PROVE  \E f : AfterIs(f, r, n, from, order) /\ f \in [0 .. Len(order) -> Placing(n)]
<1> DEFINE m == Len(order)
           V == Placing(n)
           v == [pc |-> from, known |-> TRUE, out |-> <<>>]
<1>1. m \in Nat /\ \A k \in 1 .. m : order[k] \in 1 .. Len(r.pool) BY SeqFacts
<1>2. PICK s : s = [k \in 1 .. m |-> [a \in V |-> PlaceEntry(r, n, a, order[k])]] OBVIOUS
<1>3. v \in V BY DEF Placing
<1> HIDE DEF V, m, v
<1>4. s \in [1 .. m -> [V -> V]]
  <2>1. ASSUME NEW k \in 1 .. m PROVE [a \in V |-> PlaceEntry(r, n, a, order[k])] \in [V -> V]
    <3>1. ASSUME NEW a \in V PROVE PlaceEntry(r, n, a, order[k]) \in V
      <4>1. order[k] \in 1 .. Len(r.pool) /\ a \in Placing(n) BY <1>1 DEF V
      <4>2. EntryPlaced(r, n, a, order[k], PlaceEntry(r, n, a, order[k]), r.pool[order[k]].w,
                        Chunk("pad", "", a.pc, Pad(a.pc, r.pool[order[k]].w), n, 0))
        BY <4>1, PlaceEntryIs
      <4> QED BY <4>2 DEF EntryPlaced, V
    <3> QED BY <3>1
  <2> QED BY <1>2, <2>1
<1>5. PICK g : Stepped(g, m, V, v, s) BY <1>1, <1>3, <1>4, Recursion
<1>6. g \in [0 .. m -> V] /\ g[0] = v /\ \A i \in 1 .. m : g[i] = s[i][g[i - 1]]
  BY <1>5, Zenon DEF Stepped
<1>7. ASSUME NEW k \in 0 .. m
      PROVE  g[k] = IF k = 0 THEN v ELSE PlaceEntry(r, n, g[k - 1], order[k])
  <2>1. CASE k = 0 BY <1>6, <2>1
  <2>2. CASE k # 0
    <3>1. k \in 1 .. m /\ k - 1 \in 0 .. m BY <1>1, <2>2
    <3>2. g[k - 1] \in V BY <1>6, <3>1
    <3>3. s[k] = [a \in V |-> PlaceEntry(r, n, a, order[k])] BY <1>2, <3>1, Zenon
    <3>4. s[k][g[k - 1]] = PlaceEntry(r, n, g[k - 1], order[k]) BY <3>2, <3>3, Zenon
    <3> QED BY <1>6, <2>2, <3>1, <3>4, Zenon
  <2> QED BY <2>1, <2>2
<1>8. g = [k \in 0 .. m |-> g[k]] BY <1>6, Zenon
<1>9. AfterIs(g, r, n, from, order) BY <1>7, <1>8, Zenon DEF AfterIs, m, v
<1> QED BY <1>6, <1>9 DEF V, m

(* It is a run of chunks from where the pass stands; if every value is     *)
(* known it ends where pass 1 said, with every entry in its slot.          *)
Slotted(out, r, from, order, fb, lf, eb, j) ==
  \E s \in 1 .. Len(out) :
    /\ out[s].k = "pool" /\ out[s].len = r.pool[order[j]].w /\ EntryValue(r, order[j]) = {out[s].val}
    /\ out[s].pc = IF j <= lf THEN fb + 4 * (j - 1) ELSE eb + 8 * (j - lf - 1)

Reached(from, fb, lf, eb, m) ==
  IF m = 0 THEN from ELSE IF m <= lf THEN fb + 4 * m ELSE eb + 8 * (m - lf)

GoodRun(x, r, n, from, order, fb, lf, eb, m) ==
  /\ x.out \in Seq(Slots(n)) /\ x.known \in BOOLEAN
  /\ Contig(x.out, from, x.pc)
  /\ x.known => /\ x.pc = Reached(from, fb, lf, eb, m)
                /\ \A j \in 1 .. m : Slotted(x.out, r, from, order, fb, lf, eb, j)

(* A slot, or the padding before it, is a chunk.                           *)
LEMMA SlotIsChunk == ASSUME NEW n, NEW x \in Slots(n) PROVE IsChunk(x)
BY DEF Slots, IsChunk

(* The slots emitted stay where they are as more is emitted.               *)
LEMMA SlottedStays ==
  ASSUME NEW X, NEW out \in Seq(X), NEW more \in Seq(X), NEW r, NEW from, NEW order, NEW fb, NEW lf, NEW eb, NEW j,
         Slotted(out, r, from, order, fb, lf, eb, j)
  PROVE  Slotted(out \o more, r, from, order, fb, lf, eb, j)
<1>1. PICK s \in 1 .. Len(out) :
         /\ out[s].k = "pool" /\ out[s].len = r.pool[order[j]].w /\ EntryValue(r, order[j]) = {out[s].val}
         /\ out[s].pc = IF j <= lf THEN fb + 4 * (j - 1) ELSE eb + 8 * (j - lf - 1)
  BY DEF Slotted
<1>2. PICK u : u = out \o more OBVIOUS
<1>3. Len(u) = Len(out) + Len(more) /\ Len(out) \in Nat /\ Len(more) \in Nat /\ u[s] = out[s]
  BY <1>2, ConcatFacts
<1>4. s \in 1 .. Len(u) BY <1>3
<1>5. Slotted(u, r, from, order, fb, lf, eb, j) BY <1>1, <1>3, <1>4 DEF Slotted
<1> QED BY <1>2, <1>5

(* The address the next entry is padded to.                                *)
Planned(from, fb, lf, eb, le) ==
  /\ from \in Int /\ fb \in Int /\ eb \in Int /\ lf \in Nat /\ le \in Nat
  /\ lf = 0 => fb = from
  /\ lf # 0 => fb = from + Pad(from, 4) /\ fb % 4 = 0
  /\ le = 0 => eb = fb + 4 * lf
  /\ le # 0 => eb = fb + 4 * lf + Pad(fb + 4 * lf, 8) /\ eb % 8 = 0

(* Padding from the end of a slot leads to the next slot of the plan.      *)
LEMMA NextSlot ==
  ASSUME NEW from, NEW fb, NEW lf, NEW eb, NEW le, Planned(from, fb, lf, eb, le),
         NEW m \in 0 .. lf + le, m < lf + le,
         NEW w, w = IF m < lf THEN 4 ELSE 8,
         NEW at0, at0 = Reached(from, fb, lf, eb, m)
  PROVE  /\ at0 + Pad(at0, w) = IF m < lf THEN fb + 4 * m ELSE eb + 8 * (m - lf)
         /\ at0 + Pad(at0, w) + w = Reached(from, fb, lf, eb, m + 1)
<1> USE DEF Planned
<1>1. CASE m < lf
  <2>1. lf # 0 /\ w = 4 /\ m + 1 # 0 /\ m + 1 <= lf BY <1>1
  <2>2. Reached(from, fb, lf, eb, m + 1) = fb + 4 * (m + 1) BY <2>1 DEF Reached
  <2>3. CASE m = 0
    <3>1. at0 = from BY <2>3 DEF Reached
    <3> QED BY <1>1, <2>1, <2>2, <2>3, <3>1
  <2>4. CASE m # 0
    <3>1. at0 = fb + 4 * m BY <1>1, <2>4 DEF Reached
    <3>2. at0 % 4 = 0 /\ at0 \in Int BY <2>1, <3>1
    <3>3. Pad(at0, 4) = 0 BY <3>2, PadFour
    <3> QED BY <1>1, <2>1, <2>2, <3>1, <3>2, <3>3
  <2> QED BY <2>3, <2>4
<1>2. CASE ~(m < lf)
  <2>1. le # 0 /\ w = 8 /\ m + 1 # 0 /\ ~(m + 1 <= lf) BY <1>2
  <2>2. Reached(from, fb, lf, eb, m + 1) = eb + 8 * (m + 1 - lf) BY <2>1 DEF Reached
  <2>3. CASE m = lf
    <3>1. at0 = fb + 4 * lf
      <4>1. CASE m = 0 BY <2>3, <4>1 DEF Reached
      <4>2. CASE m # 0 BY <2>3, <4>2 DEF Reached
      <4> QED BY <4>1, <4>2
    <3>2. PICK p : p = Pad(at0, 8) OBVIOUS
    <3>3. at0 \in Int /\ 8 \in Nat /\ 8 # 0 BY <3>1
    <3>4. p \in 0 .. 8 - 1 BY <3>2, <3>3, PadIs
    <3>5. eb = at0 + p BY <2>1, <3>1, <3>2
    <3> QED BY <1>2, <2>1, <2>2, <2>3, <3>2, <3>3, <3>4, <3>5
  <2>4. CASE m # lf
    <3>1. at0 = eb + 8 * (m - lf) BY <1>2, <2>4 DEF Reached
    <3>2. at0 % 8 = 0 /\ at0 \in Int BY <2>1, <3>1
    <3>3. Pad(at0, 8) = 0 BY <3>2, PadEight
    <3> QED BY <1>2, <2>1, <2>2, <3>1, <3>2, <3>3
  <2> QED BY <2>3, <2>4
<1> QED BY <1>1, <1>2

(* An entry more is placed where the plan of the flush has it.             *)
LEMMA RunGoesOn ==
  ASSUME NEW r, ResReads(r), NEW n, NEW from, NEW fb, NEW lf, NEW eb, NEW le,
         Planned(from, fb, lf, eb, le),
         NEW order \in Seq(1 .. Len(r.pool)), NEW m \in 0 .. lf + le, m < lf + le,
         order[m + 1] \in 1 .. Len(r.pool),
         r.pool[order[m + 1]].w = IF m < lf THEN 4 ELSE 8,
         NEW acc \in Placing(n), GoodRun(acc, r, n, from, order, fb, lf, eb, m)
  PROVE  GoodRun(PlaceEntry(r, n, acc, order[m + 1]), r, n, from, order, fb, lf, eb, m + 1)
<1>0. lf \in Nat /\ le \in Nat /\ m \in Nat BY DEF Planned
<1>1. PICK i, b, w, gap : /\ i = order[m + 1] /\ w = r.pool[i].w /\ b = PlaceEntry(r, n, acc, i)
                       /\ gap = Chunk("pad", "", acc.pc, Pad(acc.pc, w), n, 0)
  OBVIOUS
<1>2. i \in 1 .. Len(r.pool) /\ w \in {4, 8} /\ w = IF m < lf THEN 4 ELSE 8 BY <1>1
<1>3. /\ b \in Placing(n) /\ gap \in Slots(n)
      /\ EntryValue(r, i) = {} => b = [acc EXCEPT !.known = FALSE]
      /\ EntryValue(r, i) # {} =>
           \E x \in Int : \E slot \in Slots(n) :
             /\ slot = Chunk("pool", "", acc.pc + Pad(acc.pc, w), w, n, x)
             /\ EntryValue(r, i) = {x} /\ b.out = acc.out \o <<gap, slot>>
             /\ b.pc = acc.pc + Pad(acc.pc, w) + w /\ b.known = acc.known
  <2>1. EntryPlaced(r, n, acc, i, PlaceEntry(r, n, acc, i), r.pool[i].w,
                    Chunk("pad", "", acc.pc, Pad(acc.pc, r.pool[i].w), n, 0))
    BY <1>2, PlaceEntryIs
  <2>2. EntryPlaced(r, n, acc, i, b, w, gap) BY <1>1, <2>1
  <2> QED BY <2>2 DEF EntryPlaced
<1>4. /\ acc.out \in Seq(Slots(n)) /\ acc.known \in BOOLEAN /\ Contig(acc.out, from, acc.pc)
      /\ acc.known => /\ acc.pc = Reached(from, fb, lf, eb, m)
                      /\ \A j \in 1 .. m : Slotted(acc.out, r, from, order, fb, lf, eb, j)
  BY DEF GoodRun
<1>5. CASE EntryValue(r, i) = {}
  <2>1. b = [acc EXCEPT !.known = FALSE] BY <1>3, <1>5
  <2>2. b.out = acc.out /\ b.pc = acc.pc /\ b.known = FALSE BY <2>1 DEF Placing
  <2>3. GoodRun(b, r, n, from, order, fb, lf, eb, m + 1) BY <1>4, <2>2 DEF GoodRun
  <2> QED BY <1>1, <2>3
<1>6. CASE EntryValue(r, i) # {}
  <2>1. PICK x \in Int, slot \in Slots(n) :
          /\ slot = Chunk("pool", "", acc.pc + Pad(acc.pc, w), w, n, x)
          /\ EntryValue(r, i) = {x}
          /\ b.pc = acc.pc + Pad(acc.pc, w) + w /\ b.known = acc.known
          /\ b.out = acc.out \o <<gap, slot>>
    BY <1>3, <1>6
  <2>2. PICK p : p = Pad(acc.pc, w) OBVIOUS
  <2>3. acc.pc \in Int BY DEF Placing
  <2>4. /\ gap.pc = acc.pc /\ gap.len = p /\ slot.pc = acc.pc + p /\ slot.len = w
        /\ slot.k = "pool" /\ slot.val = x
    BY <1>1, <2>1, <2>2 DEF Chunk
  <2>5. p \in Nat BY <1>3, <2>4 DEF Slots
  <2>6. IsChunk(gap) /\ IsChunk(slot) BY <1>3, <2>1, SlotIsChunk
  <2>7. PICK o1, o2 : o1 = Append(acc.out, gap) /\ o2 = Append(o1, slot) OBVIOUS
  <2>8. Contig(o1, from, acc.pc + p) BY <1>4, <2>4, <2>6, <2>7, ContigMore
  <2>9. Contig(o2, from, acc.pc + p + w) BY <2>4, <2>6, <2>7, <2>8, ContigMore
  <2>a. gap \in Slots(n) /\ slot \in Slots(n) /\ acc.out \in Seq(Slots(n)) BY <1>3, <1>4
  <2>10. <<gap, slot>> \in Seq(Slots(n)) BY <2>a
  <2>11. b.out = o2
    <3>1. acc.out \o <<gap, slot>> = o2 BY <2>7, <2>a, AppendTwo
    <3> QED BY <2>1, <3>1
  <2>12. o2 \in Seq(Slots(n)) /\ o2[Len(o2)] = slot /\ Len(o2) \in 1 .. Len(o2)
    <3>1. o1 \in Seq(Slots(n)) BY <2>7, <2>a, AppendFacts
    <3>2. o2 \in Seq(Slots(n)) /\ Len(o1) \in Nat /\ Len(o2) = Len(o1) + 1 /\ o2[Len(o2)] = slot
      BY <2>7, <2>a, <3>1, AppendFacts
    <3> QED BY <3>2
  <2>13. ASSUME b.known
         PROVE  /\ b.pc = Reached(from, fb, lf, eb, m + 1)
                /\ \A j \in 1 .. m + 1 : Slotted(b.out, r, from, order, fb, lf, eb, j)
    <3>1. acc.pc = Reached(from, fb, lf, eb, m) BY <1>4, <2>1, <2>13
    <3>2. /\ acc.pc + Pad(acc.pc, w) = IF m < lf THEN fb + 4 * m ELSE eb + 8 * (m - lf)
          /\ acc.pc + Pad(acc.pc, w) + w = Reached(from, fb, lf, eb, m + 1)
      BY <1>2, <3>1, NextSlot
    <3>3. ASSUME NEW j \in 1 .. m PROVE Slotted(b.out, r, from, order, fb, lf, eb, j)
      <4>1. Slotted(acc.out, r, from, order, fb, lf, eb, j) BY <1>4, <2>1, <2>13
      <4>2. Slotted(acc.out \o <<gap, slot>>, r, from, order, fb, lf, eb, j)
        BY <1>4, <2>10, <4>1, SlottedStays
      <4> QED BY <2>1, <4>2
    <3>4. Slotted(b.out, r, from, order, fb, lf, eb, m + 1)
      <4>3. PICK j : j = m + 1 OBVIOUS
      <4>1. slot.pc = IF j <= lf THEN fb + 4 * (j - 1) ELSE eb + 8 * (j - lf - 1)
        <5>1. j <= lf <=> m < lf BY <1>0, <4>3
        <5>2. j - 1 = m /\ j - lf - 1 = m - lf BY <1>0, <4>3
        <5> QED BY <2>2, <2>4, <3>2, <5>1, <5>2
      <4>2. EntryValue(r, order[m + 1]) = {slot.val} /\ slot.len = r.pool[order[m + 1]].w
        BY <1>1, <2>1, <2>4
      <4>4. PICK s \in 1 .. Len(o2) : o2[s] = slot BY <2>12
      <4>5. o2[s].k = "pool" /\ o2[s].len = r.pool[order[j]].w /\ EntryValue(r, order[j]) = {o2[s].val}
        BY <2>4, <4>2, <4>3, <4>4
      <4>6. o2[s].pc = IF j <= lf THEN fb + 4 * (j - 1) ELSE eb + 8 * (j - lf - 1)
        BY <4>1, <4>4, Zenon
      <4>7. Slotted(o2, r, from, order, fb, lf, eb, j)
        BY <4>5, <4>6, Zenon DEF Slotted
      <4> QED BY <2>11, <4>3, <4>7
    <3>5. \A j \in 1 .. m + 1 : j \in 1 .. m \/ j = m + 1 OBVIOUS
    <3>6. \A j \in 1 .. m + 1 : Slotted(b.out, r, from, order, fb, lf, eb, j)
      BY <3>3, <3>4, <3>5, Zenon
    <3> QED BY <2>1, <3>2, <3>6
  <2>14. b.known \in BOOLEAN BY <1>4, <2>1
  <2>15. Contig(b.out, from, b.pc) BY <2>1, <2>2, <2>9, <2>11
  <2>16. GoodRun(b, r, n, from, order, fb, lf, eb, m + 1)
    BY <2>11, <2>12, <2>13, <2>14, <2>15 DEF GoodRun
  <2> QED BY <1>1, <2>16
<1> QED BY <1>5, <1>6

HasSlot(out, r, ids, from, i) ==
  \E s \in 1 .. Len(out) :
    /\ out[s].k = "pool" /\ out[s].len = r.pool[i].w /\ EntryValue(r, i) = {out[s].val}
    /\ out[s].pc = SlotPC(r.pool, ids, from, i)

(* emitFlush places every entry in its slot and ends where flushPool       *)
(* ended.                                                                  *)
LEMMA PlacedIs ==
  ASSUME NEW r, ResReads(r), NEW n, NEW from \in Int, NEW ids \in Seq(1 .. Len(r.pool)),
         NEW x, x = Placed(r, n, from, Fours(r.pool, ids) \o Eights(r.pool, ids))
  PROVE  /\ x.out \in Seq(Slots(n)) /\ x.known \in BOOLEAN /\ Contig(x.out, from, x.pc)
         /\ x.known => /\ x.pc = PoolEnd(r.pool, ids, from)
                       /\ \A i \in Range(ids) : HasSlot(x.out, r, ids, from, i)
<1>1. PICK F, E, order : F = Fours(r.pool, ids) /\ E = Eights(r.pool, ids) /\ order = F \o E OBVIOUS
<1>2. PICK lf, le, fb, eb : /\ lf = Len(F) /\ le = Len(E)
                            /\ fb = FourBase(r.pool, ids, from) /\ eb = EightBase(r.pool, ids, from)
  OBVIOUS
<1>0. Len(r.pool) \in Nat /\ DOMAIN r.pool = 1 .. Len(r.pool) BY DEF ResReads, IsPool
<1>3. PoolShape(r.pool, ids, from) BY <1>0, PoolIsShaped
<1>4. /\ lf \in Nat /\ le \in Nat /\ fb \in Int /\ eb \in Int
      /\ lf = 0 => fb = from
      /\ lf # 0 => fb = from + Pad(from, 4) /\ fb % 4 = 0
      /\ le = 0 => eb = fb + 4 * lf
      /\ le # 0 => eb = fb + 4 * lf + Pad(fb + 4 * lf, 8) /\ eb % 8 = 0
      /\ PoolEnd(r.pool, ids, from) = eb + 8 * le
  BY <1>1, <1>2, <1>3 DEF PoolShape
<1>5. /\ F \in Seq(1 .. Len(r.pool)) /\ \A k \in 1 .. lf : r.pool[F[k]].w = 4
      /\ \A i \in Range(ids) : r.pool[i].w = 4 => \E k \in 1 .. lf : F[k] = i
  <2>1. F = OfWidth(r.pool, ids, 4) BY <1>1 DEF Fours
  <2>2. PartIs(r.pool, ids, 4, F) BY <2>1, PartOfWidth
  <2> QED BY <1>2, <2>2 DEF PartIs
<1>6. /\ E \in Seq(1 .. Len(r.pool)) /\ \A k \in 1 .. le : r.pool[E[k]].w = 8
      /\ \A i \in Range(ids) : r.pool[i].w = 8 => \E k \in 1 .. le : E[k] = i
  <2>1. E = OfWidth(r.pool, ids, 8) BY <1>1 DEF Eights
  <2>2. PartIs(r.pool, ids, 8, E) BY <2>1, PartOfWidth
  <2> QED BY <1>2, <2>2 DEF PartIs
<1>7. /\ order \in Seq(1 .. Len(r.pool)) /\ Len(order) = lf + le
      /\ \A k \in 1 .. lf : order[k] = F[k]
      /\ \A k \in 1 .. le : order[lf + k] = E[k]
  BY <1>1, <1>2, <1>5, <1>6, ConcatFacts
<1>8. ASSUME NEW m \in 0 .. lf + le, m < lf + le
      PROVE  order[m + 1] \in 1 .. Len(r.pool) /\ r.pool[order[m + 1]].w = IF m < lf THEN 4 ELSE 8
  <2>1. order[m + 1] \in 1 .. Len(r.pool) BY <1>4, <1>7, <1>8
  <2>2. CASE m < lf
    <3>1. m + 1 \in 1 .. lf BY <1>4, <2>2
    <3> QED BY <1>5, <1>7, <2>1, <2>2, <3>1
  <2>3. CASE ~(m < lf)
    <3>1. m + 1 - lf \in 1 .. le /\ lf + (m + 1 - lf) = m + 1 BY <1>4, <1>8, <2>3
    <3>2. order[m + 1] = E[m + 1 - lf] BY <1>7, <3>1
    <3> QED BY <1>6, <2>1, <2>3, <3>1, <3>2
  <2> QED BY <2>2, <2>3
<1>9. PICK f : AfterIs(f, r, n, from, order) /\ f \in [0 .. Len(order) -> Placing(n)] /\ x = f[Len(order)]
  <2>1. PICK g : AfterIs(g, r, n, from, order) /\ g \in [0 .. Len(order) -> Placing(n)] BY <1>7, AfterExists
  <2>2. PICK f : f = (CHOOSE h : AfterIs(h, r, n, from, order)) /\ AfterIs(f, r, n, from, order)
    BY <2>1, Zenon
  <2>3. Placed(r, n, from, order) = f[Len(order)] BY <2>2, Zenon DEF Placed, AfterIs
  <2>4. f \in [0 .. Len(order) -> Placing(n)]
    <3> DEFINE T == {m \in 0 .. Len(order) : f[m] = g[m]}
    <3>1. Len(order) \in Nat BY <1>4, <1>7
    <3>2. \A h : AfterIs(h, r, n, from, order) =>
             /\ h[0] = [pc |-> from, known |-> TRUE, out |-> <<>>]
             /\ \A k \in 1 .. Len(order) : h[k] = PlaceEntry(r, n, h[k - 1], order[k])
      <4>1. 0 \in 0 .. Len(order) /\ \A k \in 1 .. Len(order) : k \in 0 .. Len(order) /\ k # 0 BY <3>1
      <4> QED BY <4>1, Zenon DEF AfterIs
    <3>3. 0 \in T BY <2>1, <2>2, <3>1, <3>2
    <3>4. ASSUME NEW m \in 0 .. Len(order), m < Len(order), m \in T PROVE m + 1 \in T
      <4>1. m + 1 \in 1 .. Len(order) /\ m + 1 - 1 = m /\ m + 1 \in 0 .. Len(order) BY <3>1, <3>4
      <4>2. f[m + 1] = PlaceEntry(r, n, f[m], order[m + 1]) BY <2>2, <3>2, <4>1
      <4>3. g[m + 1] = PlaceEntry(r, n, g[m], order[m + 1]) BY <2>1, <3>2, <4>1
      <4> QED BY <3>4, <4>1, <4>2, <4>3
    <3>5. \A m \in 0 .. Len(order) : m \in T
      <4> HIDE DEF T
      <4> QED BY <3>1, <3>3, <3>4, ClimbTo
    <3>6. \A m \in 0 .. Len(order) : f[m] \in Placing(n) BY <2>1, <3>5
    <3>7. f = [m \in 0 .. Len(order) |-> f[m]] BY <2>2, Zenon DEF AfterIs
    <3> QED BY <3>6, <3>7
  <2> QED BY <1>1, <2>2, <2>3, <2>4
<1>10. /\ f[0] = [pc |-> from, known |-> TRUE, out |-> <<>>]
       /\ \A k \in 1 .. lf + le : f[k] = PlaceEntry(r, n, f[k - 1], order[k])
  <2>1. 0 \in 0 .. lf + le /\ \A k \in 1 .. lf + le : k \in 0 .. lf + le /\ k # 0 BY <1>4
  <2> QED BY <1>7, <1>9, <2>1, Zenon DEF AfterIs
<1> DEFINE T == {m \in 0 .. lf + le : GoodRun(f[m], r, n, from, order, fb, lf, eb, m)}
<1>11. 0 \in T
  <2>1. f[0].pc = from /\ f[0].known = TRUE /\ f[0].out = <<>> BY <1>10
  <2>2. Contig(f[0].out, from, f[0].pc) BY <2>1, ContigNone
  <2>3. Reached(from, fb, lf, eb, 0) = from BY DEF Reached
  <2>4. \A j \in 1 .. 0 : FALSE OBVIOUS
  <2>a. <<>> \in Seq(Slots(n)) /\ TRUE \in BOOLEAN OBVIOUS
  <2>5. f[0].out \in Seq(Slots(n)) /\ f[0].known \in BOOLEAN BY <2>1, <2>a, Zenon
  <2>6. \A j \in 1 .. 0 : Slotted(f[0].out, r, from, order, fb, lf, eb, j) BY <2>4, Zenon
  <2>7. f[0].pc = Reached(from, fb, lf, eb, 0) BY <2>1, <2>3
  <2>8. GoodRun(f[0], r, n, from, order, fb, lf, eb, 0) BY <2>2, <2>5, <2>6, <2>7, Zenon DEF GoodRun
  <2> QED BY <1>4, <2>8
<1>12. ASSUME NEW m \in 0 .. lf + le, m < lf + le, m \in T PROVE m + 1 \in T
  <2>1. m + 1 \in 1 .. lf + le /\ m + 1 - 1 = m /\ m + 1 \in 0 .. lf + le BY <1>4, <1>12
  <2>2. GoodRun(f[m], r, n, from, order, fb, lf, eb, m) BY <1>12
  <2>3. f[m + 1] = PlaceEntry(r, n, f[m], order[m + 1]) BY <1>10, <2>1
  <2>4. f[m] \in Placing(n) BY <1>7, <1>9
  <2>5. GoodRun(f[m + 1], r, n, from, order, fb, lf, eb, m + 1)
    <3>1. Planned(from, fb, lf, eb, le) BY <1>4 DEF Planned
    <3>2. order[m + 1] \in 1 .. Len(r.pool) /\ r.pool[order[m + 1]].w = IF m < lf THEN 4 ELSE 8
      BY <1>8, <1>12
    <3>3. GoodRun(PlaceEntry(r, n, f[m], order[m + 1]), r, n, from, order, fb, lf, eb, m + 1)
      BY <1>7, <1>12, <2>2, <2>4, <3>1, <3>2, RunGoesOn
    <3> QED BY <2>3, <3>3
  <2> QED BY <2>1, <2>5
<1>13. GoodRun(x, r, n, from, order, fb, lf, eb, lf + le)
  <2>1. lf + le \in Nat /\ lf + le \in 0 .. lf + le BY <1>4
  <2>2. \A m \in 0 .. lf + le : m \in T
    <3> HIDE DEF T
    <3> QED BY <1>11, <1>12, <2>1, ClimbTo
  <2>3. lf + le \in T BY <2>1, <2>2
  <2> QED BY <1>7, <1>9, <2>3
<1>14. Reached(from, fb, lf, eb, lf + le) = eb + 8 * le
  <2>1. CASE lf + le = 0
    <3>1. lf = 0 /\ le = 0 BY <1>4, <2>1
    <3> QED BY <1>4, <2>1, <3>1 DEF Reached
  <2>2. CASE lf + le # 0 /\ le = 0 BY <1>4, <2>2 DEF Reached
  <2>3. CASE le # 0
    <3>1. PICK m : m = lf + le OBVIOUS
    <3>2. ~(m <= lf) /\ m # 0 /\ m - lf = le BY <1>4, <2>3, <3>1
    <3>3. Reached(from, fb, lf, eb, m) = eb + 8 * (m - lf) BY <3>2 DEF Reached
    <3> QED BY <3>1, <3>2, <3>3
  <2> QED BY <2>1, <2>2, <2>3
<1>15. ASSUME x.known, NEW i \in Range(ids) PROVE HasSlot(x.out, r, ids, from, i)
  <2>1. \A j \in 1 .. lf + le : Slotted(x.out, r, from, order, fb, lf, eb, j)
    BY <1>13, <1>15 DEF GoodRun
  <2>2. r.pool[i].w \in {4, 8}
    <3>1. i \in 1 .. Len(r.pool) BY DEF Range
    <3> QED BY <1>0, <3>1 DEF ResReads, IsPool, IsEntry
  <2>3. CASE r.pool[i].w = 4
    <3>1. PICK k : k = Rank(F, i) OBVIOUS
    <3>2. \E h \in DOMAIN F : F[h] = i
      <4>1. DOMAIN F = 1 .. lf BY <1>2, <1>5
      <4> QED BY <1>5, <2>3, <4>1
    <3>3. k \in DOMAIN F /\ F[k] = i BY <3>1, <3>2 DEF Rank
    <3>4. k \in 1 .. lf /\ k \in 1 .. lf + le /\ k <= lf BY <1>2, <1>4, <1>5, <3>3
    <3>5. order[k] = i BY <1>7, <3>3, <3>4
    <3>6. SlotPC(r.pool, ids, from, i) = fb + 4 * (k - 1) BY <1>1, <1>2, <2>3, <3>1 DEF SlotPC
    <3>7. Slotted(x.out, r, from, order, fb, lf, eb, k) BY <2>1, <3>4
    <3> QED BY <3>4, <3>5, <3>6, <3>7 DEF Slotted, HasSlot
  <2>4. CASE r.pool[i].w = 8
    <3>1. PICK k : k = Rank(E, i) OBVIOUS
    <3>2. \E h \in DOMAIN E : E[h] = i
      <4>1. DOMAIN E = 1 .. le BY <1>2, <1>6
      <4> QED BY <1>6, <2>4, <4>1
    <3>3. k \in DOMAIN E /\ E[k] = i BY <3>1, <3>2 DEF Rank
    <3>4. /\ k \in 1 .. le /\ lf + k \in 1 .. lf + le /\ ~(lf + k <= lf)
          /\ lf + k - lf - 1 = k - 1
      <4>1. k \in 1 .. le BY <1>2, <1>6, <3>3
      <4>2. k \in Nat /\ lf \in Nat /\ le \in Nat /\ 1 <= k /\ k <= le BY <1>2, <1>4, <4>1
      <4> QED BY <4>1, <4>2
    <3>5. order[lf + k] = i BY <1>7, <3>3, <3>4
    <3>6. SlotPC(r.pool, ids, from, i) = eb + 8 * (k - 1) BY <1>1, <1>2, <2>4, <3>1 DEF SlotPC
    <3>7. PICK j : j = lf + k OBVIOUS
    <3>8. Slotted(x.out, r, from, order, fb, lf, eb, j) BY <2>1, <3>4, <3>7
    <3>9. ~(j <= lf) /\ j - lf - 1 = k - 1 /\ order[j] = i
      <4>1. k \in Nat BY <1>4, <3>4
      <4> QED BY <1>4, <3>4, <3>5, <3>7, <4>1
    <3>10. PICK s \in 1 .. Len(x.out) :
             /\ x.out[s].k = "pool" /\ x.out[s].len = r.pool[i].w /\ EntryValue(r, i) = {x.out[s].val}
             /\ x.out[s].pc = eb + 8 * (j - lf - 1)
      BY <3>8, <3>9 DEF Slotted
    <3> QED BY <3>6, <3>9, <3>10 DEF HasSlot
  <2> QED BY <2>2, <2>3, <2>4
<1> QED BY <1>4, <1>13, <1>14, <1>15 DEF GoodRun

(* A slot is as far in as the pool, and aligned to its width.              *)
LEMMA SlotAligned ==
  ASSUME NEW pool, IsPool(pool), NEW ids \in Seq(1 .. Len(pool)), NEW from \in Int, NEW i \in Range(ids)
  PROVE  SlotPC(pool, ids, from, i) \in Int /\ SlotPC(pool, ids, from, i) % pool[i].w = 0
<1>1. PICK F, E : F = Fours(pool, ids) /\ E = Eights(pool, ids) OBVIOUS
<1>2. PICK lf, le, fb, eb : /\ lf = Len(F) /\ le = Len(E)
                            /\ fb = FourBase(pool, ids, from) /\ eb = EightBase(pool, ids, from)
  OBVIOUS
<1>0. Len(pool) \in Nat /\ DOMAIN pool = 1 .. Len(pool) BY DEF IsPool
<1>3. PoolShape(pool, ids, from) BY <1>0, PoolIsShaped
<1>4. /\ lf \in Nat /\ le \in Nat /\ fb \in Int /\ eb \in Int
      /\ (lf # 0 => fb % 4 = 0) /\ (le # 0 => eb % 8 = 0)
  BY <1>1, <1>2, <1>3 DEF PoolShape
<1>f. lf # 0 => fb % 4 = 0 BY <1>1, <1>2, <1>3 DEF PoolShape
<1>e. le # 0 => eb % 8 = 0 BY <1>1, <1>2, <1>3 DEF PoolShape
<1>5. pool[i].w \in {4, 8}
  <2>1. i \in 1 .. Len(pool) BY DEF Range
  <2> QED BY <1>0, <2>1 DEF IsPool, IsEntry
<1>6. CASE pool[i].w = 4
  <2>1. PICK k : k = Rank(F, i) OBVIOUS
  <2>0. F = OfWidth(pool, ids, 4) BY <1>1, Zenon DEF Fours
  <2>p. PartIs(pool, ids, 4, F) BY <2>0, PartOfWidth, Zenon
  <2>2. F \in Seq(1 .. Len(pool)) /\ \E h \in 1 .. lf : F[h] = i BY <1>2, <1>6, <2>p, Zenon DEF PartIs
  <2>3. DOMAIN F = 1 .. lf BY <1>2, <2>2
  <2>4. k \in 1 .. lf BY <2>1, <2>2, <2>3 DEF Rank
  <2>5. SlotPC(pool, ids, from, i) = fb + 4 * (k - 1) BY <1>1, <1>2, <1>6, <2>1 DEF SlotPC
  <2>6. lf # 0 /\ k \in Int BY <1>4, <2>4
  <2> QED BY <1>4, <1>6, <1>f, <2>5, <2>6
<1>7. CASE pool[i].w = 8
  <2>1. PICK k : k = Rank(E, i) OBVIOUS
  <2>0. E = OfWidth(pool, ids, 8) BY <1>1, Zenon DEF Eights
  <2>p. PartIs(pool, ids, 8, E) BY <2>0, PartOfWidth, Zenon
  <2>2. E \in Seq(1 .. Len(pool)) /\ \E h \in 1 .. le : E[h] = i BY <1>2, <1>7, <2>p, Zenon DEF PartIs
  <2>3. DOMAIN E = 1 .. le BY <1>2, <2>2
  <2>4. k \in 1 .. le BY <2>1, <2>2, <2>3 DEF Rank
  <2>5. SlotPC(pool, ids, from, i) = eb + 8 * (k - 1) BY <1>1, <1>2, <1>7, <2>1 DEF SlotPC
  <2>6. le # 0 /\ k \in Int BY <1>4, <2>4
  <2> QED BY <1>4, <1>7, <1>e, <2>5, <2>6
<1> QED BY <1>5, <1>6, <1>7

-----------------------------------------------------------------------------
(* Pass1Result.                                                            *)

Result(sy, ld, po, lp, fl, rp, or, to) ==
  [symbols |-> sy, localDefs |-> ld, pool |-> po, ldrPool |-> lp, flushes |-> fl,
   recordPC |-> rp, origin |-> or, total |-> to]
Fields(r) == r = Result(r.symbols, r.localDefs, r.pool, r.ldrPool, r.flushes, r.recordPC, r.origin, r.total)

FlushOK(r) ==
  \A a \in DOMAIN r.flushes :
    /\ a \in Int /\ r.flushes[a].ids \in Seq(1 .. Len(r.pool)) /\ r.flushes[a].ids # <<>>
    /\ r.flushes[a].after = PoolEnd(r.pool, r.flushes[a].ids, a)

ResOK(r) ==
  /\ Fields(r) /\ ResReads(r) /\ FlushOK(r)
  /\ \A a \in DOMAIN r.ldrPool : r.ldrPool[a] \in 1 .. Len(r.pool)
  /\ r.recordPC \in Seq(Int) /\ r.origin \in Nat /\ r.total \in Int

(* The fields of a result, one by one.                                     *)
LEMMA ResultFields ==
  ASSUME NEW sy, NEW ld, NEW po, NEW lp, NEW fl, NEW rp, NEW or, NEW to,
         NEW r, r = Result(sy, ld, po, lp, fl, rp, or, to)
  PROVE  /\ r.symbols = sy /\ r.localDefs = ld /\ r.pool = po /\ r.ldrPool = lp /\ r.flushes = fl
         /\ r.recordPC = rp /\ r.origin = or /\ r.total = to
         /\ Fields(r)
BY DEF Result, Fields

(* A sequence over a set is one over any larger set.                       *)
LEMMA SeqWiden == ASSUME NEW X, NEW Y, X \subseteq Y, NEW s \in Seq(X) PROVE s \in Seq(Y)
OBVIOUS

(* g is f but for k, where it is v.                                        *)
WithAt(f, k, v, g) ==
  /\ DOMAIN g = DOMAIN f \cup {k} /\ g[k] = v
  /\ \A x \in DOMAIN f : x # k => g[x] = f[x]

(* With gives the key its value and leaves the others alone.               *)
LEMMA WithIs == ASSUME NEW f, NEW k, NEW v PROVE WithAt(f, k, v, With(f, k, v))
<1>1. PICK g : g = With(f, k, v) OBVIOUS
<1>2. g = [i \in DOMAIN f \cup {k} |-> IF i = k THEN v ELSE f[i]] BY <1>1 DEF With
<1>3. k \in DOMAIN f \cup {k} OBVIOUS
<1>4. g[k] = v BY <1>2, <1>3, Zenon
<1>5. \A x \in DOMAIN f : x # k => g[x] = f[x] BY <1>2, Zenon
<1>6. WithAt(f, k, v, g) BY <1>2, <1>4, <1>5 DEF WithAt
<1> QED BY <1>1, <1>6

(* Pass 1 starts from a well-formed result.                                *)
LEMMA EmptyIsResult == ResOK(EmptyResult)
<1>1. PICK r : r = EmptyResult OBVIOUS
<1>2. r = Result(Empty, <<>>, <<>>, Empty, Empty, <<>>, 0, 0) BY <1>1 DEF EmptyResult, Result
<1>3. /\ r.symbols = Empty /\ r.localDefs = <<>> /\ r.pool = <<>> /\ r.ldrPool = Empty
      /\ r.flushes = Empty /\ r.recordPC = <<>> /\ r.origin = 0 /\ r.total = 0 /\ Fields(r)
  BY <1>2, ResultFields
<1>4. DOMAIN Empty = {} BY DEF Empty
<1>5. <<>> \in Seq(Int) /\ <<>> \in Seq(Range(<<>>)) /\ DOMAIN <<>> = {} OBVIOUS
<1>6. ResReads(r) BY <1>3, <1>4, <1>5 DEF ResReads, IsPool, SymbolsOK
<1>7. FlushOK(r) BY <1>3, <1>4 DEF FlushOK
<1>8. \A a \in DOMAIN r.ldrPool : FALSE BY <1>3, <1>4
<1> QED BY <1>1, <1>3, <1>5, <1>6, <1>7, <1>8 DEF ResOK

(* The fields that only pass 1's own bookkeeping is about.                 *)
LEMMA ResNoted ==
  ASSUME NEW r, ResOK(r), NEW rp \in Seq(Int), NEW or \in Nat, NEW to \in Int,
         NEW ld \in Seq(Int), NEW sy, SymbolsOK(sy)
  PROVE  ResOK(Result(sy, ld, r.pool, r.ldrPool, r.flushes, rp, or, to))
<1>1. PICK q : q = Result(sy, ld, r.pool, r.ldrPool, r.flushes, rp, or, to) OBVIOUS
<1>2. /\ q.symbols = sy /\ q.localDefs = ld /\ q.pool = r.pool /\ q.ldrPool = r.ldrPool
      /\ q.flushes = r.flushes /\ q.recordPC = rp /\ q.origin = or /\ q.total = to /\ Fields(q)
  BY <1>1, ResultFields
<1>3. ResReads(q) BY <1>2 DEF ResOK, ResReads
<1>4. FlushOK(q) BY <1>2 DEF ResOK, FlushOK
<1>5. \A a \in DOMAIN q.ldrPool : q.ldrPool[a] \in 1 .. Len(q.pool) BY <1>2 DEF ResOK
<1>6. ResOK(q) BY <1>2, <1>3, <1>4, <1>5 DEF ResOK
<1> QED BY <1>1, <1>6

(* Another entry, or others' addresses: no flush is any different for it.  *)
LEMMA FlushesStable ==
  ASSUME NEW r, NEW q, IsPool(r.pool), SameWidths(r.pool, q.pool), Len(q.pool) \in Nat,
         q.flushes = r.flushes, FlushOK(r)
  PROVE  FlushOK(q)
<1>1. Len(r.pool) \in Nat BY DEF IsPool
<1>2. ASSUME NEW a \in DOMAIN r.flushes
      PROVE  /\ a \in Int /\ r.flushes[a].ids \in Seq(1 .. Len(q.pool)) /\ r.flushes[a].ids # <<>>
             /\ r.flushes[a].after = PoolEnd(q.pool, r.flushes[a].ids, a)
  <2>1. PICK ids : ids = r.flushes[a].ids OBVIOUS
  <2>2. a \in Int /\ ids \in Seq(1 .. Len(r.pool)) /\ ids # <<>> /\ r.flushes[a].after = PoolEnd(r.pool, ids, a)
    BY <2>1 DEF FlushOK
  <2>3. PoolEnd(q.pool, ids, a) = PoolEnd(r.pool, ids, a) BY <1>1, <2>2, EndSame
  <2>4. 1 .. Len(r.pool) \subseteq 1 .. Len(q.pool) BY <1>1 DEF SameWidths
  <2>5. ids \in Seq(1 .. Len(q.pool)) BY <2>2, <2>4, SeqWiden
  <2> QED BY <2>1, <2>2, <2>3, <2>5
<1> QED BY <1>2 DEF FlushOK

PoolAppended(pool, x, more) ==
  /\ IsPool(more) /\ Len(pool) \in Nat /\ Len(more) = Len(pool) + 1 /\ more[Len(more)] = x
  /\ \A i \in 1 .. Len(pool) : more[i] = pool[i]
  /\ SameWidths(pool, more)

(* A pool with an entry more is a pool.                                    *)
LEMMA PoolAppend ==
  ASSUME NEW pool, IsPool(pool), NEW x, IsEntry(x)
  PROVE  PoolAppended(pool, x, Append(pool, x))
<1>1. PICK t, n : t = Append(pool, x) /\ n = Len(pool) OBVIOUS
<1>2. pool \in Seq(Range(pool)) /\ n \in Nat /\ DOMAIN pool = 1 .. n /\ \A i \in 1 .. n : IsEntry(pool[i])
  BY <1>1 DEF IsPool
<1>3. /\ t \in Seq(Range(pool) \cup {x}) /\ Len(t) = n + 1 /\ t[n + 1] = x /\ \A i \in 1 .. n : t[i] = pool[i]
  <2>1. pool \in Seq(Range(pool) \cup {x}) BY <1>2
  <2> QED BY <1>1, <1>2, <2>1
<1>4. DOMAIN t = 1 .. n + 1 BY <1>2, <1>3
<1>5. t \in Seq(Range(t))
  <2>1. \A i \in 1 .. n + 1 : t[i] \in Range(t) BY <1>4 DEF Range
  <2> QED BY <1>3, <1>4, <2>1
<1>6. \A i \in 1 .. n + 1 : i \in 1 .. n \/ i = n + 1 BY <1>2
<1>7. \A i \in DOMAIN t : IsEntry(t[i]) BY <1>2, <1>3, <1>4, <1>6
<1>8. IsPool(t) BY <1>5, <1>7 DEF IsPool
<1>9. SameWidths(pool, t) BY <1>1, <1>2, <1>3 DEF SameWidths
<1> QED BY <1>1, <1>2, <1>3, <1>8, <1>9 DEF PoolAppended
-----------------------------------------------------------------------------
(* A literal at an address: with an entry there was, or a new one.         *)

Entry(rec, from) == [w |-> rec.w, e |-> rec.e, evalPC |-> from, pc |-> Unplaced]

(* A literal makes a pool entry of its width and expression.               *)
LEMMA EntryIs ==
  ASSUME NEW rec, IsRecord(rec), rec.k = "ldr", NEW from \in Int
  PROVE  IsEntry(Entry(rec, from)) /\ Entry(rec, from).w = rec.w /\ Entry(rec, from).e = rec.e
<1>1. rec.w \in {4, 8} /\ IsExpr(rec.e) BY DEF IsRecord
<1> QED BY <1>1 DEF Entry, IsEntry, Unplaced

(* A literal that shares a slot leaves a well-formed result.               *)
LEMMA ResShares ==
  ASSUME NEW r, ResOK(r), NEW rp \in Seq(Int), NEW from, NEW i \in 1 .. Len(r.pool)
  PROVE  ResOK(Result(r.symbols, r.localDefs, r.pool, With(r.ldrPool, from, i), r.flushes, rp, r.origin, r.total))
<1>1. PICK q, lp : /\ lp = With(r.ldrPool, from, i)
                   /\ q = Result(r.symbols, r.localDefs, r.pool, lp, r.flushes, rp, r.origin, r.total)
  OBVIOUS
<1>a. q = Result(r.symbols, r.localDefs, r.pool, lp, r.flushes, rp, r.origin, r.total) BY <1>1
<1>2. /\ q.symbols = r.symbols /\ q.localDefs = r.localDefs /\ q.pool = r.pool /\ q.ldrPool = lp
      /\ q.flushes = r.flushes /\ q.recordPC = rp /\ q.origin = r.origin /\ q.total = r.total /\ Fields(q)
  BY <1>a, ResultFields
<1>3. ResReads(q) BY <1>2 DEF ResOK, ResReads
<1>4. FlushOK(q) BY <1>2 DEF ResOK, FlushOK
<1>5. \A a \in DOMAIN lp : lp[a] \in 1 .. Len(q.pool)
  <2>0. WithAt(r.ldrPool, from, i, lp) BY <1>1, WithIs
  <2>1. /\ DOMAIN lp = DOMAIN r.ldrPool \cup {from} /\ lp[from] = i
        /\ \A x \in DOMAIN r.ldrPool : x # from => lp[x] = r.ldrPool[x]
    BY <2>0 DEF WithAt
  <2> QED BY <1>2, <2>1 DEF ResOK
<1>6. ResOK(q) BY <1>2, <1>3, <1>4, <1>5 DEF ResOK
<1> QED BY <1>1, <1>6

(* A literal with a slot of its own leaves a well-formed result.           *)
LEMMA ResRegisters ==
  ASSUME NEW r, ResOK(r), NEW rp \in Seq(Int), NEW from, NEW x, IsEntry(x)
  PROVE  ResOK(Result(r.symbols, r.localDefs, Append(r.pool, x), With(r.ldrPool, from, Len(r.pool) + 1),
                      r.flushes, rp, r.origin, r.total))
<1>1. PICK q, lp, po : /\ lp = With(r.ldrPool, from, Len(r.pool) + 1) /\ po = Append(r.pool, x)
                       /\ q = Result(r.symbols, r.localDefs, po, lp, r.flushes, rp, r.origin, r.total)
  OBVIOUS
<1>a. q = Result(r.symbols, r.localDefs, po, lp, r.flushes, rp, r.origin, r.total) BY <1>1
<1>2. /\ q.symbols = r.symbols /\ q.localDefs = r.localDefs /\ q.pool = po /\ q.ldrPool = lp
      /\ q.flushes = r.flushes /\ q.recordPC = rp /\ q.origin = r.origin /\ q.total = r.total /\ Fields(q)
  BY <1>a, ResultFields
<1>3. IsPool(r.pool) BY DEF ResOK, ResReads
<1>4. PoolAppended(r.pool, x, po) BY <1>1, <1>3, PoolAppend
<1>5. IsPool(po) /\ Len(r.pool) \in Nat /\ Len(po) = Len(r.pool) + 1 /\ SameWidths(r.pool, po)
  BY <1>4 DEF PoolAppended
<1>6. ResReads(q) BY <1>2, <1>5 DEF ResOK, ResReads
<1>7. FlushOK(q)
  <2>1. FlushOK(r) BY DEF ResOK
  <2> QED BY <1>2, <1>3, <1>5, <2>1, FlushesStable
<1>8. \A a \in DOMAIN lp : lp[a] \in 1 .. Len(q.pool)
  <2>0. WithAt(r.ldrPool, from, Len(r.pool) + 1, lp) BY <1>1, WithIs
  <2>1. /\ DOMAIN lp = DOMAIN r.ldrPool \cup {from} /\ lp[from] = Len(r.pool) + 1
        /\ \A y \in DOMAIN r.ldrPool : y # from => lp[y] = r.ldrPool[y]
    BY <2>0 DEF WithAt
  <2>2. \A y \in DOMAIN r.ldrPool : r.ldrPool[y] \in 1 .. Len(r.pool) BY DEF ResOK
  <2>3. 1 .. Len(r.pool) \subseteq 1 .. Len(po) /\ Len(r.pool) + 1 \in 1 .. Len(po) BY <1>5
  <2> QED BY <1>2, <2>1, <2>2, <2>3
<1>9. ResOK(q) BY <1>2, <1>6, <1>7, <1>8 DEF ResOK
<1> QED BY <1>1, <1>9
-----------------------------------------------------------------------------
(* A flush: every pending entry gets its slot.                             *)

SetPCs(pool, ids, from) ==
  [i \in DOMAIN pool |-> IF i \in Range(ids) THEN [pool[i] EXCEPT !.pc = SlotPC(pool, ids, from, i)] ELSE pool[i]]

(* A flush gives its entries their slots and changes nothing else of the   *)
(* pool.                                                                   *)
LEMMA PCsSet ==
  ASSUME NEW pool, IsPool(pool), NEW ids \in Seq(1 .. Len(pool)), NEW from \in Int,
         NEW set, set = SetPCs(pool, ids, from)
  PROVE  /\ IsPool(set) /\ Len(set) = Len(pool) /\ SameWidths(pool, set)
         /\ \A i \in 1 .. Len(pool) : set[i].e = pool[i].e /\ set[i].evalPC = pool[i].evalPC
         /\ \A i \in Range(ids) : set[i].pc = SlotPC(pool, ids, from, i)
         /\ \A i \in 1 .. Len(pool) : i \notin Range(ids) => set[i] = pool[i]
<1>1. PICK n : n = Len(pool) OBVIOUS
<1>2. n \in Nat /\ DOMAIN pool = 1 .. n /\ \A i \in 1 .. n : IsEntry(pool[i]) BY <1>1 DEF IsPool
<1>3. DOMAIN set = 1 .. n
      /\ \A i \in 1 .. n : set[i] = IF i \in Range(ids) THEN [pool[i] EXCEPT !.pc = SlotPC(pool, ids, from, i)]
                                    ELSE pool[i]
  BY <1>2 DEF SetPCs
<1>4. set \in Seq(Range(set)) /\ Len(set) = n
  <2>1. set = [i \in 1 .. n |-> set[i]] BY <1>2, <1>3 DEF SetPCs
  <2>2. \A i \in 1 .. n : set[i] \in Range(set) BY <1>3 DEF Range
  <2>3. set \in [1 .. n -> Range(set)] BY <2>1, <2>2
  <2> QED BY <1>2, <2>3
<1>5. ASSUME NEW i \in 1 .. n, i \in Range(ids)
      PROVE  /\ IsEntry(set[i]) /\ set[i].pc = SlotPC(pool, ids, from, i)
             /\ set[i].e = pool[i].e /\ set[i].evalPC = pool[i].evalPC /\ set[i].w = pool[i].w
  <2>1. PICK s, x : s = SlotPC(pool, ids, from, i) /\ x = pool[i] OBVIOUS
  <2>2. s \in Int BY <1>5, <2>1, SlotAligned
  <2>3. set[i] = [x EXCEPT !.pc = s] BY <1>3, <1>5, <2>1
  <2>4. IsEntry(x) BY <1>2, <2>1
  <2> HIDE DEF SetPCs
  <2>5. /\ x = [w |-> x.w, e |-> x.e, evalPC |-> x.evalPC, pc |-> x.pc]
        /\ x.w \in {4, 8} /\ IsExpr(x.e) /\ x.evalPC \in Int
    BY <2>4 DEF IsEntry
  <2>6. set[i] = [w |-> x.w, e |-> x.e, evalPC |-> x.evalPC, pc |-> s] BY <2>3, <2>5
  <2> QED BY <2>1, <2>2, <2>5, <2>6 DEF IsEntry
<1>6. ASSUME NEW i \in 1 .. n, i \notin Range(ids) PROVE IsEntry(set[i]) /\ set[i] = pool[i]
  BY <1>2, <1>3, <1>6
<1>7. IsPool(set) BY <1>3, <1>4, <1>5, <1>6 DEF IsPool
<1>8. SameWidths(pool, set) BY <1>1, <1>2, <1>4, <1>5, <1>6 DEF SameWidths
<1>9. Range(ids) \subseteq 1 .. n BY <1>1 DEF Range
<1> QED BY <1>1, <1>4, <1>5, <1>6, <1>7, <1>8, <1>9

FlushEntry(pool, ids, from) == [ids |-> ids, after |-> PoolEnd(pool, ids, from)]

(* What flushPool makes of a result, field by field.                       *)
LEMMA FlushMakes ==
  ASSUME NEW r, Fields(r), NEW ids, ids # <<>>, NEW from
  PROVE  Flush(r, ids, from) =
           Result(r.symbols, r.localDefs, SetPCs(r.pool, ids, from), r.ldrPool,
                  With(r.flushes, from, FlushEntry(r.pool, ids, from)), r.recordPC, r.origin, r.total)
<1>1. PICK q : q = Flush(r, ids, from) OBVIOUS
<1>2. PICK po, fl : /\ po = SetPCs(r.pool, ids, from)
                    /\ fl = With(r.flushes, from, FlushEntry(r.pool, ids, from))
  OBVIOUS
<1>3. q = [r EXCEPT !.pool = po, !.flushes = fl] BY <1>1, <1>2 DEF Flush, SetPCs, FlushEntry
<1>4. q = Result(r.symbols, r.localDefs, po, r.ldrPool, fl, r.recordPC, r.origin, r.total)
  BY <1>3 DEF Fields, Result
<1> QED BY <1>1, <1>2, <1>4

(* A flush leaves a well-formed result.                                    *)
LEMMA ResFlushes ==
  ASSUME NEW r, ResOK(r), NEW ids \in Seq(1 .. Len(r.pool)), ids # <<>>, NEW from \in Int
  PROVE  ResOK(Flush(r, ids, from))
<1>1. PICK q, po, fl : /\ q = Flush(r, ids, from) /\ po = SetPCs(r.pool, ids, from)
                       /\ fl = With(r.flushes, from, FlushEntry(r.pool, ids, from))
  OBVIOUS
<1>2. q = Result(r.symbols, r.localDefs, po, r.ldrPool, fl, r.recordPC, r.origin, r.total)
  BY <1>1, FlushMakes DEF ResOK
<1>3. /\ q.symbols = r.symbols /\ q.localDefs = r.localDefs /\ q.pool = po /\ q.ldrPool = r.ldrPool
      /\ q.flushes = fl /\ q.recordPC = r.recordPC /\ q.origin = r.origin /\ q.total = r.total /\ Fields(q)
  BY <1>2, ResultFields
<1>4. IsPool(r.pool) /\ FlushOK(r) BY DEF ResOK, ResReads
<1>5. IsPool(po) /\ Len(po) = Len(r.pool) /\ SameWidths(r.pool, po) BY <1>1, <1>4, PCsSet
<1>6. ResReads(q) BY <1>3, <1>5 DEF ResOK, ResReads
<1>7. Len(r.pool) \in Nat BY <1>4 DEF IsPool
<1>8. FlushOK(q)
  <2>0. WithAt(r.flushes, from, FlushEntry(r.pool, ids, from), fl) BY <1>1, WithIs
  <2>1. /\ DOMAIN fl = DOMAIN r.flushes \cup {from} /\ fl[from] = FlushEntry(r.pool, ids, from)
        /\ \A y \in DOMAIN r.flushes : y # from => fl[y] = r.flushes[y]
    BY <2>0 DEF WithAt
  <2> SUFFICES ASSUME NEW a \in DOMAIN fl
               PROVE  /\ a \in Int /\ fl[a].ids \in Seq(1 .. Len(po)) /\ fl[a].ids # <<>>
                      /\ fl[a].after = PoolEnd(po, fl[a].ids, a)
    BY <1>3 DEF FlushOK
  <2>2. CASE a = from
    <3>1. fl[a].ids = ids /\ fl[a].after = PoolEnd(r.pool, ids, from) BY <2>1, <2>2 DEF FlushEntry
    <3>2. PoolEnd(po, ids, from) = PoolEnd(r.pool, ids, from) BY <1>5, <1>7, EndSame
    <3> QED BY <1>5, <2>2, <3>1, <3>2
  <2>3. CASE a # from
    <3>1. a \in DOMAIN r.flushes /\ fl[a] = r.flushes[a] BY <2>1, <2>3
    <3>2. PICK js : js = r.flushes[a].ids OBVIOUS
    <3>3. a \in Int /\ js \in Seq(1 .. Len(r.pool)) /\ js # <<>> /\ r.flushes[a].after = PoolEnd(r.pool, js, a)
      BY <1>4, <3>1, <3>2 DEF FlushOK
    <3>4. PoolEnd(po, js, a) = PoolEnd(r.pool, js, a) BY <1>5, <1>7, <3>3, EndSame
    <3> QED BY <1>5, <3>1, <3>2, <3>3, <3>4
  <2> QED BY <2>2, <2>3
<1>9. ResOK(q) BY <1>3, <1>5, <1>6, <1>8 DEF ResOK
<1> QED BY <1>1, <1>9

-----------------------------------------------------------------------------
(* What a step of pass 1 makes of the results at a record.                 *)

MadeLabel(rec, r, c, ids, r2, c2, ids2) ==
  /\ rec.k = "label" /\ c2 = c /\ ids2 = ids
  /\ r2 = Result(With(r.symbols, rec.n, c), r.localDefs, r.pool, r.ldrPool, r.flushes,
                 Append(r.recordPC, c), r.origin, r.total)
MadeLocal(rec, r, c, ids, r2, c2, ids2) ==
  /\ rec.k = "local" /\ c2 = c /\ ids2 = ids
  /\ r2 = Result(r.symbols, Append(r.localDefs, c), r.pool, r.ldrPool, r.flushes,
                 Append(r.recordPC, c), r.origin, r.total)
MadeSet(rec, r, c, ids, r2, c2, ids2) ==
  /\ rec.k = "set" /\ c2 = c /\ ids2 = ids /\ rec.n \notin DOMAIN r.symbols
  /\ \E x \in Eval(rec.e, 0, r.symbols, <<>>) :
       r2 = Result(With(r.symbols, rec.n, x), r.localDefs, r.pool, r.ldrPool, r.flushes,
                   Append(r.recordPC, c), r.origin, r.total)
MadeCode(rec, r, c, ids, r2, c2, ids2) ==
  /\ rec.k = "inst" /\ c2 = c + 4 /\ ids2 = ids
  /\ r2 = Result(r.symbols, r.localDefs, r.pool, r.ldrPool, r.flushes,
                 Append(r.recordPC, c), r.origin, r.total)
MadeShared(rec, r, c, ids, r2, c2, ids2) ==
  /\ rec.k = "ldr" /\ c2 = c + 4 /\ ids2 = ids
  /\ \E i \in Range(ids) :
       /\ r.pool[i].w = rec.w /\ r.pool[i].e = rec.e
       /\ r2 = Result(r.symbols, r.localDefs, r.pool, With(r.ldrPool, c, i), r.flushes,
                      Append(r.recordPC, c), r.origin, r.total)
MadeEntry(rec, r, c, ids, r2, c2, ids2) ==
  /\ rec.k = "ldr" /\ c2 = c + 4 /\ ids2 = Append(ids, Len(r.pool) + 1)
  /\ r2 = Result(r.symbols, r.localDefs, Append(r.pool, Entry(rec, c)),
                 With(r.ldrPool, c, Len(r.pool) + 1), r.flushes,
                 Append(r.recordPC, c), r.origin, r.total)
MadeFlush(rec, r, c, ids, r2, c2, ids2) ==
  /\ rec.k = "ltorg" /\ ids # <<>> /\ c2 = PoolEnd(r.pool, ids, c) /\ ids2 = <<>>
  /\ r2 = Result(r.symbols, r.localDefs, SetPCs(r.pool, ids, c), r.ldrPool,
                 With(r.flushes, c, FlushEntry(r.pool, ids, c)),
                 Append(r.recordPC, c), r.origin, r.total)
MadeNothing(rec, r, c, ids, r2, c2, ids2) ==
  /\ rec.k = "ltorg" /\ ids = <<>> /\ c2 = c /\ ids2 = <<>>
  /\ r2 = Result(r.symbols, r.localDefs, r.pool, r.ldrPool, r.flushes,
                 Append(r.recordPC, c), r.origin, r.total)
MadeOrg(rec, r, c, ids, r2, c2, ids2) ==
  /\ rec.k = "org" /\ ids2 = ids
  /\ \E or \in {c2, r.origin} :
       /\ c2 \in Eval(rec.e, c, r.symbols, <<>>) /\ ~(c2 < c)
       /\ or = IF c = r.origin /\ r.pool = <<>> /\ c = 0 /\ c2 # 0 THEN c2 ELSE r.origin
       /\ r2 = Result(r.symbols, r.localDefs, r.pool, r.ldrPool, r.flushes,
                      Append(r.recordPC, c), or, r.total)
SizeIs(rec, c, sy, n) ==
  \/ rec.k = "data" /\ n = rec.w
  \/ rec.k = "balign" /\ n = Pad(c, rec.w)
  \/ rec.k = "skip" /\ n \in Eval(rec.e, c, sy, <<>>)
  \/ rec.k = "section" /\ n = 0
MadeSize(rec, r, c, ids, r2, c2, ids2) ==
  /\ ids2 = ids
  /\ \E n : SizeIs(rec, c, r.symbols, n) /\ c2 = c + n
  /\ r2 = Result(r.symbols, r.localDefs, r.pool, r.ldrPool, r.flushes,
                 Append(r.recordPC, c), r.origin, r.total)

Made(rec, r, c, ids, r2, c2, ids2) ==
  \/ MadeLabel(rec, r, c, ids, r2, c2, ids2) \/ MadeLocal(rec, r, c, ids, r2, c2, ids2)
  \/ MadeSet(rec, r, c, ids, r2, c2, ids2) \/ MadeCode(rec, r, c, ids, r2, c2, ids2)
  \/ MadeShared(rec, r, c, ids, r2, c2, ids2) \/ MadeEntry(rec, r, c, ids, r2, c2, ids2)
  \/ MadeFlush(rec, r, c, ids, r2, c2, ids2) \/ MadeNothing(rec, r, c, ids, r2, c2, ids2)
  \/ MadeOrg(rec, r, c, ids, r2, c2, ids2) \/ MadeSize(rec, r, c, ids, r2, c2, ids2)

(* A program is a sequence of records.                                     *)
LEMMA ProgramFacts ==
  ASSUME NEW p, IsProgram(p)
  PROVE  Len(p) \in Nat /\ DOMAIN p = 1 .. Len(p) /\ \A i \in 1 .. Len(p) : IsRecord(p[i])
BY DEF IsProgram

(* Pass1Result, the record and the address pass 1 has come to, and what is *)
(* pending.                                                                *)
Typed1(p, r, a, c, ids) ==
  /\ IsProgram(p) /\ a \in 1 .. Len(p) + 1 /\ c \in Int /\ ResOK(r)
  /\ ids \in Seq(1 .. Len(r.pool)) /\ Len(r.recordPC) = a - 1

Walk1 == LabelDef1 \/ LocalDef1 \/ Inst1 \/ LdrLiteral1 \/ Set1 \/ Ltorg1 \/ Org1 \/ Directive1

(* Noting a record changes recordPC alone.                                 *)
LEMMA SeenIs ==
  ASSUME NEW r, Fields(r), NEW c, NEW q, q = [r EXCEPT !.recordPC = Append(@, c)]
  PROVE  q = Result(r.symbols, r.localDefs, r.pool, r.ldrPool, r.flushes, Append(r.recordPC, c), r.origin, r.total)
BY DEF Fields, Result

Gone == stage' = "error"
WalkedOn ==
  /\ at \in 1 .. Len(prog) /\ Made(Here, res, pc, pending, res', pc', pending')
  /\ at' = at + 1 /\ stage' = "pass1" /\ UNCHANGED <<prog, given, image, relaid>>

(* Each action of pass 1 fails or makes of the result what its record asks *)
(* for.                                                                    *)
LEMMA Walk1Makes ==
  ASSUME Typed1(prog, res, at, pc, pending), stage = "pass1", Walk1
  PROVE  Gone \/ WalkedOn
<1>1. Fields(res) /\ IsProgram(prog) /\ at \in 1 .. Len(prog) + 1 /\ Len(prog) \in Nat
  <2>1. IsProgram(prog) /\ at \in 1 .. Len(prog) + 1 /\ ResOK(res) BY DEF Typed1
  <2> QED BY <2>1, ProgramFacts DEF ResOK
<1>2. PICK q : q = Seen OBVIOUS
<1>3. PICK rp : rp = Append(res.recordPC, pc) OBVIOUS
<1>4. q = Result(res.symbols, res.localDefs, res.pool, res.ldrPool, res.flushes, rp, res.origin, res.total)
  BY <1>1, <1>2, <1>3, SeenIs DEF Seen
<1>a. /\ q.symbols = res.symbols /\ q.localDefs = res.localDefs /\ q.pool = res.pool /\ q.ldrPool = res.ldrPool
      /\ q.flushes = res.flushes /\ q.recordPC = rp /\ q.origin = res.origin /\ q.total = res.total /\ Fields(q)
  BY <1>4, ResultFields
<1>5. \A k : In("pass1", k) /\ Step1 =>
        /\ at \in 1 .. Len(prog) /\ Here.k = k
        /\ at' = at + 1 /\ stage' = "pass1" /\ UNCHANGED <<prog, given, image, relaid>>
  BY <1>1 DEF In, Step1
<1>6. CASE LabelDef1
  <2>1. In("pass1", "label") /\ Step1 /\ pc' = pc /\ pending' = pending
        /\ res' = [q EXCEPT !.symbols = With(@, Here.n, pc)]
    BY <1>2, <1>6 DEF LabelDef1
  <2>2. res' = Result(With(res.symbols, Here.n, pc), res.localDefs, res.pool, res.ldrPool, res.flushes,
                      rp, res.origin, res.total)
    BY <1>4, <2>1 DEF Result
  <2>3. MadeLabel(Here, res, pc, pending, res', pc', pending') BY <1>3, <1>5, <2>1, <2>2 DEF MadeLabel
  <2> QED BY <1>5, <2>1, <2>3 DEF Made, WalkedOn
<1>7. CASE LocalDef1
  <2>1. In("pass1", "local") /\ Step1 /\ pc' = pc /\ pending' = pending
        /\ res' = [q EXCEPT !.localDefs = Append(@, pc)]
    BY <1>2, <1>7 DEF LocalDef1
  <2>2. res' = Result(res.symbols, Append(res.localDefs, pc), res.pool, res.ldrPool, res.flushes,
                      rp, res.origin, res.total)
    BY <1>4, <2>1 DEF Result
  <2>3. MadeLocal(Here, res, pc, pending, res', pc', pending') BY <1>3, <1>5, <2>1, <2>2 DEF MadeLocal
  <2> QED BY <1>5, <2>1, <2>3 DEF Made, WalkedOn
<1>8. CASE Inst1
  <2>1. In("pass1", "inst") /\ Step1 /\ res' = q /\ pc' = pc + 4 /\ pending' = pending
    BY <1>2, <1>8 DEF Inst1
  <2>2. MadeCode(Here, res, pc, pending, res', pc', pending') BY <1>3, <1>4, <1>5, <2>1 DEF MadeCode
  <2> QED BY <1>5, <2>1, <2>2 DEF Made, WalkedOn
<1>9. CASE LdrLiteral1
  <2>1. In("pass1", "ldr") /\ Step1 /\ registerLiteral(Here, q) /\ pc' = pc + 4
    BY <1>2, <1>9 DEF LdrLiteral1
  <2>2. CASE Shared(Here) # {}
    <3>1. PICK i \in Shared(Here) : i = CHOOSE j \in Shared(Here) : TRUE BY <2>2
    <3>2. res' = [q EXCEPT !.ldrPool = With(@, pc, i)] /\ pending' = pending
      BY <2>1, <2>2, <3>1 DEF registerLiteral
    <3>3. i \in Range(pending) /\ res.pool[i].w = Here.w /\ res.pool[i].e = Here.e
      BY DEF Shared, SameKey
    <3>4. res' = Result(res.symbols, res.localDefs, res.pool, With(res.ldrPool, pc, i), res.flushes,
                        rp, res.origin, res.total)
      BY <1>4, <3>2 DEF Result
    <3>5. MadeShared(Here, res, pc, pending, res', pc', pending')
      BY <1>3, <1>5, <2>1, <3>2, <3>3, <3>4 DEF MadeShared
    <3> QED BY <1>5, <2>1, <3>5 DEF Made, WalkedOn
  <2>3. CASE Shared(Here) = {}
    <3>1. PICK i : i = Len(res.pool) + 1 OBVIOUS
    <3>2. /\ res' = [q EXCEPT
                      !.pool = Append(@, [w |-> Here.w, e |-> Here.e, evalPC |-> pc, pc |-> Unplaced]),
                      !.ldrPool = With(@, pc, i)]
          /\ pending' = Append(pending, i)
      BY <1>a, <2>1, <2>3, <3>1 DEF registerLiteral
    <3>3. res' = Result(res.symbols, res.localDefs, Append(res.pool, Entry(Here, pc)),
                        With(res.ldrPool, pc, i), res.flushes, rp, res.origin, res.total)
      BY <1>4, <3>2 DEF Result, Entry
    <3>4. MadeEntry(Here, res, pc, pending, res', pc', pending')
      BY <1>3, <1>5, <2>1, <3>1, <3>2, <3>3 DEF MadeEntry
    <3> QED BY <1>5, <2>1, <3>4 DEF Made, WalkedOn
  <2> QED BY <2>2, <2>3
<1>10. CASE Set1
  <2>1. PICK v : v = Eval(Here.e, 0, res.symbols, <<>>) OBVIOUS
  <2>2. In("pass1", "set") BY <1>10 DEF Set1
  <2>3. CASE v = {} \/ Here.n \in DOMAIN res.symbols
    <3>1. Fail BY <1>10, <2>1, <2>3 DEF Set1, pass1EvalCtx
    <3> QED BY <3>1 DEF Fail, Gone
  <2>4. CASE ~(v = {} \/ Here.n \in DOMAIN res.symbols)
    <3>1. Step1 /\ (\E x \in v : res' = [q EXCEPT !.symbols = With(@, Here.n, x)]) /\ pc' = pc /\ pending' = pending
      BY <1>2, <1>10, <2>1, <2>4 DEF Set1, pass1EvalCtx
    <3>2. PICK x \in v : res' = [q EXCEPT !.symbols = With(@, Here.n, x)] BY <3>1
    <3>3. res' = Result(With(res.symbols, Here.n, x), res.localDefs, res.pool, res.ldrPool, res.flushes,
                        rp, res.origin, res.total)
      BY <1>4, <3>2 DEF Result
    <3>4. MadeSet(Here, res, pc, pending, res', pc', pending')
      BY <1>3, <1>5, <2>1, <2>2, <2>4, <3>1, <3>3 DEF MadeSet
    <3> QED BY <1>5, <2>2, <3>1, <3>4 DEF Made, WalkedOn
  <2> QED BY <2>3, <2>4
<1>11. CASE Ltorg1
  <2>1. In("pass1", "ltorg") /\ Step1 /\ res' = Flush(q, pending, pc)
        /\ pc' = AfterFlush(res, pending, pc) /\ pending' = <<>>
    BY <1>2, <1>11 DEF Ltorg1, NothingPending
  <2>2. CASE pending = <<>>
    <3>1. res' = q /\ pc' = pc BY <2>1, <2>2 DEF Flush, AfterFlush
    <3>2. MadeNothing(Here, res, pc, pending, res', pc', pending')
      BY <1>3, <1>4, <1>5, <2>1, <2>2, <3>1 DEF MadeNothing
    <3> QED BY <1>5, <2>1, <3>2 DEF Made, WalkedOn
  <2>3. CASE pending # <<>>
    <3>1. pc' = PoolEnd(res.pool, pending, pc) BY <2>1, <2>3 DEF AfterFlush
    <3>2. Flush(q, pending, pc) =
            Result(q.symbols, q.localDefs, SetPCs(q.pool, pending, pc), q.ldrPool,
                   With(q.flushes, pc, FlushEntry(q.pool, pending, pc)), q.recordPC, q.origin, q.total)
      BY <1>a, <2>3, FlushMakes
    <3>3. res' = Result(res.symbols, res.localDefs, SetPCs(res.pool, pending, pc), res.ldrPool,
                   With(res.flushes, pc, FlushEntry(res.pool, pending, pc)), rp, res.origin, res.total)
      BY <1>a, <2>1, <3>2
    <3>4. MadeFlush(Here, res, pc, pending, res', pc', pending')
      BY <1>3, <1>5, <2>1, <2>3, <3>1, <3>3 DEF MadeFlush
    <3> QED BY <1>5, <2>1, <3>4 DEF Made, WalkedOn
  <2> QED BY <2>2, <2>3
<1>12. CASE Org1
  <2>1. PICK v : v = Eval(Here.e, pc, res.symbols, <<>>) OBVIOUS
  <2>2. In("pass1", "org") BY <1>12 DEF Org1
  <2>3. CASE v = {} \/ \E to \in v : to < pc
    <3>1. Fail BY <1>12, <2>1, <2>3 DEF Org1, pass1EvalCtx
    <3> QED BY <3>1 DEF Fail, Gone
  <2>4. CASE ~(v = {} \/ \E to \in v : to < pc)
    <3>1. PICK to \in v : Step1 /\ pc' = to /\ pending' = pending
                          /\ res' = [q EXCEPT !.origin = IF SetsOrigin(to) THEN to ELSE @]
      BY <1>2, <1>12, <2>1, <2>4 DEF Org1, pass1EvalCtx
    <3>2. PICK or : or = IF SetsOrigin(to) THEN to ELSE res.origin OBVIOUS
    <3>3. res' = Result(res.symbols, res.localDefs, res.pool, res.ldrPool, res.flushes, rp, or, res.total)
      <4>1. res' = [q EXCEPT !.origin = or] BY <1>a, <3>1, <3>2
      <4> QED BY <1>4, <4>1 DEF Result
    <3>4. or \in {to, res.origin} BY <3>2
    <3>5. or = IF pc = res.origin /\ res.pool = <<>> /\ pc = 0 /\ to # 0 THEN to ELSE res.origin
      BY <3>2 DEF SetsOrigin
    <3>6. MadeOrg(Here, res, pc, pending, res', pc', pending')
      BY <1>3, <1>5, <2>1, <2>2, <2>4, <3>1, <3>3, <3>4, <3>5 DEF MadeOrg
    <3> QED BY <1>5, <2>2, <3>1, <3>6 DEF Made, WalkedOn
  <2> QED BY <2>3, <2>4
<1>13. CASE Directive1
  <2>1. PICK k \in {"data", "balign", "skip", "section"} :
          /\ In("pass1", k)
          /\ IF directiveSizeAtPC(Here) = {} THEN Fail
             ELSE /\ Step1 /\ res' = q /\ pending' = pending
                  /\ \E n \in directiveSizeAtPC(Here) : pc' = pc + n
    BY <1>2, <1>13 DEF Directive1
  <2>2. CASE directiveSizeAtPC(Here) = {}
    BY <2>1, <2>2 DEF Fail, Gone
  <2>3. CASE directiveSizeAtPC(Here) # {}
    <3>1. PICK n \in directiveSizeAtPC(Here) : pc' = pc + n BY <2>1, <2>3
    <3>2. Step1 /\ res' = q /\ pending' = pending /\ Here.k = k BY <1>5, <2>1, <2>3
    <3>3. SizeIs(Here, pc, res.symbols, n)
      <4>1. CASE k = "data" BY <3>1, <3>2, <4>1 DEF directiveSizeAtPC, SizeIs
      <4>2. CASE k = "balign" BY <3>1, <3>2, <4>2 DEF directiveSizeAtPC, SizeIs
      <4>3. CASE k = "skip" BY <3>1, <3>2, <4>3 DEF directiveSizeAtPC, SizeIs, pass1EvalCtx
      <4>4. CASE k = "section" BY <3>1, <3>2, <4>4 DEF directiveSizeAtPC, SizeIs
      <4> QED BY <4>1, <4>2, <4>3, <4>4
    <3>4. MadeSize(Here, res, pc, pending, res', pc', pending')
      BY <1>3, <1>4, <3>1, <3>2, <3>3 DEF MadeSize
    <3> QED BY <1>5, <2>1, <3>2, <3>4 DEF Made, WalkedOn
  <2> QED BY <2>2, <2>3
<1> QED BY <1>6, <1>7, <1>8, <1>9, <1>10, <1>11, <1>12, <1>13 DEF Walk1

(* What a well-formed result consists of.                                  *)
LEMMA ResFacts ==
  ASSUME NEW r, ResOK(r)
  PROVE  /\ Fields(r) /\ ResReads(r) /\ FlushOK(r) /\ IsPool(r.pool) /\ SymbolsOK(r.symbols)
         /\ r.localDefs \in Seq(Int) /\ r.recordPC \in Seq(Int) /\ r.origin \in Nat /\ r.total \in Int
         /\ Len(r.pool) \in Nat /\ DOMAIN r.pool = 1 .. Len(r.pool)
         /\ \A i \in 1 .. Len(r.pool) : IsEntry(r.pool[i])
BY DEF ResOK, ResReads, IsPool

(* A symbol more leaves well-formed symbols.                               *)
LEMMA SymbolAdded ==
  ASSUME NEW sy, SymbolsOK(sy), NEW n, NEW x \in Int
  PROVE  SymbolsOK(With(sy, n, x))
<1>1. PICK g : g = With(sy, n, x) OBVIOUS
<1>2. WithAt(sy, n, x, g) BY <1>1, WithIs
<1>3. SymbolsOK(g) BY <1>2 DEF WithAt, SymbolsOK
<1> QED BY <1>1, <1>3

(* Indices into a pool are indices into a longer one.                      *)
LEMMA IdsWiden ==
  ASSUME NEW m \in Nat, NEW n \in Nat, m <= n, NEW ids \in Seq(1 .. m)
  PROVE  ids \in Seq(1 .. n)
<1>1. 1 .. m \subseteq 1 .. n OBVIOUS
<1> QED BY <1>1, SeqWiden

(* What pass 1 notes of the records' addresses: at the end, nothing more.  *)
NotedGoes(r, a, c, r2) ==
  Len(r.recordPC) = a - 1 /\ r2.recordPC \in {r.recordPC, Append(r.recordPC, c)}

(* What every step of pass 1 leaves well formed.                           *)
LEMMA MadeIsTyped ==
  ASSUME NEW p, NEW r, NEW a, NEW c, NEW ids, Typed1(p, r, a, c, ids), a \in 1 .. Len(p),
         NEW r2, NEW c2, NEW ids2, Made(p[a], r, c, ids, r2, c2, ids2)
  PROVE  Typed1(p, r2, a + 1, c2, ids2) /\ NotedGoes(r, a, c, r2)
<1>1. /\ IsProgram(p) /\ c \in Int /\ ResOK(r) /\ ids \in Seq(1 .. Len(r.pool)) /\ Len(r.recordPC) = a - 1
  BY DEF Typed1
<1>2. Len(p) \in Nat /\ IsRecord(p[a]) BY <1>1, ProgramFacts
<1>3. /\ Fields(r) /\ ResReads(r) /\ FlushOK(r) /\ IsPool(r.pool) /\ SymbolsOK(r.symbols)
      /\ r.localDefs \in Seq(Int) /\ r.recordPC \in Seq(Int) /\ r.origin \in Nat /\ r.total \in Int
      /\ Len(r.pool) \in Nat
  BY <1>1, ResFacts
<1>4. PICK rp, rec : rp = Append(r.recordPC, c) /\ rec = p[a] OBVIOUS
<1>5. rp \in Seq(Int) /\ Len(rp) = a /\ IsRecord(rec) /\ IsExpr(rec.e) /\ <<>> \in Seq(Int)
  BY <1>1, <1>2, <1>3, <1>4 DEF IsRecord
<1>6. a + 1 \in 1 .. Len(p) + 1 /\ (a + 1) - 1 = a BY <1>2
<1>7. SUFFICES ResOK(r2) /\ c2 \in Int /\ ids2 \in Seq(1 .. Len(r2.pool)) /\ r2.recordPC = rp
  BY <1>1, <1>4, <1>5, <1>6 DEF Typed1, NotedGoes
<1>8. CASE MadeLabel(rec, r, c, ids, r2, c2, ids2)
  <2>1. PICK sy : sy = With(r.symbols, rec.n, c) OBVIOUS
  <2>2. SymbolsOK(sy) BY <1>1, <1>3, <2>1, SymbolAdded
  <2>3. c2 = c /\ ids2 = ids /\ r2 = Result(sy, r.localDefs, r.pool, r.ldrPool, r.flushes, rp, r.origin, r.total)
    BY <1>4, <1>8, <2>1 DEF MadeLabel
  <2>4. ResOK(r2) BY <1>1, <1>3, <1>5, <2>2, <2>3, ResNoted
  <2>5. r2.pool = r.pool /\ r2.recordPC = rp BY <2>3, ResultFields
  <2> QED BY <1>1, <2>3, <2>4, <2>5
<1>9. CASE MadeLocal(rec, r, c, ids, r2, c2, ids2)
  <2>1. PICK ld : ld = Append(r.localDefs, c) OBVIOUS
  <2>2. ld \in Seq(Int) BY <1>1, <1>3, <2>1
  <2>3. c2 = c /\ ids2 = ids /\ r2 = Result(r.symbols, ld, r.pool, r.ldrPool, r.flushes, rp, r.origin, r.total)
    BY <1>4, <1>9, <2>1 DEF MadeLocal
  <2>4. ResOK(r2) BY <1>1, <1>3, <1>5, <2>2, <2>3, ResNoted
  <2>5. r2.pool = r.pool /\ r2.recordPC = rp BY <2>3, ResultFields
  <2> QED BY <1>1, <2>3, <2>4, <2>5
<1>10. CASE MadeSet(rec, r, c, ids, r2, c2, ids2)
  <2>1. PICK x \in Eval(rec.e, 0, r.symbols, <<>>) :
          r2 = Result(With(r.symbols, rec.n, x), r.localDefs, r.pool, r.ldrPool, r.flushes, rp, r.origin, r.total)
    BY <1>4, <1>10 DEF MadeSet
  <2>2. 0 \in Int OBVIOUS
  <2>3. x \in Int BY <1>3, <1>5, <2>1, <2>2, EvalSingle
  <2>4. PICK sy : sy = With(r.symbols, rec.n, x) OBVIOUS
  <2>5. SymbolsOK(sy) BY <1>3, <2>3, <2>4, SymbolAdded
  <2>6. r2 = Result(sy, r.localDefs, r.pool, r.ldrPool, r.flushes, rp, r.origin, r.total) BY <2>1, <2>4
  <2>7. ResOK(r2) BY <1>1, <1>3, <1>5, <2>5, <2>6, ResNoted
  <2>8. r2.pool = r.pool /\ r2.recordPC = rp BY <2>6, ResultFields
  <2>9. c2 = c /\ ids2 = ids BY <1>10 DEF MadeSet
  <2> QED BY <1>1, <2>7, <2>8, <2>9
<1>11. ASSUME NEW or \in Nat, r2 = Result(r.symbols, r.localDefs, r.pool, r.ldrPool, r.flushes, rp, or, r.total),
              ids2 = ids, c2 \in Int
       PROVE  ResOK(r2) /\ c2 \in Int /\ ids2 \in Seq(1 .. Len(r2.pool)) /\ r2.recordPC = rp
  <2>1. ResOK(r2) BY <1>1, <1>3, <1>5, <1>11, ResNoted
  <2>2. r2.pool = r.pool /\ r2.recordPC = rp BY <1>11, ResultFields
  <2> QED BY <1>1, <1>11, <2>1, <2>2
<1>12. CASE MadeCode(rec, r, c, ids, r2, c2, ids2)
  <2>1. c2 = c + 4 /\ ids2 = ids /\ r2 = Result(r.symbols, r.localDefs, r.pool, r.ldrPool, r.flushes, rp, r.origin, r.total)
    BY <1>4, <1>12 DEF MadeCode
  <2> QED BY <1>1, <1>3, <1>11, <2>1
<1>13. CASE MadeShared(rec, r, c, ids, r2, c2, ids2)
  <2>1. PICK i \in Range(ids) :
          r2 = Result(r.symbols, r.localDefs, r.pool, With(r.ldrPool, c, i), r.flushes, rp, r.origin, r.total)
    BY <1>4, <1>13 DEF MadeShared
  <2>2. i \in 1 .. Len(r.pool) BY <1>1, <2>1 DEF Range
  <2>3. ResOK(r2) BY <1>1, <1>5, <2>1, <2>2, ResShares
  <2>4. r2.pool = r.pool /\ r2.recordPC = rp BY <2>1, ResultFields
  <2>5. c2 = c + 4 /\ ids2 = ids BY <1>13 DEF MadeShared
  <2> QED BY <1>1, <2>3, <2>4, <2>5
<1>14. CASE MadeEntry(rec, r, c, ids, r2, c2, ids2)
  <2>1. PICK x : x = Entry(rec, c) OBVIOUS
  <2>2. IsEntry(x) BY <1>1, <1>5, <1>14, <2>1, EntryIs DEF MadeEntry
  <2>3. r2 = Result(r.symbols, r.localDefs, Append(r.pool, x), With(r.ldrPool, c, Len(r.pool) + 1),
                    r.flushes, rp, r.origin, r.total)
    BY <1>4, <1>14, <2>1 DEF MadeEntry
  <2>4. ResOK(r2) BY <1>1, <1>5, <2>2, <2>3, ResRegisters
  <2>6. PICK po, lp : po = Append(r.pool, x) /\ lp = With(r.ldrPool, c, Len(r.pool) + 1) OBVIOUS
  <2>a. r2 = Result(r.symbols, r.localDefs, po, lp, r.flushes, rp, r.origin, r.total) BY <2>3, <2>6
  <2>5. r2.pool = po /\ r2.recordPC = rp BY <2>a, ResultFields
  <2>7. PoolAppended(r.pool, x, po) BY <1>3, <2>2, <2>6, PoolAppend
  <2>8. Len(po) = Len(r.pool) + 1 BY <2>7 DEF PoolAppended
  <2>9. ids \in Seq(1 .. Len(po)) BY <1>1, <1>3, <2>8, IdsWiden
  <2>10. ids2 = Append(ids, Len(po)) /\ Len(po) \in 1 .. Len(po) /\ c2 = c + 4
    BY <1>3, <1>14, <2>8 DEF MadeEntry
  <2>11. ids2 \in Seq(1 .. Len(po)) BY <2>9, <2>10, AppendFacts
  <2> QED BY <1>1, <2>4, <2>5, <2>6, <2>10, <2>11
<1>15. CASE MadeFlush(rec, r, c, ids, r2, c2, ids2)
  <2>1. PICK q : q = Result(r.symbols, r.localDefs, r.pool, r.ldrPool, r.flushes, rp, r.origin, r.total) OBVIOUS
  <2>2. /\ q.symbols = r.symbols /\ q.localDefs = r.localDefs /\ q.pool = r.pool /\ q.ldrPool = r.ldrPool
        /\ q.flushes = r.flushes /\ q.recordPC = rp /\ q.origin = r.origin /\ q.total = r.total /\ Fields(q)
    BY <2>1, ResultFields
  <2>3. ResOK(q) BY <1>1, <1>3, <1>5, <2>1, ResNoted
  <2>4. ids # <<>> /\ c2 = PoolEnd(r.pool, ids, c) /\ ids2 = <<>> BY <1>15 DEF MadeFlush
  <2>5. r2 = Result(r.symbols, r.localDefs, SetPCs(r.pool, ids, c), r.ldrPool,
                    With(r.flushes, c, FlushEntry(r.pool, ids, c)), rp, r.origin, r.total)
    BY <1>4, <1>15 DEF MadeFlush
  <2>6. Flush(q, ids, c) =
           Result(q.symbols, q.localDefs, SetPCs(q.pool, ids, c), q.ldrPool,
                  With(q.flushes, c, FlushEntry(q.pool, ids, c)), q.recordPC, q.origin, q.total)
    BY <2>2, <2>4, FlushMakes
  <2>7. r2 = Flush(q, ids, c) BY <2>2, <2>5, <2>6
  <2>8. ids \in Seq(1 .. Len(q.pool)) BY <1>1, <2>2
  <2>9. ResOK(r2) BY <1>1, <2>3, <2>4, <2>7, <2>8, ResFlushes
  <2>10. r2.recordPC = rp BY <2>5, ResultFields
  <2>11. c2 \in Int BY <1>1, <1>3, <2>4, PoolGrows
  <2>12. ids2 \in Seq(1 .. Len(r2.pool)) BY <2>4
  <2> QED BY <2>9, <2>10, <2>11, <2>12
<1>16. CASE MadeNothing(rec, r, c, ids, r2, c2, ids2)
  <2>1. c2 = c /\ ids2 = ids /\ r2 = Result(r.symbols, r.localDefs, r.pool, r.ldrPool, r.flushes, rp, r.origin, r.total)
    BY <1>4, <1>16 DEF MadeNothing
  <2> QED BY <1>1, <1>3, <1>11, <2>1
<1>17. CASE MadeOrg(rec, r, c, ids, r2, c2, ids2)
  <2>1. PICK or \in {c2, r.origin} :
          /\ c2 \in Eval(rec.e, c, r.symbols, <<>>) /\ ~(c2 < c)
          /\ or = IF c = r.origin /\ r.pool = <<>> /\ c = 0 /\ c2 # 0 THEN c2 ELSE r.origin
          /\ r2 = Result(r.symbols, r.localDefs, r.pool, r.ldrPool, r.flushes, rp, or, r.total)
    BY <1>4, <1>17 DEF MadeOrg
  <2>2. c2 \in Int BY <1>1, <1>3, <1>5, <2>1, EvalSingle
  <2>3. or \in Nat BY <1>1, <1>3, <2>1, <2>2
  <2>4. ids2 = ids BY <1>17 DEF MadeOrg
  <2> QED BY <1>11, <2>1, <2>2, <2>3, <2>4
<1>18. CASE MadeSize(rec, r, c, ids, r2, c2, ids2)
  <2>1. PICK n : SizeIs(rec, c, r.symbols, n) /\ c2 = c + n BY <1>18 DEF MadeSize
  <2>2. n \in Int
    <3>1. CASE rec.k = "data" /\ n = rec.w BY <1>5, <3>1 DEF IsRecord
    <3>2. CASE rec.k = "balign" /\ n = Pad(c, rec.w)
      <4>1. rec.w \in Nat /\ rec.w # 0 BY <1>5, <3>2 DEF IsRecord
      <4>2. Pad(c, rec.w) \in 0 .. rec.w - 1 BY <1>1, <4>1, PadIs
      <4> QED BY <3>2, <4>1, <4>2
    <3>3. CASE rec.k = "skip" /\ n \in Eval(rec.e, c, r.symbols, <<>>)
      BY <1>1, <1>3, <1>5, <3>3, EvalSingle
    <3> QED BY <2>1, <3>1, <3>2, <3>3 DEF SizeIs
  <2>3. ids2 = ids /\ r2 = Result(r.symbols, r.localDefs, r.pool, r.ldrPool, r.flushes, rp, r.origin, r.total)
    BY <1>4, <1>18 DEF MadeSize
  <2>4. c2 \in Int BY <1>1, <2>1, <2>2
  <2> QED BY <1>3, <1>11, <2>3, <2>4
<1> QED BY <1>4, <1>8, <1>9, <1>10, <1>12, <1>13, <1>14, <1>15, <1>16, <1>17, <1>18 DEF Made

(* The end of pass 1: what is pending goes out, and the total is noted.    *)
MadeEnd(r, c, ids, r2) ==
  IF ids = <<>>
  THEN r2 = Result(r.symbols, r.localDefs, r.pool, r.ldrPool, r.flushes, r.recordPC, r.origin, c)
  ELSE r2 = Result(r.symbols, r.localDefs, SetPCs(r.pool, ids, c), r.ldrPool,
                   With(r.flushes, c, FlushEntry(r.pool, ids, c)), r.recordPC, r.origin,
                   PoolEnd(r.pool, ids, c))

(* The end of pass 1 flushes and notes the total.                          *)
LEMMA Pass1Ends ==
  ASSUME ResOK(res), Pass1Done
  PROVE  /\ MadeEnd(res, pc, pending, res') /\ pending' = <<>> /\ stage' = "pass2"
         /\ at = Len(prog) + 1 /\ at' = 1
         /\ pc' = res'.origin /\ image' = <<>> /\ UNCHANGED <<prog, given, relaid>>
<1>1. PICK q, to : q = Flush(res, pending, pc) /\ to = AfterFlush(res, pending, pc) OBVIOUS
<1>2. /\ res' = [q EXCEPT !.total = to]
      /\ pending' = <<>> /\ stage' = "pass2" /\ at' = 1 /\ image' = <<>> /\ UNCHANGED <<prog, given, relaid>>
      /\ pc' = res.origin /\ at = Len(prog) + 1
  BY <1>1 DEF Pass1Done, NothingPending
<1>3. Fields(res) BY ResFacts
<1>4. CASE pending = <<>>
  <2>1. q = res /\ to = pc BY <1>1, <1>4 DEF Flush, AfterFlush
  <2>2. res' = Result(res.symbols, res.localDefs, res.pool, res.ldrPool, res.flushes, res.recordPC, res.origin, pc)
    BY <1>2, <1>3, <2>1 DEF Fields, Result
  <2>3. res'.origin = res.origin BY <2>2, ResultFields
  <2> QED BY <1>2, <1>4, <2>2, <2>3 DEF MadeEnd
<1>5. CASE pending # <<>>
  <2>1. to = PoolEnd(res.pool, pending, pc) BY <1>1, <1>5 DEF AfterFlush
  <2>2. q = Result(res.symbols, res.localDefs, SetPCs(res.pool, pending, pc), res.ldrPool,
                  With(res.flushes, pc, FlushEntry(res.pool, pending, pc)), res.recordPC, res.origin, res.total)
    BY <1>1, <1>3, <1>5, FlushMakes
  <2>3. res' = Result(res.symbols, res.localDefs, SetPCs(res.pool, pending, pc), res.ldrPool,
                  With(res.flushes, pc, FlushEntry(res.pool, pending, pc)), res.recordPC, res.origin, to)
    BY <1>2, <2>2 DEF Result
  <2>4. res'.origin = res.origin BY <2>3, ResultFields
  <2> QED BY <1>2, <1>5, <2>1, <2>3, <2>4 DEF MadeEnd
<1> QED BY <1>4, <1>5

(* The end of pass 1 leaves a well-formed result.                          *)
LEMMA EndIsTyped ==
  ASSUME NEW p, NEW r, NEW a, NEW c, NEW ids, Typed1(p, r, a, c, ids), NEW r2, MadeEnd(r, c, ids, r2)
  PROVE  ResOK(r2) /\ r2.recordPC = r.recordPC /\ r2.origin = r.origin /\ r2.origin \in Int
<1>1. c \in Int /\ ResOK(r) /\ ids \in Seq(1 .. Len(r.pool)) BY DEF Typed1
<1>2. /\ Fields(r) /\ IsPool(r.pool) /\ SymbolsOK(r.symbols) /\ r.origin \in Nat
      /\ r.localDefs \in Seq(Int) /\ r.recordPC \in Seq(Int)
  BY <1>1, ResFacts
<1>3. CASE ids = <<>>
  <2>1. r2 = Result(r.symbols, r.localDefs, r.pool, r.ldrPool, r.flushes, r.recordPC, r.origin, c)
    BY <1>3 DEF MadeEnd
  <2>2. ResOK(r2) BY <1>1, <1>2, <2>1, ResNoted
  <2>3. r2.recordPC = r.recordPC /\ r2.origin = r.origin BY <2>1, ResultFields
  <2> QED BY <1>2, <2>2, <2>3
<1>4. CASE ids # <<>>
  <2>1. PICK to : to = PoolEnd(r.pool, ids, c) OBVIOUS
  <2>2. to \in Int BY <1>1, <1>2, <2>1, PoolGrows
  <2>3. PICK q : q = Result(r.symbols, r.localDefs, r.pool, r.ldrPool, r.flushes, r.recordPC, r.origin, to) OBVIOUS
  <2>4. /\ q.symbols = r.symbols /\ q.localDefs = r.localDefs /\ q.pool = r.pool /\ q.ldrPool = r.ldrPool
        /\ q.flushes = r.flushes /\ q.recordPC = r.recordPC /\ q.origin = r.origin /\ q.total = to /\ Fields(q)
    BY <2>3, ResultFields
  <2>5. ResOK(q) BY <1>1, <1>2, <2>2, <2>3, ResNoted
  <2>6. r2 = Result(r.symbols, r.localDefs, SetPCs(r.pool, ids, c), r.ldrPool,
                   With(r.flushes, c, FlushEntry(r.pool, ids, c)), r.recordPC, r.origin, to)
    BY <1>4, <2>1 DEF MadeEnd
  <2>7. Flush(q, ids, c) =
           Result(q.symbols, q.localDefs, SetPCs(q.pool, ids, c), q.ldrPool,
                  With(q.flushes, c, FlushEntry(q.pool, ids, c)), q.recordPC, q.origin, q.total)
    BY <1>4, <2>4, FlushMakes
  <2>8. r2 = Flush(q, ids, c) BY <2>4, <2>6, <2>7
  <2>9. ids \in Seq(1 .. Len(q.pool)) BY <1>1, <2>4
  <2>10. ResOK(r2) BY <1>1, <1>4, <2>5, <2>8, <2>9, ResFlushes
  <2>11. r2.recordPC = r.recordPC /\ r2.origin = r.origin BY <2>6, ResultFields
  <2> QED BY <1>2, <2>10, <2>11
<1> QED BY <1>3, <1>4

-----------------------------------------------------------------------------
(* What a step of pass 2 adds to the image.  The end of the source is one  *)
(* more .ltorg, for both passes.                                           *)

K(p, i) == IF i \in 1 .. Len(p) THEN p[i].k ELSE "ltorg"

Means(r, e, from) == Eval(e, from, r.symbols, r.localDefs)

ChunkOK(p, r, x) ==
  \/ /\ x.k = "code" /\ x.rec \in 1 .. Len(p) /\ x.len = 4 /\ x.n = p[x.rec].n
     /\ \/ p[x.rec].k = "inst" /\ Means(r, p[x.rec].e, x.pc) = {x.val}
        \/ p[x.rec].k = "ldr" /\ x.pc \in DOMAIN r.ldrPool /\ x.val = r.pool[r.ldrPool[x.pc]].pc
  \/ /\ x.k = "data" /\ x.rec \in 1 .. Len(p) /\ p[x.rec].k = "data" /\ x.len = p[x.rec].w
     /\ x.n = "" /\ Means(r, p[x.rec].e, x.pc) = {x.val}
  \/ x.k = "pad" /\ x.n \in {"", "nop"}
  \/ x.k = "pool" /\ x.n = ""

KindEmits(p, r, a, c, c2, out) ==
  /\ K(p, a) \in {"label", "local", "set", "section"} => out = <<>>
  /\ K(p, a) \in {"inst", "ldr"} => c2 = c + 4 /\ Len(out) = 1 /\ out[1].k = "code"
  /\ K(p, a) = "data" => c2 = c + p[a].w
  /\ K(p, a) = "balign" => c2 = c + Pad(c, p[a].w)
  /\ K(p, a) = "skip" => \E n \in Means(r, p[a].e, c) : c2 = c + n
  /\ K(p, a) = "org" => c2 \in Means(r, p[a].e, c)
  /\ K(p, a) = "ltorg" =>
       IF c \in DOMAIN r.flushes
       THEN /\ c2 = r.flushes[c].after
            /\ \A i \in Range(r.flushes[c].ids) : HasSlot(out, r, r.flushes[c].ids, c, i)
       ELSE out = <<>>

Emits(p, r, a, c, c2, out) ==
  /\ Contig(out, c, c2)
  /\ \A s \in 1 .. Len(out) : ChunkOK(p, r, out[s]) /\ out[s].rec = a
  /\ KindEmits(p, r, a, c, c2, out)
Emitted(p, r, a, c, im, c2, im2) == \E out : im2 = im \o out /\ Emits(p, r, a, c, c2, out)

Typed2(p, r, a, c, ids, im) ==
  /\ IsProgram(p) /\ a \in 1 .. Len(p) + 2 /\ ResOK(r) /\ Len(r.recordPC) = Len(p) /\ ids = <<>>
  /\ Contig(im, r.origin, c)
  /\ \A s \in 1 .. Len(im) : ChunkOK(p, r, im[s]) /\ im[s].rec \in 1 .. Len(p) + 1 /\ im[s].rec < a

(* A chunk alone, from its first address to its end.                       *)
LEMMA OneChunk ==
  ASSUME NEW x, IsChunk(x)
  PROVE  Contig(<<x>>, x.pc, x.pc + x.len) /\ Len(<<x>>) = 1 /\ <<x>>[1] = x
<1>1. x.pc \in Int BY DEF IsChunk
<1>2. Contig(<<>>, x.pc, x.pc) BY <1>1, ContigNone
<1>3. Contig(Append(<<>>, x), x.pc, x.pc + x.len) BY <1>2, ContigMore
<1>4. Append(<<>>, x) = <<x>> OBVIOUS
<1> QED BY <1>3, <1>4

(* Appending is joining with a sequence of one.                            *)
LEMMA AppendIsJoin == ASSUME NEW X, NEW s \in Seq(X), NEW x PROVE Append(s, x) = s \o <<x>>
OBVIOUS

(* A record that emits nothing leaves the image as it is.                  *)
LEMMA NothingEmitted ==
  ASSUME NEW X, NEW im \in Seq(X), NEW p, NEW r, NEW a, NEW c \in Int, KindEmits(p, r, a, c, c, <<>>)
  PROVE  Emitted(p, r, a, c, im, c, im)
<1>1. im = im \o <<>> OBVIOUS
<1>2. Contig(<<>>, c, c) BY ContigNone
<1>3. \A s \in 1 .. Len(<<>>) : FALSE OBVIOUS
<1>4. Emits(p, r, a, c, c, <<>>) BY <1>2, <1>3, Zenon DEF Emits
<1> QED BY <1>1, <1>4 DEF Emitted

(* A record that emits one chunk appends it to the image.                  *)
LEMMA ChunkEmitted ==
  ASSUME NEW X, NEW im \in Seq(X), NEW p, NEW r, NEW a, NEW c, NEW x, IsChunk(x), x.pc = c, x.rec = a,
         ChunkOK(p, r, x), NEW c2, c2 = c + x.len, KindEmits(p, r, a, c, c2, <<x>>)
  PROVE  Emitted(p, r, a, c, im, c2, Append(im, x))
<1>1. Append(im, x) = im \o <<x>> BY AppendIsJoin
<1>2. PICK out : out = <<x>> OBVIOUS
<1>3. Contig(out, c, c2) /\ Len(out) = 1 /\ out[1] = x BY <1>2, OneChunk
<1>4. \A s \in 1 .. Len(out) : ChunkOK(p, r, out[s]) /\ out[s].rec = a
  <2>1. \A s \in 1 .. 1 : s = 1 OBVIOUS
  <2> QED BY <1>3, <2>1
<1>5. Emits(p, r, a, c, c2, out) BY <1>2, <1>3, <1>4 DEF Emits
<1> QED BY <1>1, <1>2, <1>5 DEF Emitted

(* The fields of a chunk, one by one.                                      *)
LEMMA ChunkIs ==
  ASSUME NEW k, NEW n, NEW from \in Int, NEW len \in Nat, NEW rec, NEW val,
         NEW x, x = Chunk(k, n, from, len, rec, val)
  PROVE  /\ IsChunk(x) /\ x.k = k /\ x.n = n /\ x.pc = from /\ x.len = len /\ x.rec = rec /\ x.val = val
BY DEF Chunk, IsChunk

Walk2 == \/ Skip2 \/ encodeInst \/ encodeLdrLitPoolInst \/ EmitData \/ EmitAlign \/ EmitSkip \/ EmitOrg
         \/ Ltorg2
EmittedOn(next) ==
  /\ Emitted(prog, res, at, pc, image, pc', image')
  /\ at' = at + 1 /\ stage' = next /\ UNCHANGED <<prog, given, res, pending, relaid>>

(* Emit appends its chunk and goes on to the next record.                  *)
LEMMA EmitIs ==
  ASSUME stage = "pass2", NEW x, Emit(x), Emitted(prog, res, at, pc, image, pc + x.len, Append(image, x))
  PROVE  EmittedOn("pass2")
<1>1. /\ image' = Append(image, x) /\ pc' = pc + x.len /\ at' = at + 1
      /\ UNCHANGED <<prog, given, stage, res, pending, relaid>>
  BY DEF Emit
<1> QED BY <1>1 DEF EmittedOn

(* emitFlush fails or emits the slots of the flush; the mismatch never     *)
(* happens.                                                                *)
LEMMA FlushEmits ==
  ASSUME Typed2(prog, res, at, pc, pending, image), K(prog, at) = "ltorg", NEW next, emitFlush(next)
  PROVE  Gone \/ EmittedOn(next)
<1>1. ResOK(res) /\ Contig(image, res.origin, pc) BY DEF Typed2
<1>2. ResReads(res) /\ FlushOK(res) BY <1>1, ResFacts
<1>3. pc \in Int /\ image \in Seq(Range(image)) BY <1>1 DEF Contig
<1>4. CASE ~Noted
  <2>1. pc \notin DOMAIN res.flushes BY <1>4 DEF Noted
  <2>2. KindEmits(prog, res, at, pc, pc, <<>>) BY <2>1 DEF KindEmits
  <2>3. Emitted(prog, res, at, pc, image, pc, image) BY <1>3, <2>2, NothingEmitted
  <2>4. image' = image /\ pc' = pc /\ at' = at + 1 /\ stage' = next
        /\ UNCHANGED <<prog, given, res, pending, relaid>>
    BY <1>4 DEF emitFlush
  <2> QED BY <2>3, <2>4 DEF EmittedOn
<1>5. CASE Noted
  <2>1. pc \in DOMAIN res.flushes BY <1>5 DEF Noted
  <2>2. PICK ids, x : ids = res.flushes[pc].ids /\ x = Flushed OBVIOUS
  <2>3. ids \in Seq(1 .. Len(res.pool)) /\ res.flushes[pc].after = PoolEnd(res.pool, ids, pc)
    BY <1>2, <2>1, <2>2 DEF FlushOK
  <2>4. x = Placed(res, at, pc, Fours(res.pool, ids) \o Eights(res.pool, ids)) BY <2>2 DEF Flushed
  <2>5. /\ x.out \in Seq(Slots(at)) /\ x.known \in BOOLEAN /\ Contig(x.out, pc, x.pc)
        /\ x.known => /\ x.pc = PoolEnd(res.pool, ids, pc)
                      /\ \A i \in Range(ids) : HasSlot(x.out, res, ids, pc, i)
    BY <1>2, <1>3, <2>3, <2>4, PlacedIs
  <2>6. CASE ~x.known
    <3>1. Fail BY <1>5, <2>2, <2>6 DEF emitFlush
    <3> QED BY <3>1 DEF Fail, Gone
  <2>7. CASE x.known
    <3>1. x.pc = res.flushes[pc].after BY <2>3, <2>5, <2>7
    <3>2. image' = image \o x.out /\ pc' = x.pc /\ at' = at + 1 /\ stage' = next
          /\ UNCHANGED <<prog, given, res, pending, relaid>>
      BY <1>5, <2>2, <2>7, <3>1 DEF emitFlush
    <3>3. KindEmits(prog, res, at, pc, x.pc, x.out) BY <2>1, <2>2, <2>5, <2>7, <3>1 DEF KindEmits
    <3>4. ASSUME NEW s \in 1 .. Len(x.out) PROVE ChunkOK(prog, res, x.out[s]) /\ x.out[s].rec = at
      <4>1. x.out[s] \in Slots(at) BY <2>5
      <4> QED BY <4>1 DEF Slots, ChunkOK
    <3>5. Emits(prog, res, at, pc, x.pc, x.out) BY <2>5, <3>3, <3>4 DEF Emits
    <3>6. Emitted(prog, res, at, pc, image, pc', image') BY <3>2, <3>5 DEF Emitted
    <3> QED BY <3>2, <3>6 DEF EmittedOn
  <2> QED BY <2>6, <2>7
<1> QED BY <1>4, <1>5

(* Each action of pass 2 fails or emits what its record asks for.          *)
LEMMA Walk2Emits ==
  ASSUME Typed2(prog, res, at, pc, pending, image), stage = "pass2", Walk2
  PROVE  Gone \/ EmittedOn("pass2")
<1>1. IsProgram(prog) /\ at \in 1 .. Len(prog) + 2 /\ ResOK(res) /\ Contig(image, res.origin, pc)
  BY DEF Typed2
<1>2. Len(prog) \in Nat /\ \A i \in 1 .. Len(prog) : IsRecord(prog[i]) BY <1>1, ProgramFacts
<1>3. pc \in Int /\ image \in Seq(Range(image)) BY <1>1 DEF Contig
<1>c. pc \in Int BY <1>3
<1>4. ASSUME NEW k, In("pass2", k) PROVE at \in 1 .. Len(prog) /\ Here.k = k /\ K(prog, at) = k /\ Here = prog[at]
  BY <1>1, <1>2, <1>4 DEF In, K, Here
<1>5. SymbolsOK(res.symbols) /\ res.localDefs \in Seq(Int) BY <1>1, ResFacts
<1>6. ASSUME at \in 1 .. Len(prog), NEW v \in makeCtx(Here.e, pc)
      PROVE  v \in Int /\ Means(res, prog[at].e, pc) = {v}
  <2>1. IsExpr(prog[at].e) BY <1>2, <1>6 DEF IsRecord
  <2>2. v \in Eval(prog[at].e, pc, res.symbols, res.localDefs) BY <1>6 DEF makeCtx, Here
  <2>3. v \in Int /\ Eval(prog[at].e, pc, res.symbols, res.localDefs) = {v} BY <1>3, <1>5, <2>1, <2>2, EvalSingle
  <2> QED BY <2>3 DEF Means
<1>7. CASE Skip2
  <2>1. PICK k \in {"label", "local", "set", "section"} : In("pass2", k) BY <1>7 DEF Skip2
  <2>2. KindEmits(prog, res, at, pc, pc, <<>>) BY <1>4, <2>1 DEF KindEmits
  <2>3. Emitted(prog, res, at, pc, image, pc, image) BY <1>3, <2>2, NothingEmitted
  <2> QED BY <1>7, <2>3 DEF Skip2, EmittedOn
<1>8. CASE encodeInst
  <2>1. In("pass2", "inst") BY <1>8 DEF encodeInst
  <2>2. CASE makeCtx(Here.e, pc) = {} BY <1>8, <2>2 DEF encodeInst, Fail, Gone
  <2>3. CASE makeCtx(Here.e, pc) # {}
    <3>1. PICK v \in makeCtx(Here.e, pc) : Emit(Code(v)) BY <1>8, <2>3 DEF encodeInst
    <3>2. PICK x : x = Code(v) OBVIOUS
    <3>3. at \in 1 .. Len(prog) /\ prog[at].k = "inst" /\ K(prog, at) = "inst" BY <1>4, <2>1
    <3>4. x = Chunk("code", prog[at].n, pc, 4, at, v) BY <3>2 DEF Code, Here
    <3>5. IsChunk(x) /\ x.k = "code" /\ x.n = prog[at].n /\ x.pc = pc /\ x.len = 4 /\ x.rec = at /\ x.val = v
      BY <1>3, <3>4, ChunkIs
    <3>6. Means(res, prog[at].e, pc) = {v} BY <1>6, <3>1, <3>3
    <3>7. ChunkOK(prog, res, x) BY <3>3, <3>5, <3>6 DEF ChunkOK
    <3>8. KindEmits(prog, res, at, pc, pc + 4, <<x>>) BY <3>3, <3>5, OneChunk DEF KindEmits
    <3>9. Emitted(prog, res, at, pc, image, pc + 4, Append(image, x)) BY <1>3, <3>5, <3>7, <3>8, ChunkEmitted
    <3>10. Emit(x) /\ pc + x.len = pc + 4 BY <3>1, <3>2, <3>5
    <3> QED BY <3>9, <3>10, EmitIs
  <2> QED BY <2>2, <2>3
<1>9. CASE encodeLdrLitPoolInst
  <2>1. In("pass2", "ldr") BY <1>9 DEF encodeLdrLitPoolInst
  <2>2. PICK to : to = {res.pool[res.ldrPool[a]].pc : a \in DOMAIN res.ldrPool \cap {pc}} OBVIOUS
  <2>3. CASE \A t \in to : (t - pc) % 4 # 0 BY <1>9, <2>2, <2>3 DEF encodeLdrLitPoolInst, Fail, Gone
  <2>4. CASE ~ \A t \in to : (t - pc) % 4 # 0
    <3>1. PICK v \in to : Emit(Code(v)) BY <1>9, <2>2, <2>4 DEF encodeLdrLitPoolInst
    <3>2. PICK x : x = Code(v) OBVIOUS
    <3>3. at \in 1 .. Len(prog) /\ prog[at].k = "ldr" /\ K(prog, at) = "ldr" BY <1>4, <2>1
    <3>4. x = Chunk("code", prog[at].n, pc, 4, at, v) BY <3>2 DEF Code, Here
    <3>5. IsChunk(x) /\ x.k = "code" /\ x.n = prog[at].n /\ x.pc = pc /\ x.len = 4 /\ x.rec = at /\ x.val = v
      BY <1>3, <3>4, ChunkIs
    <3>6. pc \in DOMAIN res.ldrPool /\ v = res.pool[res.ldrPool[pc]].pc BY <2>2, <3>1
    <3>7. ChunkOK(prog, res, x) BY <3>3, <3>5, <3>6 DEF ChunkOK
    <3>8. KindEmits(prog, res, at, pc, pc + 4, <<x>>) BY <3>3, <3>5, OneChunk DEF KindEmits
    <3>9. Emitted(prog, res, at, pc, image, pc + 4, Append(image, x)) BY <1>3, <3>5, <3>7, <3>8, ChunkEmitted
    <3>10. Emit(x) /\ pc + x.len = pc + 4 BY <3>1, <3>2, <3>5
    <3> QED BY <3>9, <3>10, EmitIs
  <2> QED BY <2>3, <2>4
<1>10. CASE EmitData
  <2>1. In("pass2", "data") BY <1>10 DEF EmitData
  <2>2. CASE makeCtx(Here.e, pc) = {} BY <1>10, <2>2 DEF EmitData, Fail, Gone
  <2>3. CASE makeCtx(Here.e, pc) # {}
    <3>1. PICK v \in makeCtx(Here.e, pc) : Emit(Chunk("data", "", pc, Here.w, at, v)) BY <1>10, <2>3 DEF EmitData
    <3>2. PICK x : x = Chunk("data", "", pc, Here.w, at, v) OBVIOUS
    <3>3. at \in 1 .. Len(prog) /\ prog[at].k = "data" /\ K(prog, at) = "data" /\ prog[at].w \in Nat
      BY <1>2, <1>4, <2>1 DEF IsRecord
    <3>4. x = Chunk("data", "", pc, prog[at].w, at, v) BY <3>2 DEF Here
    <3>5. IsChunk(x) /\ x.k = "data" /\ x.n = "" /\ x.pc = pc /\ x.len = prog[at].w /\ x.rec = at /\ x.val = v
      <4>1. prog[at].w \in Nat BY <3>3
      <4> QED BY <1>c, <3>4, <4>1 DEF Chunk, IsChunk
    <3>6. Means(res, prog[at].e, pc) = {v} BY <1>6, <3>1, <3>3
    <3>7. ChunkOK(prog, res, x) BY <3>3, <3>5, <3>6 DEF ChunkOK
    <3>8. KindEmits(prog, res, at, pc, pc + x.len, <<x>>) BY <3>3, <3>5 DEF KindEmits
    <3>9. Emitted(prog, res, at, pc, image, pc + x.len, Append(image, x)) BY <1>3, <3>5, <3>7, <3>8, ChunkEmitted
    <3>10. Emit(x) BY <3>1, <3>2
    <3> QED BY <3>9, <3>10, EmitIs
  <2> QED BY <2>2, <2>3
<1>11. CASE EmitAlign
  <2>1. In("pass2", "balign") /\ Emit(Chunk("pad", "nop", pc, Pad(pc, Here.w), at, 0)) BY <1>11 DEF EmitAlign
  <2>2. PICK x, n : n = Pad(pc, prog[at].w) /\ x = Chunk("pad", "nop", pc, n, at, 0) OBVIOUS
  <2>3. at \in 1 .. Len(prog) /\ K(prog, at) = "balign" /\ prog[at].w \in Nat /\ prog[at].w # 0
    BY <1>2, <1>4, <2>1 DEF IsRecord
  <2>4. n \in Nat
    <3>1. n \in 0 .. prog[at].w - 1 BY <1>3, <2>2, <2>3, PadIs
    <3> QED BY <2>3, <3>1
  <2>5. IsChunk(x) /\ x.k = "pad" /\ x.n = "nop" /\ x.pc = pc /\ x.len = n /\ x.rec = at
    <3>1. x = Chunk("pad", "nop", pc, n, at, 0) BY <2>2
    <3> QED BY <1>3, <2>4, <3>1, ChunkIs
  <2>6. ChunkOK(prog, res, x) BY <2>5 DEF ChunkOK
  <2>7. KindEmits(prog, res, at, pc, pc + x.len, <<x>>) BY <2>2, <2>3, <2>5 DEF KindEmits
  <2>8. Emitted(prog, res, at, pc, image, pc + x.len, Append(image, x)) BY <1>3, <2>5, <2>6, <2>7, ChunkEmitted
  <2>9. Emit(x) BY <2>1, <2>2 DEF Here
  <2> QED BY <2>8, <2>9, EmitIs
<1>12. CASE EmitSkip
  <2>1. In("pass2", "skip") BY <1>12 DEF EmitSkip
  <2>2. CASE \A n \in makeCtx(Here.e, pc) : n < 0 BY <1>12, <2>2 DEF EmitSkip, Fail, Gone
  <2>3. CASE ~ \A n \in makeCtx(Here.e, pc) : n < 0
    <3>1. PICK n \in makeCtx(Here.e, pc) : Emit(Chunk("pad", "", pc, n, at, 0)) BY <1>12, <2>3 DEF EmitSkip
    <3>2. PICK x : x = Chunk("pad", "", pc, n, at, 0) OBVIOUS
    <3>3. at \in 1 .. Len(prog) /\ K(prog, at) = "skip" BY <1>4, <2>1
    <3>4. n \in Int /\ Means(res, prog[at].e, pc) = {n} BY <1>6, <3>1, <3>3
    <3>5. n \in Nat
      <4>1. PICK m \in makeCtx(Here.e, pc) : ~(m < 0) BY <2>3
      <4>2. Means(res, prog[at].e, pc) = {m} BY <1>6, <3>3, <4>1
      <4> QED BY <3>4, <4>1, <4>2
    <3>6. IsChunk(x) /\ x.k = "pad" /\ x.n = "" /\ x.pc = pc /\ x.len = n /\ x.rec = at
      BY <1>c, <3>2, <3>5 DEF Chunk, IsChunk
    <3>7. ChunkOK(prog, res, x) BY <3>6 DEF ChunkOK
    <3>8. KindEmits(prog, res, at, pc, pc + x.len, <<x>>) BY <3>3, <3>4, <3>6 DEF KindEmits
    <3>9. Emitted(prog, res, at, pc, image, pc + x.len, Append(image, x)) BY <1>3, <3>6, <3>7, <3>8, ChunkEmitted
    <3>10. Emit(x) BY <3>1, <3>2
    <3> QED BY <3>9, <3>10, EmitIs
  <2> QED BY <2>2, <2>3
<1>13. CASE EmitOrg
  <2>1. In("pass2", "org") BY <1>13 DEF EmitOrg
  <2>2. CASE \A to \in makeCtx(Here.e, pc) : to < pc BY <1>13, <2>2 DEF EmitOrg, Fail, Gone
  <2>3. CASE ~ \A to \in makeCtx(Here.e, pc) : to < pc
    <3>1. PICK to \in makeCtx(Here.e, pc) : Emit(Chunk("pad", "", pc, to - pc, at, 0)) BY <1>13, <2>3 DEF EmitOrg
    <3>a. PICK n : n = to - pc OBVIOUS
    <3>2. PICK x : x = Chunk("pad", "", pc, n, at, 0) OBVIOUS
    <3>3. at \in 1 .. Len(prog) /\ K(prog, at) = "org" BY <1>4, <2>1
    <3>4. to \in Int /\ Means(res, prog[at].e, pc) = {to} BY <1>6, <3>1, <3>3
    <3>5. n \in Nat /\ pc + n = to
      <4>1. PICK m \in makeCtx(Here.e, pc) : ~(m < pc) BY <2>3
      <4>2. Means(res, prog[at].e, pc) = {m} BY <1>6, <3>3, <4>1
      <4>3. m = to BY <3>4, <4>2
      <4> QED BY <1>c, <3>a, <3>4, <4>1, <4>3
    <3>6. IsChunk(x) /\ x.k = "pad" /\ x.n = "" /\ x.pc = pc /\ x.len = n /\ x.rec = at
      <4>1. n \in Nat BY <3>5
      <4> QED BY <1>c, <3>2, <4>1 DEF Chunk, IsChunk
    <3>7. ChunkOK(prog, res, x) BY <3>6 DEF ChunkOK
    <3>8. KindEmits(prog, res, at, pc, pc + x.len, <<x>>) BY <3>3, <3>4, <3>5, <3>6 DEF KindEmits
    <3>9. Emitted(prog, res, at, pc, image, pc + x.len, Append(image, x)) BY <1>3, <3>6, <3>7, <3>8, ChunkEmitted
    <3>10. Emit(x) BY <3>1, <3>2, <3>a
    <3> QED BY <3>9, <3>10, EmitIs
  <2> QED BY <2>2, <2>3
<1>14. CASE Ltorg2
  <2>1. In("pass2", "ltorg") /\ emitFlush("pass2") BY <1>14 DEF Ltorg2
  <2>2. K(prog, at) = "ltorg" BY <1>4, <2>1
  <2> QED BY <2>1, <2>2, FlushEmits
<1> QED BY <1>7, <1>8, <1>9, <1>10, <1>11, <1>12, <1>13, <1>14 DEF Walk2

(* The last flush of pass 2 fails or emits its slots.                      *)
LEMMA Pass2Ends ==
  ASSUME Typed2(prog, res, at, pc, pending, image), Pass2Done
  PROVE  Gone \/ EmittedOn("errata")
<1>1. at = Len(prog) + 1 /\ emitFlush("errata") BY DEF Pass2Done
<1>2. Len(prog) \in Nat
  <2>1. IsProgram(prog) BY DEF Typed2
  <2> QED BY <2>1, ProgramFacts
<1>3. K(prog, at) = "ltorg" BY <1>1, <1>2 DEF K
<1> QED BY <1>1, <1>3, FlushEmits

(* What a record emits keeps the image well-formed.                        *)
LEMMA EmittedIsTyped ==
  ASSUME NEW p, NEW r, NEW a, NEW c, NEW ids, NEW im, Typed2(p, r, a, c, ids, im), a \in 1 .. Len(p) + 1,
         NEW c2, NEW im2, Emitted(p, r, a, c, im, c2, im2)
  PROVE  Typed2(p, r, a + 1, c2, ids, im2)
<1>1. PICK out : im2 = im \o out /\ Emits(p, r, a, c, c2, out) BY DEF Emitted
<1>2. Contig(out, c, c2) /\ \A s \in 1 .. Len(out) : ChunkOK(p, r, out[s]) /\ out[s].rec = a
  BY <1>1 DEF Emits
<1>3. /\ IsProgram(p) /\ ResOK(r) /\ Len(r.recordPC) = Len(p) /\ ids = <<>> /\ Contig(im, r.origin, c)
      /\ \A s \in 1 .. Len(im) : ChunkOK(p, r, im[s]) /\ im[s].rec \in 1 .. Len(p) + 1 /\ im[s].rec < a
  BY DEF Typed2
<1>4. Contig(im2, r.origin, c2) BY <1>1, <1>2, <1>3, ContigJoin
<1>5. Len(p) \in Nat BY <1>3, ProgramFacts
<1>6. im \in Seq(Range(im) \cup Range(out)) /\ out \in Seq(Range(im) \cup Range(out)) BY <1>2, <1>3 DEF Contig
<1>7. /\ Len(im) \in Nat /\ Len(out) \in Nat /\ Len(im2) = Len(im) + Len(out)
      /\ \A s \in 1 .. Len(im) : im2[s] = im[s]
      /\ \A s \in 1 .. Len(out) : im2[Len(im) + s] = out[s]
  BY <1>1, <1>6, ConcatFacts
<1>8. ASSUME NEW s \in 1 .. Len(im2)
      PROVE  ChunkOK(p, r, im2[s]) /\ im2[s].rec \in 1 .. Len(p) + 1 /\ im2[s].rec < a + 1
  <2>1. CASE s \in 1 .. Len(im) BY <1>3, <1>5, <1>7, <2>1
  <2>2. CASE s \notin 1 .. Len(im)
    <3>1. PICK h \in 1 .. Len(out) : s = Len(im) + h
      <4>1. s - Len(im) \in 1 .. Len(out) /\ s = Len(im) + (s - Len(im)) BY <1>7, <2>2
      <4> QED BY <4>1
    <3>2. im2[s] = out[h] BY <1>7, <3>1
    <3> QED BY <1>2, <1>5, <3>2
  <2> QED BY <2>1, <2>2
<1>9. a + 1 \in 1 .. Len(p) + 2 BY <1>5
<1> QED BY <1>3, <1>4, <1>8, <1>9 DEF Typed2

-----------------------------------------------------------------------------
(* The NOPs put in before some records: src tells which record stands at   *)
(* each place of the new program, 0 a NOP.                                 *)

NopsIn(p, S, q, src, m) ==
  /\ src \in [1 .. Len(q) -> 0 .. m]
  /\ \A j \in 1 .. Len(q) : q[j] = IF src[j] = 0 THEN Nop ELSE p[src[j]]
  /\ \A j, k \in 1 .. Len(q) : j < k /\ src[j] # 0 /\ src[k] # 0 => src[j] < src[k]
  /\ \A i \in 1 .. m : \E j \in 1 .. Len(q) :
       src[j] = i /\ (i \in S => j - 1 \in 1 .. Len(q) /\ src[j - 1] = 0)

(* A NOP more: the records copied so far are the same.                     *)
LEMMA NopAdded ==
  ASSUME NEW X, NEW q \in Seq(X), Nop \in X, NEW p, NEW S, NEW m \in Nat, NEW src, NopsIn(p, S, q, src, m),
         NEW t, t = Append(q, Nop)
  PROVE  \E more : NopsIn(p, S, t, more, m) /\ more[Len(t)] = 0
<1>1. PICK n : n = Len(q) OBVIOUS
<1>2. t \in Seq(X) /\ n \in Nat /\ Len(t) = n + 1 /\ t[n + 1] = Nop /\ \A j \in 1 .. n : t[j] = q[j]
  BY <1>1, AppendFacts
<1>3. /\ src \in [1 .. n -> 0 .. m]
      /\ \A j \in 1 .. n : q[j] = IF src[j] = 0 THEN Nop ELSE p[src[j]]
      /\ \A j, k \in 1 .. n : j < k /\ src[j] # 0 /\ src[k] # 0 => src[j] < src[k]
      /\ \A i \in 1 .. m : \E j \in 1 .. n : src[j] = i /\ (i \in S => j - 1 \in 1 .. n /\ src[j - 1] = 0)
  BY <1>1 DEF NopsIn
<1>4. PICK more : more = [j \in 1 .. n + 1 |-> IF j = n + 1 THEN 0 ELSE src[j]] OBVIOUS
<1>5. \A j \in 1 .. n + 1 : j \in 1 .. n \/ j = n + 1 BY <1>2
<1>6. more[n + 1] = 0 /\ \A j \in 1 .. n : j \in 1 .. n + 1 /\ more[j] = src[j]
  <2>1. n + 1 \in 1 .. n + 1 /\ \A j \in 1 .. n : j \in 1 .. n + 1 /\ j # n + 1 BY <1>2
  <2> QED BY <1>4, <2>1
<1>7. more \in [1 .. n + 1 -> 0 .. m]
  <2>1. \A j \in 1 .. n + 1 : more[j] \in 0 .. m BY <1>3, <1>5, <1>6
  <2> QED BY <1>4, <2>1
<1>8. \A j \in 1 .. n + 1 : t[j] = IF more[j] = 0 THEN Nop ELSE p[more[j]] BY <1>2, <1>3, <1>5, <1>6
<1>9. \A j, k \in 1 .. n + 1 : j < k /\ more[j] # 0 /\ more[k] # 0 => more[j] < more[k]
  BY <1>3, <1>5, <1>6
<1>10. ASSUME NEW i \in 1 .. m
       PROVE  \E j \in 1 .. n + 1 : more[j] = i /\ (i \in S => j - 1 \in 1 .. n + 1 /\ more[j - 1] = 0)
  <2>1. PICK j \in 1 .. n : src[j] = i /\ (i \in S => j - 1 \in 1 .. n /\ src[j - 1] = 0) BY <1>3
  <2> QED BY <1>6, <2>1
<1>11. NopsIn(p, S, t, more, m) BY <1>2, <1>7, <1>8, <1>9, <1>10 DEF NopsIn
<1> QED BY <1>2, <1>6, <1>11

(* A record more, behind a NOP if it is to have one.                       *)
LEMMA RecordAdded ==
  ASSUME NEW X, NEW q \in Seq(X), NEW p, NEW S, NEW m \in Nat, NEW src, NopsIn(p, S, q, src, m),
         NEW h \in Nat, h = m + 1, p[h] \in X, h \in S => Len(q) # 0 /\ src[Len(q)] = 0,
         NEW t, t = Append(q, p[h])
  PROVE  \E more : NopsIn(p, S, t, more, h)
<1>1. PICK n : n = Len(q) OBVIOUS
<1>2. t \in Seq(X) /\ n \in Nat /\ Len(t) = n + 1 /\ t[n + 1] = p[h] /\ \A j \in 1 .. n : t[j] = q[j]
  BY <1>1, AppendFacts
<1>3. /\ src \in [1 .. n -> 0 .. m]
      /\ \A j \in 1 .. n : q[j] = IF src[j] = 0 THEN Nop ELSE p[src[j]]
      /\ \A j, k \in 1 .. n : j < k /\ src[j] # 0 /\ src[k] # 0 => src[j] < src[k]
      /\ \A i \in 1 .. m : \E j \in 1 .. n : src[j] = i /\ (i \in S => j - 1 \in 1 .. n /\ src[j - 1] = 0)
  BY <1>1 DEF NopsIn
<1>4. PICK more : more = [j \in 1 .. n + 1 |-> IF j = n + 1 THEN h ELSE src[j]] OBVIOUS
<1>5. \A j \in 1 .. n + 1 : j \in 1 .. n \/ j = n + 1 BY <1>2
<1>6. more[n + 1] = h /\ \A j \in 1 .. n : j \in 1 .. n + 1 /\ more[j] = src[j]
  <2>1. n + 1 \in 1 .. n + 1 /\ \A j \in 1 .. n : j \in 1 .. n + 1 /\ j # n + 1 BY <1>2
  <2> QED BY <1>4, <2>1
<1>7. more \in [1 .. n + 1 -> 0 .. h]
  <2>a. 0 .. m \subseteq 0 .. h /\ h \in 0 .. h OBVIOUS
  <2>b. \A j \in 1 .. n : src[j] \in 0 .. h BY <1>3, <2>a
  <2>1. \A j \in 1 .. n + 1 : more[j] \in 0 .. h BY <1>5, <1>6, <2>a, <2>b
  <2> QED BY <1>4, <2>1
<1>8. \A j \in 1 .. n + 1 : t[j] = IF more[j] = 0 THEN Nop ELSE p[more[j]] BY <1>2, <1>3, <1>5, <1>6
<1>9. ASSUME NEW j \in 1 .. n + 1, NEW k \in 1 .. n + 1, j < k, more[j] # 0, more[k] # 0
      PROVE  more[j] < more[k]
  <2>1. j \in 1 .. n BY <1>2, <1>9
  <2>2. CASE k \in 1 .. n BY <1>3, <1>6, <1>9, <2>1, <2>2
  <2>3. CASE k = n + 1
    <3>1. more[j] \in 0 .. m BY <1>3, <1>6, <2>1
    <3> QED BY <1>6, <2>3, <3>1
  <2> QED BY <1>5, <2>2, <2>3
<1>10. ASSUME NEW i \in 1 .. h
       PROVE  \E j \in 1 .. n + 1 : more[j] = i /\ (i \in S => j - 1 \in 1 .. n + 1 /\ more[j - 1] = 0)
  <2>1. CASE i \in 1 .. m
    <3>1. PICK j \in 1 .. n : src[j] = i /\ (i \in S => j - 1 \in 1 .. n /\ src[j - 1] = 0) BY <1>3, <2>1
    <3> QED BY <1>6, <3>1
  <2>2. CASE i = h
    <3>1. n + 1 \in 1 .. n + 1 /\ more[n + 1] = i BY <1>2, <1>6, <2>2
    <3>2. i \in S => (n + 1) - 1 \in 1 .. n + 1 /\ more[(n + 1) - 1] = 0
      <4> SUFFICES ASSUME i \in S PROVE (n + 1) - 1 \in 1 .. n + 1 /\ more[(n + 1) - 1] = 0 OBVIOUS
      <4>1. n # 0 /\ src[n] = 0 BY <1>1, <2>2
      <4>2. n \in 1 .. n /\ (n + 1) - 1 = n BY <1>2, <4>1
      <4> QED BY <1>6, <4>1, <4>2
    <3> QED BY <3>1, <3>2
  <2>3. i \in 1 .. m \/ i = h OBVIOUS
  <2> QED BY <2>1, <2>2, <2>3
<1>11. NopsIn(p, S, t, more, h)
  <2>1. Len(t) = n + 1 BY <1>2
  <2>2. \A j, k \in 1 .. n + 1 : j < k /\ more[j] # 0 /\ more[k] # 0 => more[j] < more[k] BY <1>9, Zenon
  <2>3. \A i \in 1 .. h : \E j \in 1 .. n + 1 :
             more[j] = i /\ (i \in S => j - 1 \in 1 .. n + 1 /\ more[j - 1] = 0)
    BY <1>10, Zenon
  <2>4. PICK e : e = Len(t) OBVIOUS
  <2>5. e = n + 1 BY <2>1, <2>4, Zenon
  <2>6. more \in [1 .. Len(t) -> 0 .. h] BY <1>7, <2>4, <2>5, Zenon
  <2>7. \A j \in 1 .. Len(t) : t[j] = IF more[j] = 0 THEN Nop ELSE p[more[j]] BY <1>8, <2>4, <2>5, Zenon
  <2>8. \A j, k \in 1 .. Len(t) : j < k /\ more[j] # 0 /\ more[k] # 0 => more[j] < more[k]
    BY <2>2, <2>4, <2>5, Zenon
  <2>9. \A i \in 1 .. h : \E j \in 1 .. Len(t) :
             more[j] = i /\ (i \in S => j - 1 \in 1 .. Len(t) /\ more[j - 1] = 0)
    BY <2>3, <2>4, <2>5, Zenon
  <2> QED BY <2>6, <2>7, <2>8, <2>9, Zenon DEF NopsIn
<1> QED BY <1>11

NopsAre(f, recs, before) ==
  f = [i \in 0 .. Len(recs) |->
        IF i = 0 THEN <<>>
        ELSE f[i - 1] \o (IF i \in before THEN <<Nop, recs[i]>> ELSE <<recs[i]>>)]

(* The function that WithNops is the last value of exists.                 *)
LEMMA NopsExist ==
  ASSUME NEW X, NEW p \in Seq(X), Nop \in X, NEW S PROVE \E f : NopsAre(f, p, S)
<1> DEFINE n == Len(p)
           V == Seq(X)
<1>1. n \in Nat /\ \A k \in 1 .. n : p[k] \in X BY SeqFacts
<1>2. PICK s : s = [k \in 1 .. n |-> [a \in V |-> a \o (IF k \in S THEN <<Nop, p[k]>> ELSE <<p[k]>>)]]
  OBVIOUS
<1>3. s \in [1 .. n -> [V -> V]]
  <2>1. ASSUME NEW k \in 1 .. n
        PROVE  [a \in V |-> a \o (IF k \in S THEN <<Nop, p[k]>> ELSE <<p[k]>>)] \in [V -> V]
    <3>1. PICK tail : tail = IF k \in S THEN <<Nop, p[k]>> ELSE <<p[k]>> OBVIOUS
    <3>2. tail \in V
      <4>1. p[k] \in X BY <1>1
      <4>2. <<Nop, p[k]>> \in V /\ <<p[k]>> \in V BY <4>1
      <4> QED BY <3>1, <4>2
    <3>3. \A a \in V : a \o tail \in V BY <3>2
    <3>4. [a \in V |-> a \o tail] \in [V -> V]
      <4> HIDE DEF V
      <4> QED BY <3>3
    <3> QED BY <3>1, <3>4
  <2> HIDE DEF n, V
  <2> QED BY <1>2, <2>1
<1>4. <<>> \in V OBVIOUS
<1> HIDE DEF V, n
<1>5. PICK g : Stepped(g, n, V, <<>>, s) BY <1>1, <1>3, <1>4, Recursion
<1>6. g \in [0 .. n -> V] /\ g[0] = <<>> /\ \A i \in 1 .. n : g[i] = s[i][g[i - 1]]
  BY <1>5, Zenon DEF Stepped
<1>7. ASSUME NEW k \in 0 .. n
      PROVE  g[k] = IF k = 0 THEN <<>>
                    ELSE g[k - 1] \o (IF k \in S THEN <<Nop, p[k]>> ELSE <<p[k]>>)
  <2>1. CASE k = 0 BY <1>6, <2>1
  <2>2. CASE k # 0
    <3>1. k \in 1 .. n /\ k - 1 \in 0 .. n BY <1>1, <2>2
    <3>2. g[k - 1] \in V BY <1>6, <3>1
    <3>3. s[k] = [a \in V |-> a \o (IF k \in S THEN <<Nop, p[k]>> ELSE <<p[k]>>)] BY <1>2, <3>1, Zenon
    <3>4. s[k][g[k - 1]] = g[k - 1] \o (IF k \in S THEN <<Nop, p[k]>> ELSE <<p[k]>>)
      BY <3>2, <3>3, Zenon
    <3> QED BY <1>6, <2>2, <3>1, <3>4, Zenon
  <2> QED BY <2>1, <2>2
<1>8. g = [k \in 0 .. n |-> g[k]] BY <1>6, Zenon
<1>9. g = [k \in 0 .. n |-> IF k = 0 THEN <<>>
                            ELSE g[k - 1] \o (IF k \in S THEN <<Nop, p[k]>> ELSE <<p[k]>>)]
  BY <1>7, <1>8, Zenon
<1> QED BY <1>9, Zenon DEF NopsAre, n

(* A NOP is a record.                                                      *)
LEMMA NopIsRecord == IsRecord(Nop)
BY DEF Nop, Record, Expr, IsRecord, IsExpr

(* WithNops copies the records in order, with NOPs before the chosen ones. *)
LEMMA WithNopsIs ==
  ASSUME NEW p, IsProgram(p), NEW S, NEW q, q = WithNops(p, S)
  PROVE  IsProgram(q) /\ \E src : NopsIn(p, S, q, src, Len(p))
<1>1. PICK X : X = {p[i] : i \in DOMAIN p} \cup {Nop} OBVIOUS
<1>2. Len(p) \in Nat /\ DOMAIN p = 1 .. Len(p) /\ \A i \in 1 .. Len(p) : IsRecord(p[i]) BY ProgramFacts
<1>3. p \in Seq(X) /\ Nop \in X
  <2>1. Range(p) \subseteq X BY <1>1 DEF Range
  <2>2. p \in Seq(Range(p)) BY DEF IsProgram
  <2> QED BY <1>1, <2>1, <2>2, SeqWiden
<1>4. \A x \in X : IsRecord(x) BY <1>1, <1>2, NopIsRecord
<1>5. PICK f : NopsAre(f, p, S) /\ q = f[Len(p)]
  <2>1. PICK g : NopsAre(g, p, S) BY <1>3, NopsExist
  <2>2. PICK f : f = (CHOOSE h : NopsAre(h, p, S)) /\ NopsAre(f, p, S) BY <2>1, Zenon
  <2>3. q = f[Len(p)] BY <2>2, Zenon DEF WithNops, NopsAre
  <2> QED BY <2>2, <2>3
<1> DEFINE n == Len(p)
           T == {m \in 0 .. n : f[m] \in Seq(X) /\ \E src : NopsIn(p, S, f[m], src, m)}
<1>6. /\ f[0] = <<>>
      /\ \A k \in 1 .. n : f[k] = f[k - 1] \o (IF k \in S THEN <<Nop, p[k]>> ELSE <<p[k]>>)
  <2>1. 0 \in 0 .. n /\ \A k \in 1 .. n : k \in 0 .. n /\ k # 0 BY <1>2
  <2> QED BY <1>5, <2>1, Zenon DEF NopsAre
<1>7. 0 \in T
  <2>1. f[0] \in Seq(X) /\ Len(f[0]) = 0 BY <1>6
  <2>2. PICK src : src = [j \in 1 .. 0 |-> 0] OBVIOUS
  <2>3. \A j \in 1 .. 0 : FALSE OBVIOUS
  <2>4. src \in [1 .. 0 -> 0 .. 0] BY <2>2
  <2>5. NopsIn(p, S, f[0], src, 0) BY <2>1, <2>3, <2>4 DEF NopsIn
  <2>6. 0 \in 0 .. n BY <1>2
  <2> QED BY <2>1, <2>5, <2>6
<1>8. ASSUME NEW m \in 0 .. n, m < n, m \in T PROVE m + 1 \in T
  <2>1. PICK k \in 1 .. n : k = m + 1 /\ k - 1 = m /\ k \in 0 .. n /\ k \in Nat BY <1>2, <1>8
  <2>2. PICK q0 : q0 = f[m] OBVIOUS
  <2>3. q0 \in Seq(X) /\ \E src : NopsIn(p, S, q0, src, m) BY <1>8, <2>2
  <2>4. PICK src : NopsIn(p, S, q0, src, m) BY <2>3
  <2>5. p[k] \in X BY <1>3
  <2>6. f[k] = q0 \o (IF k \in S THEN <<Nop, p[k]>> ELSE <<p[k]>>) BY <1>6, <2>1, <2>2
  <2>7. m \in Nat OBVIOUS
  <2>8. CASE k \in S
    <3>1. PICK q1 : q1 = Append(q0, Nop) OBVIOUS
    <3>2. PICK q2 : q2 = Append(q1, p[k]) OBVIOUS
    <3>3. f[k] = q2 BY <1>3, <2>3, <2>5, <2>6, <2>8, <3>1, <3>2
    <3>4. PICK src1 : NopsIn(p, S, q1, src1, m) /\ src1[Len(q1)] = 0
      BY <1>3, <2>3, <2>4, <2>7, <3>1, NopAdded
    <3>5. q1 \in Seq(X) /\ Len(q1) # 0 BY <1>3, <2>3, <3>1
    <3>6. \E src2 : NopsIn(p, S, q2, src2, k) BY <2>1, <2>5, <2>7, <3>2, <3>4, <3>5, RecordAdded
    <3>7. q2 \in Seq(X) BY <2>5, <3>2, <3>5
    <3> QED BY <2>1, <3>3, <3>6, <3>7
  <2>9. CASE k \notin S
    <3>1. PICK q2 : q2 = Append(q0, p[k]) OBVIOUS
    <3>2. f[k] = q2 BY <2>3, <2>5, <2>6, <2>9, <3>1
    <3>3. \E src2 : NopsIn(p, S, q2, src2, k) BY <2>1, <2>3, <2>4, <2>5, <2>7, <2>9, <3>1, RecordAdded
    <3>4. q2 \in Seq(X) BY <2>3, <2>5, <3>1
    <3> QED BY <2>1, <3>2, <3>3, <3>4
  <2> QED BY <2>8, <2>9
<1>9. n \in T
  <2>1. n \in 0 .. n BY <1>2
  <2> HIDE DEF T
  <2> QED BY <1>2, <1>7, <1>8, <2>1, ClimbTo
<1>10. q \in Seq(X) /\ \E src : NopsIn(p, S, q, src, n) BY <1>5, <1>9
<1>11. IsProgram(q)
  <2>1. DOMAIN q = 1 .. Len(q) /\ \A i \in 1 .. Len(q) : q[i] \in X BY <1>10
  <2>2. \A i \in DOMAIN q : IsRecord(q[i]) BY <1>4, <2>1
  <2>3. q \in Seq(Range(q))
    <3>1. \A i \in 1 .. Len(q) : q[i] \in Range(q) BY <2>1 DEF Range
    <3> QED BY <1>10, <3>1
  <2> QED BY <2>2, <2>3 DEF IsProgram
<1> QED BY <1>10, <1>11

-----------------------------------------------------------------------------
(* Flatten: what it sizes and places is well formed.  R holds the records. *)

Syms(R) == UNION {[D -> Int] : D \in SUBSET {x.n : x \in R}}
Keys(R) == {<<x.w, x.e>> : x \in R}
Accs(R) ==
  {a \in [ok : BOOLEAN, pc : Int, symbols : Syms(R), pending : SUBSET Keys(R),
          labels : Seq([n : {x.n : x \in R}, offset : Int])] : IsFiniteSet(a.pending)}
Sizable(R) == \A x \in R : IsRecord(x) /\ x.k # "section"

(* The symbols that Flatten computes are well-formed.                      *)
LEMMA SymsOK == ASSUME NEW R, NEW sy \in Syms(R) PROVE SymbolsOK(sy)
BY DEF Syms, SymbolsOK

(* A symbol more, of a record's name, is one that Flatten may compute.     *)
LEMMA SymsMore == ASSUME NEW R, NEW sy \in Syms(R), NEW x \in R, NEW v \in Int PROVE With(sy, x.n, v) \in Syms(R)
<1>1. PICK D \in SUBSET {y.n : y \in R} : sy \in [D -> Int] BY DEF Syms
<1>2. D \cup {x.n} \in SUBSET {y.n : y \in R} OBVIOUS
<1>3. With(sy, x.n, v) \in [D \cup {x.n} -> Int] BY <1>1 DEF With
<1> QED BY <1>2, <1>3 DEF Syms

(* captureEqu keeps the accumulator of a walk well-formed.                 *)
LEMMA CaptureTyped ==
  ASSUME NEW R, Sizable(R), NEW acc \in Accs(R), NEW x \in R PROVE captureEqu(acc, x) \in Accs(R)
<1>1. PICK v : v = Eval(x.e, 0, acc.symbols, <<>>) OBVIOUS
<1>2. captureEqu(acc, x) = IF v = {} THEN [acc EXCEPT !.ok = FALSE]
                           ELSE [acc EXCEPT !.symbols = With(@, x.n, CHOOSE y \in v : TRUE)]
  BY <1>1 DEF captureEqu
<1>3. acc.symbols \in Syms(R) BY DEF Accs
<1>4. CASE v = {}
  <2>1. [acc EXCEPT !.ok = FALSE] \in Accs(R) BY DEF Accs
  <2> QED BY <1>2, <1>4, <2>1
<1>5. CASE v # {}
  <2>1. PICK y \in v : y = CHOOSE z \in v : TRUE BY <1>5
  <2>2. IsExpr(x.e) BY DEF Sizable, IsRecord
  <2>3. SymbolsOK(acc.symbols) /\ 0 \in Int /\ <<>> \in Seq(Int) BY <1>3, SymsOK
  <2>b. y \in Eval(x.e, 0, acc.symbols, <<>>) BY <1>1, <2>1
  <2>4. y \in Int BY <2>2, <2>3, <2>b, EvalSingle
  <2>5. PICK sy : sy = With(acc.symbols, x.n, y) OBVIOUS
  <2>6. sy \in Syms(R) BY <1>3, <2>4, <2>5, SymsMore
  <2>7. [acc EXCEPT !.symbols = sy] \in Accs(R) BY <2>6 DEF Accs
  <2>8. captureEqu(acc, x) = [acc EXCEPT !.symbols = sy] BY <1>2, <1>5, <2>1, <2>5
  <2> QED BY <2>7, <2>8
<1> QED BY <1>4, <1>5

(* An aligned address is a number.                                         *)
LEMMA AlignedIs == ASSUME NEW v \in Int, NEW n \in Nat PROVE alignUp(v, n) \in Int
<1>1. CASE n <= 1 BY <1>1 DEF alignUp
<1>2. CASE ~(n <= 1)
  <2>1. n # 0 BY <1>2
  <2>2. Pad(v, n) \in 0 .. n - 1 BY <2>1, PadIs
  <2> QED BY <1>2, <2>2 DEF alignUp
<1> QED BY <1>1, <1>2

(* The size of a pool after an address is a number.                        *)
LEMMA PoolSizeIs ==
  ASSUME NEW c \in Int, NEW pend, IsFiniteSet(pend) PROVE flushPoolSize(c, pend) \in Int
<1>1. PICK f, e : f = Words(pend, 4) /\ e = Words(pend, 8) OBVIOUS
<1>2. IsFiniteSet(f) /\ IsFiniteSet(e)
  <2>1. f \subseteq pend /\ e \subseteq pend BY <1>1 DEF Words
  <2> QED BY <2>1, FS_Subset
<1>3. Cardinality(f) \in Nat /\ Cardinality(e) \in Nat BY <1>2, FS_CardinalityType
<1>4. PICK m : m = IF f = {} THEN c ELSE alignUp(c, 4) + 4 * Cardinality(f) OBVIOUS
<1>5. m \in Int
  <2>1. 4 \in Nat OBVIOUS
  <2>2. alignUp(c, 4) \in Int BY <2>1, AlignedIs
  <2> QED BY <1>3, <1>4, <2>2
<1>6. flushPoolSize(c, pend) = IF e = {} THEN m ELSE alignUp(m, 8) + 8 * Cardinality(e)
  BY <1>1, <1>4 DEF flushPoolSize
<1>7. alignUp(m, 8) \in Int
  <2>1. 8 \in Nat OBVIOUS
  <2> QED BY <1>5, <2>1, AlignedIs
<1> QED BY <1>3, <1>5, <1>6, <1>7

(* A record of a bucket keeps the accumulator of a walk well-formed.       *)
LEMMA PlaceTyped ==
  ASSUME NEW R, Sizable(R), NEW acc \in Accs(R), NEW x \in R, NEW sizing \in BOOLEAN
  PROVE  Place(acc, x, sizing) \in Accs(R)
<1>1. IsRecord(x) /\ x.k # "section" BY DEF Sizable
<1>2. /\ acc.pc \in Int /\ acc.symbols \in Syms(R) /\ acc.pending \in SUBSET Keys(R) /\ IsFiniteSet(acc.pending)
      /\ acc.labels \in Seq([n : {y.n : y \in R}, offset : Int])
  BY DEF Accs
<1>3. \A a \in Int : [acc EXCEPT !.pc = a] \in Accs(R) BY DEF Accs
<1>4. CASE x.k = "label"
  <2>1. PICK lb : lb = [n |-> x.n, offset |-> acc.pc] OBVIOUS
  <2>2. lb \in [n : {y.n : y \in R}, offset : Int] BY <1>2, <2>1
  <2>3. Append(acc.labels, lb) \in Seq([n : {y.n : y \in R}, offset : Int]) BY <1>2, <2>2
  <2>4. Place(acc, x, sizing) = [acc EXCEPT !.labels = Append(acc.labels, lb)] BY <1>4, <2>1 DEF Place
  <2>5. [acc EXCEPT !.labels = Append(acc.labels, lb)] \in Accs(R) BY <2>3 DEF Accs
  <2> QED BY <2>4, <2>5
<1>5. CASE x.k = "local" BY <1>5 DEF Place
<1>6. CASE x.k = "inst"
  <2>1. Place(acc, x, sizing) = [acc EXCEPT !.pc = acc.pc + 4] BY <1>6 DEF Place
  <2> QED BY <1>2, <1>3, <2>1
<1>7. CASE x.k = "ldr"
  <2>1. PICK key : key = <<x.w, x.e>> OBVIOUS
  <2>2. key \in Keys(R) BY <2>1 DEF Keys
  <2>3. Place(acc, x, sizing) = [acc EXCEPT !.pc = acc.pc + 4, !.pending = acc.pending \cup {key}]
    BY <1>7, <2>1 DEF Place
  <2>4. IsFiniteSet(acc.pending \cup {key}) BY <1>2, FS_AddElement
  <2>5. acc.pending \cup {key} \in SUBSET Keys(R) /\ acc.pc + 4 \in Int BY <1>2, <2>2
  <2>6. [acc EXCEPT !.pc = acc.pc + 4, !.pending = acc.pending \cup {key}] \in Accs(R)
    BY <2>4, <2>5 DEF Accs
  <2> QED BY <2>3, <2>6
<1>8. CASE x.k = "set"
  <2>1. Place(acc, x, sizing) = captureEqu(acc, x) BY <1>8 DEF Place
  <2> QED BY <2>1, CaptureTyped
<1>9. CASE x.k = "ltorg"
  <2>1. CASE sizing
    <3>1. PICK a : a = flushPoolSize(acc.pc, acc.pending) OBVIOUS
    <3>2. a \in Int BY <1>2, <3>1, PoolSizeIs
    <3>3. Place(acc, x, sizing) = [acc EXCEPT !.pc = a, !.pending = {}] BY <1>9, <2>1, <3>1 DEF Place
    <3>4. IsFiniteSet({}) BY FS_EmptySet
    <3>5. [acc EXCEPT !.pc = a, !.pending = {}] \in Accs(R) BY <3>2, <3>4 DEF Accs
    <3> QED BY <3>3, <3>5
  <2>2. CASE ~sizing BY <1>9, <2>2 DEF Place
  <2> QED BY <2>1, <2>2
<1>10. CASE x.k \in {"data", "balign", "skip", "org"}
  <2>1. PICK to : to = directiveSizeForFlatten(acc, x) OBVIOUS
  <2>2. Place(acc, x, sizing) = IF to = {} THEN [acc EXCEPT !.ok = FALSE] ELSE [acc EXCEPT !.pc = CHOOSE n \in to : TRUE]
    BY <1>10, <2>1 DEF Place
  <2>3. x.w \in Nat /\ IsExpr(x.e) BY <1>1 DEF IsRecord
  <2>4. SymbolsOK(acc.symbols) /\ <<>> \in Seq(Int) BY <1>2, SymsOK
  <2>5. \A n \in Eval(x.e, acc.pc, acc.symbols, <<>>) : n \in Int
    <3>1. ASSUME NEW n \in Eval(x.e, acc.pc, acc.symbols, <<>>) PROVE n \in Int
      BY <1>2, <2>3, <2>4, EvalSingle
    <3> QED BY <3>1
  <2>6. \A n \in to : n \in Int
    <3>1. CASE x.k = "data" BY <1>2, <2>1, <2>3, <3>1 DEF directiveSizeForFlatten
    <3>2. CASE x.k = "balign"
      <4>1. alignUp(acc.pc, x.w) \in Int BY <1>2, <2>3, AlignedIs
      <4> QED BY <2>1, <3>2, <4>1 DEF directiveSizeForFlatten
    <3>3. CASE x.k = "skip" BY <1>2, <2>1, <2>5, <3>3 DEF directiveSizeForFlatten
    <3>4. CASE x.k = "org" BY <2>1, <2>5, <3>4 DEF directiveSizeForFlatten
    <3> QED BY <1>10, <3>1, <3>2, <3>3, <3>4
  <2>7. CASE to = {}
    <3>1. [acc EXCEPT !.ok = FALSE] \in Accs(R) BY DEF Accs
    <3> QED BY <2>2, <2>7, <3>1
  <2>8. CASE to # {}
    <3>1. PICK n \in to : n = CHOOSE m \in to : TRUE BY <2>8
    <3> QED BY <1>3, <2>2, <2>6, <2>8, <3>1
  <2> QED BY <2>7, <2>8
<1> QED BY <1>1, <1>4, <1>5, <1>6, <1>7, <1>8, <1>9, <1>10 DEF IsRecord

CapturedIs(f, acc, recs) ==
  f = [i \in 0 .. Len(recs) |->
        IF i = 0 THEN acc
        ELSE IF recs[i].k = "set" THEN captureEqu(f[i - 1], recs[i]) ELSE f[i - 1]]

(* A walk over value-symbols keeps the accumulator well-formed.            *)
LEMMA CapturedTyped ==
  ASSUME NEW R, Sizable(R), NEW acc \in Accs(R), NEW recs \in Seq(R)
  PROVE  Captured(acc, recs) \in Accs(R)
<1> DEFINE n == Len(recs)
           V == Accs(R)
<1>1. n \in Nat /\ \A k \in 1 .. n : recs[k] \in R BY SeqFacts
<1>2. \A a \in V : \A k \in 1 .. n : captureEqu(a, recs[k]) \in V
  <2>1. ASSUME NEW a \in Accs(R), NEW k \in 1 .. n PROVE captureEqu(a, recs[k]) \in Accs(R)
    <3>1. recs[k] \in R BY <1>1
    <3> QED BY <3>1, CaptureTyped
  <2> QED BY <2>1
<1>3. PICK s : s = [k \in 1 .. n |-> [a \in V |-> IF recs[k].k = "set" THEN captureEqu(a, recs[k]) ELSE a]]
  OBVIOUS
<1>a. acc \in V OBVIOUS
<1>b. Captured(acc, recs) = (CHOOSE f : CapturedIs(f, acc, recs))[n]
  BY Zenon DEF Captured, CapturedIs
<1> HIDE DEF V, n
<1>4. s \in [1 .. n -> [V -> V]]
  <2>1. ASSUME NEW k \in 1 .. n
        PROVE  [a \in V |-> IF recs[k].k = "set" THEN captureEqu(a, recs[k]) ELSE a] \in [V -> V]
    BY <1>2
  <2> QED BY <1>3, <2>1
<1>5. PICK g : Stepped(g, n, V, acc, s) BY <1>1, <1>4, <1>a, Recursion
<1>6. g \in [0 .. n -> V] /\ g[0] = acc /\ \A i \in 1 .. n : g[i] = s[i][g[i - 1]]
  BY <1>5, Zenon DEF Stepped
<1>7. ASSUME NEW k \in 0 .. n
      PROVE  g[k] = IF k = 0 THEN acc
                    ELSE IF recs[k].k = "set" THEN captureEqu(g[k - 1], recs[k]) ELSE g[k - 1]
  <2>1. CASE k = 0 BY <1>6, <2>1
  <2>2. CASE k # 0
    <3>1. k \in 1 .. n /\ k - 1 \in 0 .. n BY <1>1, <2>2
    <3>2. g[k - 1] \in V BY <1>6, <3>1
    <3>3. s[k] = [a \in V |-> IF recs[k].k = "set" THEN captureEqu(a, recs[k]) ELSE a] BY <1>3, <3>1, Zenon
    <3>4. s[k][g[k - 1]] = IF recs[k].k = "set" THEN captureEqu(g[k - 1], recs[k]) ELSE g[k - 1]
      BY <3>2, <3>3, Zenon
    <3> QED BY <1>6, <2>2, <3>1, <3>4, Zenon
  <2> QED BY <2>1, <2>2
<1>8. g = [k \in 0 .. n |-> g[k]] BY <1>6, Zenon
<1>9. CapturedIs(g, acc, recs) BY <1>7, <1>8, Zenon DEF CapturedIs, n
<1>10. PICK f : f = (CHOOSE h : CapturedIs(h, acc, recs)) /\ CapturedIs(f, acc, recs) BY <1>9, Zenon
<1>11. /\ f[0] = acc
       /\ \A k \in 1 .. n : f[k] = IF recs[k].k = "set" THEN captureEqu(f[k - 1], recs[k]) ELSE f[k - 1]
  <2>1. 0 \in 0 .. n /\ \A k \in 1 .. n : k \in 0 .. n /\ k # 0 BY <1>1
  <2> QED BY <1>10, <2>1, Zenon DEF CapturedIs, n
<1> DEFINE T == {m \in 0 .. n : f[m] \in V}
<1>12. 0 \in T BY <1>1, <1>11, <1>a
<1>13. ASSUME NEW m \in 0 .. n, m < n, m \in T PROVE m + 1 \in T
  <2>1. PICK k \in 1 .. n : k = m + 1 /\ k - 1 = m /\ k \in 0 .. n BY <1>1, <1>13
  <2>2. f[k] = IF recs[k].k = "set" THEN captureEqu(f[m], recs[k]) ELSE f[m] BY <1>11, <2>1, Zenon
  <2>3. f[m] \in V BY <1>13
  <2>4. f[k] \in V BY <1>2, <2>2, <2>3
  <2> QED BY <2>1, <2>4
<1>14. n \in T
  <2>1. n \in 0 .. n BY <1>1
  <2> HIDE DEF T
  <2> QED BY <1>1, <1>12, <1>13, <2>1, ClimbTo
<1> QED BY <1>b, <1>10, <1>14 DEF V

WalkIs(f, recs, symbols, sizing) ==
  f = [i \in 0 .. Len(recs) |-> IF i = 0 THEN Sized(symbols) ELSE Place(f[i - 1], recs[i], sizing)]

(* A walk starts from a well-formed accumulator.                           *)
LEMMA SizedTyped == ASSUME NEW R, NEW sy \in Syms(R) PROVE Sized(sy) \in Accs(R)
<1>1. IsFiniteSet({}) BY FS_EmptySet
<1>2. PICK a : a = Sized(sy) OBVIOUS
<1>3. a = [ok |-> TRUE, pc |-> 0, symbols |-> sy, pending |-> {}, labels |-> <<>>] BY <1>2 DEF Sized
<1>4. <<>> \in Seq([n : {x.n : x \in R}, offset : Int]) /\ {} \in SUBSET Keys(R) /\ TRUE \in BOOLEAN /\ 0 \in Int
  OBVIOUS
<1>5. a \in [ok : BOOLEAN, pc : Int, symbols : Syms(R), pending : SUBSET Keys(R),
             labels : Seq([n : {x.n : x \in R}, offset : Int])]
  BY <1>3, <1>4
<1>6. IsFiniteSet(a.pending) BY <1>1, <1>3
<1>7. a \in Accs(R) BY <1>5, <1>6 DEF Accs
<1> QED BY <1>2, <1>7

(* A walk over a bucket yields a well-formed accumulator.                  *)
LEMMA WalkTyped ==
  ASSUME NEW R, Sizable(R), NEW recs \in Seq(R), NEW symbols \in Syms(R), NEW sizing \in BOOLEAN
  PROVE  Walk(recs, symbols, sizing) \in Accs(R)
<1> DEFINE n == Len(recs)
           V == Accs(R)
           acc == Sized(symbols)
<1>1. n \in Nat /\ \A k \in 1 .. n : recs[k] \in R BY SeqFacts
<1>2. \A a \in V : \A k \in 1 .. n : Place(a, recs[k], sizing) \in V
  <2>1. ASSUME NEW a \in Accs(R), NEW k \in 1 .. n PROVE Place(a, recs[k], sizing) \in Accs(R)
    <3>1. recs[k] \in R BY <1>1
    <3> QED BY <3>1, PlaceTyped
  <2> QED BY <2>1
<1>3. PICK s : s = [k \in 1 .. n |-> [a \in V |-> Place(a, recs[k], sizing)]]
  OBVIOUS
<1>a. acc \in V BY SizedTyped
<1>b. Walk(recs, symbols, sizing) = (CHOOSE f : WalkIs(f, recs, symbols, sizing))[n]
  BY Zenon DEF Walk, WalkIs
<1> HIDE DEF V, n, acc
<1>4. s \in [1 .. n -> [V -> V]]
  <2>1. ASSUME NEW k \in 1 .. n
        PROVE  [a \in V |-> Place(a, recs[k], sizing)] \in [V -> V]
    BY <1>2
  <2> QED BY <1>3, <2>1
<1>5. PICK g : Stepped(g, n, V, acc, s) BY <1>1, <1>4, <1>a, Recursion
<1>6. g \in [0 .. n -> V] /\ g[0] = acc /\ \A i \in 1 .. n : g[i] = s[i][g[i - 1]]
  BY <1>5, Zenon DEF Stepped
<1>7. ASSUME NEW k \in 0 .. n
      PROVE  g[k] = IF k = 0 THEN acc ELSE Place(g[k - 1], recs[k], sizing)
  <2>1. CASE k = 0 BY <1>6, <2>1
  <2>2. CASE k # 0
    <3>1. k \in 1 .. n /\ k - 1 \in 0 .. n BY <1>1, <2>2
    <3>2. g[k - 1] \in V BY <1>6, <3>1
    <3>3. s[k] = [a \in V |-> Place(a, recs[k], sizing)] BY <1>3, <3>1, Zenon
    <3>4. s[k][g[k - 1]] = Place(g[k - 1], recs[k], sizing) BY <3>2, <3>3, Zenon
    <3> QED BY <1>6, <2>2, <3>1, <3>4, Zenon
  <2> QED BY <2>1, <2>2
<1>8. g = [k \in 0 .. n |-> g[k]] BY <1>6, Zenon
<1>9. WalkIs(g, recs, symbols, sizing) BY <1>7, <1>8, Zenon DEF WalkIs, n, acc
<1>10. PICK f : f = (CHOOSE h : WalkIs(h, recs, symbols, sizing)) /\ WalkIs(f, recs, symbols, sizing)
  BY <1>9, Zenon
<1>11. f[0] = acc /\ \A k \in 1 .. n : f[k] = Place(f[k - 1], recs[k], sizing)
  <2>1. 0 \in 0 .. n /\ \A k \in 1 .. n : k \in 0 .. n /\ k # 0 BY <1>1
  <2> QED BY <1>10, <2>1, Zenon DEF WalkIs, n, acc
<1> DEFINE T == {m \in 0 .. n : f[m] \in V}
<1>12. 0 \in T BY <1>1, <1>11, <1>a
<1>13. ASSUME NEW m \in 0 .. n, m < n, m \in T PROVE m + 1 \in T
  <2>1. PICK k \in 1 .. n : k = m + 1 /\ k - 1 = m /\ k \in 0 .. n BY <1>1, <1>13
  <2>2. f[k] = Place(f[m], recs[k], sizing) BY <1>11, <2>1
  <2>3. f[m] \in V BY <1>13
  <2>4. f[k] \in V BY <1>2, <2>2, <2>3
  <2> QED BY <2>1, <2>4
<1>14. n \in T
  <2>1. n \in 0 .. n BY <1>1
  <2> HIDE DEF T
  <2> QED BY <1>1, <1>12, <1>13, <2>1, ClimbTo
<1> QED BY <1>b, <1>10, <1>14 DEF V

GlobalsAre(f, buckets) ==
  f = [k \in 0 .. Len(buckets) |-> IF k = 0 THEN Sized(Empty) ELSE Captured(f[k - 1], buckets[k])]

(* No symbols are symbols that Flatten may compute.                        *)
LEMMA EmptySyms == ASSUME NEW R PROVE Empty \in Syms(R)
<1>1. Empty \in [{} -> Int] BY DEF Empty
<1>2. {} \in SUBSET {x.n : x \in R} OBVIOUS
<1> QED BY <1>1, <1>2 DEF Syms

(* globalSymbols yields a well-formed accumulator.                         *)
LEMMA GlobalsTyped ==
  ASSUME NEW R, Sizable(R), NEW buckets \in Seq(Seq(R))
  PROVE  globalSymbols(buckets) \in Accs(R)
<1> DEFINE n == Len(buckets)
           V == Accs(R)
           acc == Sized(Empty)
<1>1. n \in Nat /\ \A k \in 1 .. n : buckets[k] \in Seq(R) BY SeqFacts
<1>2. \A a \in V : \A k \in 1 .. n : Captured(a, buckets[k]) \in V
  <2>1. ASSUME NEW a \in Accs(R), NEW k \in 1 .. n PROVE Captured(a, buckets[k]) \in Accs(R)
    <3>1. buckets[k] \in Seq(R) BY <1>1
    <3> QED BY <3>1, CapturedTyped
  <2> QED BY <2>1
<1>3. PICK s : s = [k \in 1 .. n |-> [a \in V |-> Captured(a, buckets[k])]]
  OBVIOUS
<1>a. acc \in V
  <2>1. Empty \in Syms(R) BY EmptySyms
  <2> QED BY <2>1, SizedTyped
<1>b. globalSymbols(buckets) = (CHOOSE f : GlobalsAre(f, buckets))[n]
  BY Zenon DEF globalSymbols, GlobalsAre
<1> HIDE DEF V, n, acc
<1>4. s \in [1 .. n -> [V -> V]]
  <2>1. ASSUME NEW k \in 1 .. n
        PROVE  [a \in V |-> Captured(a, buckets[k])] \in [V -> V]
    BY <1>2
  <2> QED BY <1>3, <2>1
<1>5. PICK g : Stepped(g, n, V, acc, s) BY <1>1, <1>4, <1>a, Recursion
<1>6. g \in [0 .. n -> V] /\ g[0] = acc /\ \A i \in 1 .. n : g[i] = s[i][g[i - 1]]
  BY <1>5, Zenon DEF Stepped
<1>7. ASSUME NEW k \in 0 .. n
      PROVE  g[k] = IF k = 0 THEN acc ELSE Captured(g[k - 1], buckets[k])
  <2>1. CASE k = 0 BY <1>6, <2>1
  <2>2. CASE k # 0
    <3>1. k \in 1 .. n /\ k - 1 \in 0 .. n BY <1>1, <2>2
    <3>2. g[k - 1] \in V BY <1>6, <3>1
    <3>3. s[k] = [a \in V |-> Captured(a, buckets[k])] BY <1>3, <3>1, Zenon
    <3>4. s[k][g[k - 1]] = Captured(g[k - 1], buckets[k]) BY <3>2, <3>3, Zenon
    <3> QED BY <1>6, <2>2, <3>1, <3>4, Zenon
  <2> QED BY <2>1, <2>2
<1>8. g = [k \in 0 .. n |-> g[k]] BY <1>6, Zenon
<1>9. GlobalsAre(g, buckets) BY <1>7, <1>8, Zenon DEF GlobalsAre, n, acc
<1>10. PICK f : f = (CHOOSE h : GlobalsAre(h, buckets)) /\ GlobalsAre(f, buckets)
  BY <1>9, Zenon
<1>11. f[0] = acc /\ \A k \in 1 .. n : f[k] = Captured(f[k - 1], buckets[k])
  <2>1. 0 \in 0 .. n /\ \A k \in 1 .. n : k \in 0 .. n /\ k # 0 BY <1>1
  <2> QED BY <1>10, <2>1, Zenon DEF GlobalsAre, n, acc
<1> DEFINE T == {m \in 0 .. n : f[m] \in V}
<1>12. 0 \in T BY <1>1, <1>11, <1>a
<1>13. ASSUME NEW m \in 0 .. n, m < n, m \in T PROVE m + 1 \in T
  <2>1. PICK k \in 1 .. n : k = m + 1 /\ k - 1 = m /\ k \in 0 .. n BY <1>1, <1>13
  <2>2. f[k] = Captured(f[m], buckets[k]) BY <1>11, <2>1
  <2>3. f[m] \in V BY <1>13
  <2>4. f[k] \in V BY <1>2, <2>2, <2>3
  <2> QED BY <2>1, <2>4
<1>14. n \in T
  <2>1. n \in 0 .. n BY <1>1
  <2> HIDE DEF T
  <2> QED BY <1>1, <1>12, <1>13, <2>1, ClimbTo
<1> QED BY <1>b, <1>10, <1>14 DEF V

MostIs(f, recs) ==
  f = [i \in 0 .. Len(recs) |->
        IF i = 0 THEN 1
        ELSE IF recs[i].k = "balign" /\ recs[i].w > f[i - 1] THEN recs[i].w ELSE f[i - 1]]

(* The alignment a section requires is a number.                           *)
LEMMA RequiredAlignIs ==
  ASSUME NEW R, Sizable(R), NEW recs \in Seq(R)
  PROVE  sectionRequiredAlign(recs) \in Nat
<1> DEFINE n == Len(recs)
           one == 1
           F(k, a) == IF recs[k].k = "balign" /\ recs[k].w > a THEN recs[k].w ELSE a
<1>1. n \in Nat /\ \A k \in 1 .. n : recs[k] \in R BY SeqFacts
<1>2. \A a \in Nat : \A k \in 1 .. n : F(k, a) \in Nat
  <2>1. \A k \in 1 .. n : recs[k].w \in Nat BY <1>1 DEF Sizable, IsRecord
  <2> QED BY <2>1
<1>3. PICK s : s = [k \in 1 .. n |-> [a \in Nat |-> F(k, a)]] OBVIOUS
<1>a. one \in Nat OBVIOUS
<1>b. sectionRequiredAlign(recs) = (CHOOSE f : MostIs(f, recs))[n] BY Zenon DEF sectionRequiredAlign, MostIs
<1>c. \A f : MostIs(f, recs) <=> f = [i \in 0 .. n |-> IF i = 0 THEN one ELSE F(i, f[i - 1])]
  BY Zenon DEF MostIs
<1> HIDE DEF n, one, F
<1>4. s \in [1 .. n -> [Nat -> Nat]]
  <2>1. ASSUME NEW k \in 1 .. n PROVE [a \in Nat |-> F(k, a)] \in [Nat -> Nat] BY <1>2
  <2> QED BY <1>3, <2>1
<1>5. PICK g : Stepped(g, n, Nat, one, s) BY <1>1, <1>4, <1>a, Recursion
<1>6. g \in [0 .. n -> Nat] /\ g[0] = one /\ \A i \in 1 .. n : g[i] = s[i][g[i - 1]]
  BY <1>5, Zenon DEF Stepped
<1>7. ASSUME NEW k \in 0 .. n PROVE g[k] = IF k = 0 THEN one ELSE F(k, g[k - 1])
  <2>1. CASE k = 0 BY <1>6, <2>1
  <2>2. CASE k # 0
    <3>1. k \in 1 .. n /\ k - 1 \in 0 .. n BY <1>1, <2>2
    <3>2. g[k - 1] \in Nat BY <1>6, <3>1
    <3>3. s[k] = [a \in Nat |-> F(k, a)] BY <1>3, <3>1, Zenon
    <3>4. s[k][g[k - 1]] = F(k, g[k - 1]) BY <3>2, <3>3, Zenon
    <3> QED BY <1>6, <2>2, <3>1, <3>4, Zenon
  <2> QED BY <2>1, <2>2
<1>8. g = [k \in 0 .. n |-> g[k]] BY <1>6, Zenon
<1>9. MostIs(g, recs) BY <1>7, <1>8, <1>c, Zenon
<1>10. PICK f : f = (CHOOSE h : MostIs(h, recs)) /\ MostIs(f, recs) BY <1>9, Zenon
<1>11. f[0] = one /\ \A k \in 1 .. n : f[k] = F(k, f[k - 1])
  <2>1. 0 \in 0 .. n /\ \A k \in 1 .. n : k \in 0 .. n /\ k # 0 BY <1>1
  <2>2. f = [i \in 0 .. n |-> IF i = 0 THEN one ELSE F(i, f[i - 1])] BY <1>10, <1>c, Zenon
  <2> QED BY <2>1, <2>2, Zenon
<1> DEFINE T == {m \in 0 .. n : f[m] \in Nat}
<1>12. 0 \in T BY <1>1, <1>11, <1>a
<1>13. ASSUME NEW m \in 0 .. n, m < n, m \in T PROVE m + 1 \in T
  <2>1. PICK k \in 1 .. n : k = m + 1 /\ k - 1 = m /\ k \in 0 .. n BY <1>1, <1>13
  <2>2. f[k] = F(k, f[m]) BY <1>11, <2>1
  <2>3. f[m] \in Nat BY <1>13
  <2>4. f[k] \in Nat BY <1>2, <2>2, <2>3
  <2> QED BY <2>1, <2>4
<1>14. n \in T
  <2>1. n \in 0 .. n BY <1>1
  <2> HIDE DEF T
  <2> QED BY <1>1, <1>12, <1>13, <2>1, ClimbTo
<1> QED BY <1>b, <1>10, <1>14

(* Where the sections start: the recursion begins with the first one.      *)
StartsAre(f, layout, origin, buckets, sizes) ==
  f = [k \in 1 .. Len(layout) |->
        alignUp(IF k = 1 THEN origin
                ELSE f[k - 1] + alignUp(sizes[k - 1].size, layout[k - 1].trailingAlign),
                StartAlign(layout[k], buckets[k]))]

(* The sections start at numbers.                                          *)
LEMMA StartsTyped ==
  ASSUME NEW R, Sizable(R), NEW layout, IsLayout(layout), NEW origin \in Nat,
         NEW buckets \in Seq(Seq(R)), Len(buckets) = Len(layout),
         NEW sizes, \A k \in 1 .. Len(layout) : sizes[k].size \in Int
  PROVE  \A k \in 1 .. Len(layout) : Starts(layout, origin, buckets, sizes)[k] \in Int
<1> DEFINE n == Len(layout)
           F(k, a) == alignUp(IF k = 1 THEN origin
                              ELSE a + alignUp(sizes[k - 1].size, layout[k - 1].trailingAlign),
                              StartAlign(layout[k], buckets[k]))
<1>1. /\ n \in Nat /\ n >= 2 /\ DOMAIN layout = 1 .. n
      /\ \A k \in 1 .. n : layout[k].startAlign \in Nat /\ layout[k].trailingAlign \in Nat
  BY DEF IsLayout
<1>2. \A a \in Int : \A k \in 1 .. n : F(k, a) \in Int
  <2> SUFFICES ASSUME NEW a \in Int, NEW k \in 1 .. n PROVE F(k, a) \in Int
    OBVIOUS
  <2>1. StartAlign(layout[k], buckets[k]) \in Nat
    <3>1. buckets[k] \in Seq(R) BY SeqFacts
    <3>2. sectionRequiredAlign(buckets[k]) \in Nat BY <3>1, RequiredAlignIs
    <3> QED BY <1>1, <3>2 DEF StartAlign
  <2>2. PICK b : b = IF k = 1 THEN origin ELSE a + alignUp(sizes[k - 1].size, layout[k - 1].trailingAlign)
    OBVIOUS
  <2>3. b \in Int
    <3>1. CASE k = 1 BY <2>2, <3>1
    <3>2. CASE k # 1
      <4>1. k - 1 \in 1 .. n BY <1>1, <3>2
      <4>2. sizes[k - 1].size \in Int /\ layout[k - 1].trailingAlign \in Nat BY <1>1, <4>1
      <4>3. alignUp(sizes[k - 1].size, layout[k - 1].trailingAlign) \in Int BY <4>2, AlignedIs
      <4> QED BY <2>2, <3>2, <4>3
    <3> QED BY <3>1, <3>2
  <2>4. alignUp(b, StartAlign(layout[k], buckets[k])) \in Int BY <2>1, <2>3, AlignedIs
  <2> QED BY <2>2, <2>4
<1>3. PICK s : s = [k \in 1 .. n |-> [a \in Int |-> F(k, a)]] OBVIOUS
<1>b. Starts(layout, origin, buckets, sizes) = CHOOSE f : StartsAre(f, layout, origin, buckets, sizes)
  BY Zenon DEF Starts, StartsAre
<1>c. \A f : StartsAre(f, layout, origin, buckets, sizes) <=> f = [k \in 1 .. n |-> F(k, f[k - 1])]
  BY Zenon DEF StartsAre
<1>d. \A a, b : F(1, a) = F(1, b)
  <2>1. \A a : F(1, a) = alignUp(origin, StartAlign(layout[1], buckets[1])) BY Zenon
  <2> HIDE DEF F
  <2> QED BY <2>1
<1> HIDE DEF n, F
<1>4. s \in [1 .. n -> [Int -> Int]]
  <2>1. ASSUME NEW k \in 1 .. n PROVE [a \in Int |-> F(k, a)] \in [Int -> Int] BY <1>2
  <2> QED BY <1>3, <2>1
<1>5. PICK h : Stepped(h, n, Int, 0, s)
  <2>1. 0 \in Int OBVIOUS
  <2> QED BY <1>1, <1>4, <2>1, Recursion
<1>6. h \in [0 .. n -> Int] /\ h[0] = 0 /\ \A i \in 1 .. n : h[i] = s[i][h[i - 1]]
  BY <1>5, Zenon DEF Stepped
<1>7. PICK g : g = [k \in 1 .. n |-> h[k]] OBVIOUS
<1>8. ASSUME NEW k \in 1 .. n PROVE g[k] = F(k, g[k - 1])
  <2>1. k - 1 \in 0 .. n /\ g[k] = h[k] BY <1>1, <1>7
  <2>2. h[k - 1] \in Int BY <1>6, <2>1
  <2>3. s[k] = [a \in Int |-> F(k, a)] BY <1>3, Zenon
  <2>4. h[k] = F(k, h[k - 1]) BY <1>6, <2>2, <2>3, Zenon
  <2>5. CASE k = 1 BY <1>d, <2>1, <2>4, <2>5
  <2>6. CASE k # 1
    <3>1. k - 1 \in 1 .. n BY <1>1, <2>6
    <3>2. g[k - 1] = h[k - 1] BY <1>7, <3>1
    <3> QED BY <2>1, <2>4, <3>2
  <2> QED BY <2>5, <2>6
<1>9. g = [k \in 1 .. n |-> F(k, g[k - 1])] BY <1>7, <1>8, Zenon
<1>10. StartsAre(g, layout, origin, buckets, sizes) BY <1>9, <1>c, Zenon
<1>11. PICK f : /\ f = (CHOOSE e : StartsAre(e, layout, origin, buckets, sizes))
                /\ StartsAre(f, layout, origin, buckets, sizes)
  BY <1>10, Zenon
<1>12. \A k \in 1 .. n : f[k] = F(k, f[k - 1])
  <2>2. f = [i \in 1 .. n |-> F(i, f[i - 1])] BY <1>11, <1>c, Zenon
  <2> QED BY <2>2, Zenon
<1> DEFINE T == {m \in 0 .. n : m = 0 \/ f[m] \in Int}
<1>13. 0 \in T BY <1>1
<1>14. ASSUME NEW m \in 0 .. n, m < n, m \in T PROVE m + 1 \in T
  <2>1. PICK k \in 1 .. n : k = m + 1 /\ k - 1 = m /\ k \in 0 .. n BY <1>1, <1>14
  <2>2. f[k] = F(k, f[m]) BY <1>12, <2>1
  <2>3. CASE m = 0
    <3>1. f[k] = F(k, 0) BY <1>d, <2>1, <2>2, <2>3
    <3>2. f[k] \in Int BY <1>2, <3>1
    <3> QED BY <2>1, <3>2
  <2>4. CASE m # 0
    <3>1. f[m] \in Int BY <1>14, <2>4
    <3>2. f[k] \in Int BY <1>2, <2>2, <3>1
    <3> QED BY <2>1, <3>2
  <2> QED BY <2>3, <2>4
<1>15. \A m \in 0 .. n : m \in T
  <2> HIDE DEF T
  <2> QED BY <1>1, <1>13, <1>14, ClimbTo
<1>16. \A k \in 1 .. n : f[k] \in Int
  <2>1. \A k \in 1 .. n : k \in 0 .. n /\ k # 0 BY <1>1
  <2> QED BY <1>15, <2>1
<1> QED BY <1>b, <1>11, <1>16 DEF n

Equs(R) == [k : {"set"}, n : {x.n : x \in R}, w : {0}, e : [op : {"int"}, v : Int]]

(* Labels made value-symbols are records of that kind.                     *)
LEMMA EquRecordsTyped ==
  ASSUME NEW R, NEW start \in Int, NEW labels \in Seq([n : {x.n : x \in R}, offset : Int])
  PROVE  equRecords(start, labels) \in Seq(Equs(R))
<1>1. Len(labels) \in Nat /\ \A i \in 1 .. Len(labels) : labels[i] \in [n : {x.n : x \in R}, offset : Int]
  <2>1. PICK N : N = [n : {x.n : x \in R}, offset : Int] OBVIOUS
  <2>2. labels \in Seq(N) BY <2>1
  <2>3. Len(labels) \in Nat /\ \A i \in 1 .. Len(labels) : labels[i] \in N BY <2>2
  <2> QED BY <2>1, <2>3
<1>2. ASSUME NEW i \in 1 .. Len(labels)
      PROVE  Record("set", labels[i].n, 0, Expr("int", start + labels[i].offset)) \in Equs(R)
  <2>1. labels[i].n \in {x.n : x \in R} /\ start + labels[i].offset \in Int BY <1>1
  <2> QED BY <2>1 DEF Record, Expr, Equs
<1>3. equRecords(start, labels) \in [1 .. Len(labels) -> Equs(R)] BY <1>2 DEF equRecords
<1> QED BY <1>1, <1>3

AddressesAre(f, starts, buckets, symbols) ==
  f = [k \in 0 .. Len(buckets) |->
        IF k <= 2 THEN <<>> ELSE f[k - 1] \o equRecords(starts[k], sectionLabels(buckets[k], symbols))]

(* All of the address-only sections are made value-symbols.                *)
LEMMA AddressOnlyTyped ==
  ASSUME NEW R, Sizable(R), NEW buckets \in Seq(Seq(R)), NEW symbols \in Syms(R),
         NEW starts, \A k \in 1 .. Len(buckets) : starts[k] \in Int
  PROVE  AddressOnly(starts, buckets, symbols) \in Seq(Equs(R))
<1> DEFINE n == Len(buckets)
           V == Seq(Equs(R))
           L(k) == equRecords(starts[k], sectionLabels(buckets[k], symbols))
           F(k, a) == IF k <= 2 THEN <<>> ELSE a \o L(k)
           none == <<>>
<1>1. n \in Nat /\ \A k \in 1 .. n : buckets[k] \in Seq(R) BY SeqFacts
<1>2. \A a \in V : \A k \in 1 .. n : F(k, a) \in V
  <2> SUFFICES ASSUME NEW a \in V, NEW k \in 1 .. n PROVE F(k, a) \in V
    OBVIOUS
  <2>1. L(k) \in V
    <3>1. buckets[k] \in Seq(R) /\ starts[k] \in Int /\ FALSE \in BOOLEAN BY <1>1
    <3>2. Walk(buckets[k], symbols, FALSE) \in Accs(R) BY <3>1, WalkTyped
    <3>3. sectionLabels(buckets[k], symbols) \in Seq([n : {x.n : x \in R}, offset : Int])
      BY <3>2 DEF sectionLabels, Accs
    <3> QED BY <3>1, <3>3, EquRecordsTyped
  <2>2. <<>> \in V /\ a \o L(k) \in V
    <3> HIDE DEF L
    <3> QED BY <2>1
  <2> QED BY <2>2
<1>3. PICK s : s = [k \in 1 .. n |-> [a \in V |-> F(k, a)]] OBVIOUS
<1>a. none \in V OBVIOUS
<1>b. AddressOnly(starts, buckets, symbols) = (CHOOSE f : AddressesAre(f, starts, buckets, symbols))[n]
  BY Zenon DEF AddressOnly, AddressesAre
<1>c. \A f : AddressesAre(f, starts, buckets, symbols) <=> f = [i \in 0 .. n |-> F(i, f[i - 1])]
  BY Zenon DEF AddressesAre
<1>d. \A a : F(0, a) = none
  <2>1. 0 <= 2 OBVIOUS
  <2> QED BY <2>1, Zenon
<1> HIDE DEF n, V, L, F, none
<1>4. s \in [1 .. n -> [V -> V]]
  <2>1. ASSUME NEW k \in 1 .. n PROVE [a \in V |-> F(k, a)] \in [V -> V] BY <1>2
  <2> QED BY <1>3, <2>1
<1>5. PICK g : Stepped(g, n, V, none, s) BY <1>1, <1>4, <1>a, Recursion
<1>6. g \in [0 .. n -> V] /\ g[0] = none /\ \A i \in 1 .. n : g[i] = s[i][g[i - 1]]
  BY <1>5, Zenon DEF Stepped
<1>7. ASSUME NEW k \in 0 .. n PROVE g[k] = F(k, g[k - 1])
  <2>1. CASE k = 0 BY <1>6, <1>d, <2>1
  <2>2. CASE k # 0
    <3>1. k \in 1 .. n /\ k - 1 \in 0 .. n BY <1>1, <2>2
    <3>2. g[k - 1] \in V BY <1>6, <3>1
    <3>3. s[k] = [a \in V |-> F(k, a)] BY <1>3, <3>1, Zenon
    <3>4. s[k][g[k - 1]] = F(k, g[k - 1]) BY <3>2, <3>3, Zenon
    <3> QED BY <1>6, <3>1, <3>4, Zenon
  <2> QED BY <2>1, <2>2
<1>8. g = [k \in 0 .. n |-> g[k]] BY <1>6, Zenon
<1>e. g = [k \in 0 .. n |-> F(k, g[k - 1])] BY <1>7, <1>8, Zenon
<1>9. AddressesAre(g, starts, buckets, symbols) BY <1>e, <1>c, Zenon
<1>10. PICK f : /\ f = (CHOOSE h : AddressesAre(h, starts, buckets, symbols))
                /\ AddressesAre(f, starts, buckets, symbols)
  BY <1>9, Zenon
<1>11. f[0] = none /\ \A k \in 1 .. n : f[k] = F(k, f[k - 1])
  <2>1. 0 \in 0 .. n /\ \A k \in 1 .. n : k \in 0 .. n BY <1>1
  <2>2. f = [i \in 0 .. n |-> F(i, f[i - 1])] BY <1>10, <1>c, Zenon
  <2>3. \A i \in 0 .. n : f[i] = F(i, f[i - 1]) BY <2>2, Zenon
  <2> QED BY <1>d, <2>1, <2>3, Zenon
<1> DEFINE T == {m \in 0 .. n : f[m] \in V}
<1>12. 0 \in T BY <1>1, <1>11, <1>a
<1>13. ASSUME NEW m \in 0 .. n, m < n, m \in T PROVE m + 1 \in T
  <2>1. PICK k \in 1 .. n : k = m + 1 /\ k - 1 = m /\ k \in 0 .. n BY <1>1, <1>13
  <2>2. f[k] = F(k, f[m]) BY <1>11, <2>1
  <2>3. f[m] \in V BY <1>13
  <2>4. f[k] \in V BY <1>2, <2>2, <2>3
  <2> QED BY <2>1, <2>4
<1>14. n \in T
  <2>1. n \in 0 .. n BY <1>1
  <2> HIDE DEF T
  <2> QED BY <1>1, <1>12, <1>13, <2>1, ClimbTo
<1> QED BY <1>b, <1>10, <1>14 DEF V

(* A value-symbol that Flatten makes is a record.                          *)
LEMMA EquIsRecord == ASSUME NEW R, NEW x \in Equs(R) PROVE IsRecord(x)
BY DEF Equs, IsRecord, IsExpr

(* The records that Flatten itself puts between the sections are records.  *)
LEMMA FixedRecords ==
  ASSUME NEW origin \in Nat
  PROVE  /\ IsRecord(Record("org", "", 0, Expr("int", origin)))
         /\ IsRecord(Record("ltorg", "", 0, Expr("int", 0)))
         /\ IsRecord(Record("balign", "", 16, Expr("int", 0)))
BY DEF Record, Expr, IsRecord, IsExpr

(* Flatten hands the passes a program.                                     *)
LEMMA FlattenTyped ==
  ASSUME NEW p, IsProgram(p), NEW layout, IsLayout(layout), NEW origin \in Nat
  PROVE  IsProgram(Flatten(p, layout, origin).out)
<1>1. Len(p) \in Nat /\ DOMAIN p = 1 .. Len(p) /\ \A i \in 1 .. Len(p) : IsRecord(p[i]) BY ProgramFacts
<1>2. PICK R : R = {p[i] : i \in {j \in 1 .. Len(p) : p[j].k # "section"}} OBVIOUS
<1>3. Sizable(R) BY <1>1, <1>2 DEF Sizable
<1>4. Len(layout) \in Nat /\ Len(layout) >= 2 /\ DOMAIN layout = 1 .. Len(layout) BY DEF IsLayout
<1>5. ASSUME NEW name PROVE Bucket(p, name) \in Seq(R)
  <2>1. PICK S : S = {i \in DOMAIN p : p[i].k # "section" /\ SectionAt(p, i) = name} OBVIOUS
  <2>2. S \subseteq DOMAIN p /\ p \in Seq(Range(p)) BY <2>1 DEF IsProgram
  <2>3. Kept(p, S) \in Seq(Range(p)) /\ \E pos : Lists(Kept(p, S), p, S, pos) BY <2>2, KeptLists
  <2>4. PICK pos : Lists(Kept(p, S), p, S, pos) BY <2>3
  <2>5. PICK b : b = Kept(p, S) OBVIOUS
  <2>6. b \in Seq(Range(p)) /\ pos \in [1 .. Len(b) -> S] /\ \A j \in 1 .. Len(b) : b[j] = p[pos[j]]
    BY <2>3, <2>4, <2>5 DEF Lists
  <2>7. \A j \in 1 .. Len(b) : b[j] \in R
    <3>1. ASSUME NEW j \in 1 .. Len(b) PROVE b[j] \in R
      <4>1. pos[j] \in S /\ b[j] = p[pos[j]] BY <2>6
      <4> QED BY <1>1, <1>2, <2>1, <4>1
    <3> QED BY <3>1
  <2>8. b \in Seq(R) BY <2>6, <2>7
  <2> QED BY <2>1, <2>5, <2>8 DEF Bucket
<1>6. PICK buckets, n : buckets = Buckets(p, layout) /\ n = Len(layout) OBVIOUS
<1>7. buckets \in Seq(Seq(R)) /\ Len(buckets) = n
  <2>1. buckets = [k \in 1 .. n |-> Bucket(p, layout[k].name)] BY <1>6 DEF Buckets
  <2>2. buckets \in [1 .. n -> Seq(R)] BY <1>5, <2>1
  <2> QED BY <1>4, <1>6, <2>2
<1>8. PICK globals : globals = globalSymbols(buckets) OBVIOUS
<1>9. globals.symbols \in Syms(R)
  <2>1. globals \in Accs(R) BY <1>3, <1>7, <1>8, GlobalsTyped
  <2> QED BY <2>1 DEF Accs
<1>10. PICK sizes : sizes = [k \in DOMAIN layout |-> sectionSize(buckets[k], k = 1, globals.symbols)] OBVIOUS
<1>11. ASSUME NEW k \in 1 .. n PROVE sizes[k].size \in Int
  <2>1. buckets[k] \in Seq(R) /\ TRUE \in BOOLEAN BY <1>7, SeqFacts
  <2>2. PICK w : w = Walk(buckets[k], globals.symbols, TRUE) OBVIOUS
  <2>3. w \in Accs(R) BY <1>3, <1>9, <2>1, <2>2, WalkTyped
  <2>4. w.pc \in Int /\ IsFiniteSet(w.pending) BY <2>3 DEF Accs
  <2>5. flushPoolSize(w.pc, w.pending) \in Int BY <2>4, PoolSizeIs
  <2>6. sizes[k] = sectionSize(buckets[k], k = 1, globals.symbols) BY <1>4, <1>6, <1>10
  <2>7. sizes[k].size = IF k = 1 THEN flushPoolSize(w.pc, w.pending) ELSE w.pc
    BY <2>2, <2>6 DEF sectionSize
  <2> QED BY <2>4, <2>5, <2>7
<1>12. PICK starts : starts = Starts(layout, origin, buckets, sizes) OBVIOUS
<1>13. \A k \in 1 .. Len(buckets) : starts[k] \in Int
  <2>1. \A k \in 1 .. Len(layout) : sizes[k].size \in Int BY <1>6, <1>11
  <2>2. Len(buckets) = Len(layout) BY <1>6, <1>7
  <2>3. \A k \in 1 .. Len(layout) : Starts(layout, origin, buckets, sizes)[k] \in Int
    BY <1>3, <1>7, <2>1, <2>2, StartsTyped
  <2> QED BY <1>12, <2>2, <2>3
<1>14. PICK addresses : addresses = AddressOnly(starts, buckets, globals.symbols) OBVIOUS
<1>15. addresses \in Seq(Equs(R)) BY <1>3, <1>7, <1>9, <1>13, <1>14, AddressOnlyTyped
<1>16. PICK o, l, b : /\ o = Record("org", "", 0, Expr("int", origin)) /\ l = Record("ltorg", "", 0, Expr("int", 0))
                      /\ b = Record("balign", "", 16, Expr("int", 0))
  OBVIOUS
<1>17. PICK out : out = Flatten(p, layout, origin).out OBVIOUS
<1>18. out = <<o>> \o buckets[1] \o <<l>> \o (IF buckets[2] = <<>> THEN <<>> ELSE <<b>> \o buckets[2]) \o addresses
  BY <1>6, <1>8, <1>10, <1>12, <1>14, <1>16, <1>17 DEF Flatten
<1>19. PICK S : S = {o, l, b} \cup R \cup Equs(R) OBVIOUS
<1>20. \A x \in S : IsRecord(x)
  <2>1. IsRecord(o) /\ IsRecord(l) /\ IsRecord(b) BY <1>16, FixedRecords
  <2>2. \A x \in R : IsRecord(x) BY <1>3 DEF Sizable
  <2> QED BY <1>19, <2>1, <2>2, EquIsRecord
<1>21. out \in Seq(S)
  <2>1. o \in S /\ l \in S /\ b \in S /\ R \subseteq S /\ Equs(R) \subseteq S BY <1>19
  <2>2. buckets[1] \in Seq(R) /\ buckets[2] \in Seq(R) BY <1>4, <1>6, <1>7, SeqFacts
  <2>3. buckets[1] \in Seq(S) /\ buckets[2] \in Seq(S) /\ addresses \in Seq(S) BY <1>15, <2>1, <2>2, SeqWiden
  <2>4. PICK b1, b2 : b1 = buckets[1] /\ b2 = buckets[2] OBVIOUS
  <2>5. PICK mid : mid = IF b2 = <<>> THEN <<>> ELSE <<b>> \o b2 OBVIOUS
  <2>6. mid \in Seq(S)
    <3>1. <<b>> \in Seq(S) /\ <<>> \in Seq(S) BY <2>1
    <3>2. b2 \in Seq(S) BY <2>3, <2>4
    <3>3. <<b>> \o b2 \in Seq(S) BY <3>1, <3>2
    <3> QED BY <2>5, <3>1, <3>3
  <2>7. out = <<o>> \o b1 \o <<l>> \o mid \o addresses BY <1>18, <2>4, <2>5
  <2>8. <<o>> \in Seq(S) /\ <<l>> \in Seq(S) BY <2>1
  <2>9. b1 \in Seq(S) BY <2>3, <2>4
  <2>10. <<o>> \o b1 \in Seq(S) BY <2>8, <2>9
  <2>11. <<o>> \o b1 \o <<l>> \in Seq(S) BY <2>8, <2>10
  <2>12. <<o>> \o b1 \o <<l>> \o mid \in Seq(S) BY <2>6, <2>11
  <2> QED BY <2>3, <2>7, <2>12
<1>22. IsProgram(out)
  <2>1. DOMAIN out = 1 .. Len(out) /\ \A i \in 1 .. Len(out) : out[i] \in S BY <1>21
  <2>2. \A i \in 1 .. Len(out) : out[i] \in Range(out) BY <2>1 DEF Range
  <2>3. out \in Seq(Range(out)) BY <1>21, <2>2
  <2> QED BY <1>20, <2>1, <2>3 DEF IsProgram
<1> QED BY <1>17, <1>22

-----------------------------------------------------------------------------
(* What is well formed at every stage.                                     *)

OptsOK == opts.layout # <<>> => IsLayout(opts.layout) /\ opts.origin \in Nat
Fresh == at = 1 /\ pc = 0 /\ res = EmptyResult /\ pending = <<>>

WellFormed ==
  /\ OptsOK
  /\ stage \in {"source", "flatten", "pass1", "pass2", "errata", "done", "error"}
  /\ stage \in {"source", "flatten"} => Fresh
  /\ stage = "flatten" => IsProgram(prog) /\ opts.layout # <<>>
  /\ stage = "pass1" => Typed1(prog, res, at, pc, pending)
  /\ stage = "pass2" => Typed2(prog, res, at, pc, pending, image) /\ at \in 1 .. Len(prog) + 1
  /\ stage = "errata" => Typed2(prog, res, at, pc, pending, image) /\ at = Len(prog) + 2

(* Pass 1 starts well-formed, on any program.                              *)
LEMMA FreshIsTyped == ASSUME NEW p, IsProgram(p) PROVE Typed1(p, EmptyResult, 1, 0, <<>>)
<1>1. ResOK(EmptyResult) BY EmptyIsResult
<1>2. EmptyResult.recordPC = <<>> BY DEF EmptyResult
<1>3. Len(p) \in Nat BY ProgramFacts
<1>4. 1 \in 1 .. Len(p) + 1 BY <1>3
<1>5. <<>> \in Seq(1 .. Len(EmptyResult.pool)) /\ Len(<<>>) = 1 - 1 /\ 0 \in Int OBVIOUS
<1>6. Len(EmptyResult.recordPC) = 1 - 1 BY <1>2, <1>5
<1> QED BY <1>1, <1>4, <1>5, <1>6 DEF Typed1

(* Every initial state is well-formed.                                     *)
LEMMA InitWellFormed == Init => WellFormed
<1> SUFFICES ASSUME Init PROVE WellFormed OBVIOUS
<1>1. PICK i \in DOMAIN Inputs : \E source \in Inputs[i].sources :
             LET all == Inputs[i].head \o source IN
             /\ opts = Inputs[i].opts
             /\ lines = (IF opts.parsed THEN <<>> ELSE all) /\ pp = NewPreprocessor(lines)
             /\ prog = IF opts.parsed THEN all ELSE <<>>
  BY DEF Init
<1>2. PICK source \in Inputs[i].sources :
        opts = Inputs[i].opts /\ prog = IF opts.parsed THEN Inputs[i].head \o source ELSE <<>>
  BY <1>1
<1>3. Fresh /\ stage = IF opts.parsed THEN "pass1" ELSE "source" BY DEF Init, Fresh
<1>4. OptsOK BY <1>2, AssemblerAssumption DEF OptsOK
<1>5. ASSUME opts.parsed PROVE Typed1(prog, res, at, pc, pending)
  <2>1. IsProgram(Inputs[i].head \o source) BY <1>2, <1>5, AssemblerAssumption
  <2>2. IsProgram(prog) BY <1>2, <1>5, <2>1
  <2>3. Typed1(prog, EmptyResult, 1, 0, <<>>) BY <2>2, FreshIsTyped
  <2> QED BY <1>3, <2>3 DEF Fresh
<1>6. CASE opts.parsed
  <2>1. stage = "pass1" BY <1>3, <1>6
  <2> QED BY <1>4, <1>5, <1>6, <2>1 DEF WellFormed
<1>7. CASE ~opts.parsed
  <2>1. stage = "source" BY <1>3, <1>7
  <2> QED BY <1>3, <1>4, <2>1 DEF WellFormed
<1> QED BY <1>6, <1>7

(* A failed step leaves nothing to be well-formed.                         *)
LEMMA GoneWellFormed == ASSUME WellFormed, Gone, opts' = opts PROVE WellFormed'
BY DEF WellFormed, Gone, OptsOK

(* The actions a pass is made of, by stage.                                *)
LEMMA StepWellFormed == ASSUME WellFormed, Next PROVE WellFormed'
<1>1. CASE ReadLine
  <2>1. stage = "source" BY <1>1 DEF ReadLine
  <2>2. Fresh /\ OptsOK BY <2>1 DEF WellFormed
  <2>3. CASE Stop
    <3>1. stage' = "error" /\ opts' = opts BY <2>3 DEF Stop, given
    <3> QED BY <2>2, <3>1 DEF WellFormed, OptsOK
  <2>4. CASE ~Stop
    <3>1. UNCHANGED <<lines, opts, prog, stage, at, pc, res, pending>> BY <1>1, <2>4 DEF ReadLine
    <3> QED BY <2>1, <2>2, <3>1 DEF WellFormed, OptsOK, Fresh
  <2> QED BY <2>3, <2>4
<1>2. CASE Read
  <2>1. stage = "source" /\ UNCHANGED <<at, pc, res, pending, image, relaid>> BY <1>2 DEF Read
  <2>2. Fresh /\ OptsOK BY <2>1 DEF WellFormed
  <2>3. CASE ~Complete(pp) \/ ~IsProgram(Parsed)
    <3>1. stage' = "error" /\ opts' = opts BY <1>2, <2>3 DEF Read, Stop, given
    <3> QED BY <2>2, <3>1 DEF WellFormed, OptsOK
  <2>4. CASE ~(~Complete(pp) \/ ~IsProgram(Parsed))
    <3>1. prog' = Parsed /\ opts' = opts /\ stage' = IF opts.layout = <<>> THEN "pass1" ELSE "flatten"
      BY <1>2, <2>4 DEF Read, given
    <3>2. IsProgram(prog') BY <2>4, <3>1
    <3>3. Fresh' /\ OptsOK' BY <2>1, <2>2, <3>1 DEF Fresh, OptsOK
    <3>4. CASE opts.layout = <<>>
      <4>1. Typed1(prog', EmptyResult, 1, 0, <<>>) BY <3>2, FreshIsTyped
      <4>2. Typed1(prog', res', at', pc', pending') BY <3>3, <4>1 DEF Fresh
      <4> QED BY <3>1, <3>3, <3>4, <4>2 DEF WellFormed
    <3>5. CASE opts.layout # <<>>
      <4>1. stage' = "flatten" /\ opts'.layout # <<>> BY <3>1, <3>5
      <4> QED BY <3>2, <3>3, <4>1 DEF WellFormed
    <3> QED BY <3>4, <3>5
  <2> QED BY <2>3, <2>4
<1>3. CASE LayOut
  <2>1. stage = "flatten" /\ UNCHANGED <<at, pc, res, pending, image, relaid>> BY <1>3 DEF LayOut
  <2>2. Fresh /\ OptsOK /\ IsProgram(prog) /\ opts.layout # <<>> BY <2>1 DEF WellFormed
  <2>3. PICK flat : flat = Flatten(prog, opts.layout, opts.origin) OBVIOUS
  <2>4. CASE ~flat.ok
    <3>1. stage' = "error" /\ opts' = opts BY <1>3, <2>3, <2>4 DEF LayOut, Stop, given
    <3> QED BY <2>2, <3>1 DEF WellFormed, OptsOK
  <2>5. CASE flat.ok
    <3>1. prog' = flat.out /\ opts' = opts /\ stage' = "pass1" BY <1>3, <2>3, <2>5 DEF LayOut, given
    <3>2. IsLayout(opts.layout) /\ opts.origin \in Nat BY <2>2 DEF OptsOK
    <3>3. IsProgram(Flatten(prog, opts.layout, opts.origin).out) BY <2>2, <3>2, FlattenTyped
    <3>4. IsProgram(prog') BY <2>3, <3>1, <3>3
    <3>5. Typed1(prog', EmptyResult, 1, 0, <<>>) BY <3>4, FreshIsTyped
    <3>6. Typed1(prog', res', at', pc', pending') BY <2>1, <2>2, <3>5 DEF Fresh
    <3> QED BY <2>2, <3>1, <3>6 DEF WellFormed, OptsOK
  <2> QED BY <2>4, <2>5
<1>4. CASE Walk1
  <2>1. stage = "pass1" BY <1>4 DEF Walk1, LabelDef1, LocalDef1, Inst1, LdrLiteral1, Set1, Ltorg1, Org1, Directive1, In
  <2>2. Typed1(prog, res, at, pc, pending) /\ OptsOK BY <2>1 DEF WellFormed
  <2>3. Gone \/ WalkedOn BY <1>4, <2>1, <2>2, Walk1Makes
  <2>4. CASE Gone
    <3>1. opts' = opts
      BY <1>4 DEF Walk1, LabelDef1, LocalDef1, Inst1, LdrLiteral1, Set1, Ltorg1, Org1, Directive1, Fail, Step1, given
    <3> QED BY <2>4, <3>1, GoneWellFormed
  <2>5. CASE WalkedOn
    <3>1. /\ at \in 1 .. Len(prog) /\ Made(Here, res, pc, pending, res', pc', pending')
          /\ at' = at + 1 /\ stage' = "pass1" /\ prog' = prog /\ opts' = opts
      BY <2>5 DEF WalkedOn, given
    <3>2. Made(prog[at], res, pc, pending, res', pc', pending') BY <3>1 DEF Here
    <3>3. Typed1(prog, res', at + 1, pc', pending') BY <2>2, <3>1, <3>2, MadeIsTyped
    <3>4. Typed1(prog', res', at', pc', pending') BY <3>1, <3>3
    <3> QED BY <2>2, <3>1, <3>4 DEF WellFormed, OptsOK
  <2> QED BY <2>3, <2>4, <2>5
<1>5. CASE Pass1Done
  <2>1. stage = "pass1" BY <1>5 DEF Pass1Done
  <2>2. Typed1(prog, res, at, pc, pending) /\ OptsOK BY <2>1 DEF WellFormed
  <2>3. ResOK(res) BY <2>2 DEF Typed1
  <2>4. /\ MadeEnd(res, pc, pending, res') /\ pending' = <<>> /\ stage' = "pass2" /\ at = Len(prog) + 1
        /\ at' = 1 /\ pc' = res'.origin /\ image' = <<>> /\ prog' = prog /\ opts' = opts
    BY <1>5, <2>3, Pass1Ends DEF given
  <2>5. ResOK(res') /\ res'.recordPC = res.recordPC /\ res'.origin \in Int BY <2>2, <2>4, EndIsTyped
  <2>6. IsProgram(prog) /\ Len(res.recordPC) = at - 1 /\ Len(prog) \in Nat
    <3>1. IsProgram(prog) /\ Len(res.recordPC) = at - 1 BY <2>2 DEF Typed1
    <3> QED BY <3>1, ProgramFacts
  <2>7. Contig(<<>>, res'.origin, pc') BY <2>4, <2>5, ContigNone
  <2>8. Len(res'.recordPC) = Len(prog) /\ 1 \in 1 .. Len(prog) + 2 /\ 1 \in 1 .. Len(prog) + 1 BY <2>4, <2>5, <2>6
  <2>9. \A s \in 1 .. Len(<<>>) : FALSE OBVIOUS
  <2>10. Typed2(prog', res', at', pc', pending', image')
    BY <2>4, <2>5, <2>6, <2>7, <2>8, <2>9 DEF Typed2
  <2> QED BY <2>2, <2>4, <2>8, <2>10 DEF WellFormed, OptsOK
<1>6. CASE Walk2
  <2>1. stage = "pass2"
    BY <1>6 DEF Walk2, Skip2, encodeInst, encodeLdrLitPoolInst, EmitData, EmitAlign, EmitSkip, EmitOrg, Ltorg2, In
  <2>2. Typed2(prog, res, at, pc, pending, image) /\ OptsOK /\ at \in 1 .. Len(prog) + 1 BY <2>1 DEF WellFormed
  <2>3. Gone \/ EmittedOn("pass2") BY <1>6, <2>1, <2>2, Walk2Emits
  <2>4. opts' = opts
    BY <1>6 DEF Walk2, Skip2, encodeInst, encodeLdrLitPoolInst, EmitData, EmitAlign, EmitSkip, EmitOrg, Ltorg2,
       Emit, emitFlush, Fail, given
  <2>5. CASE Gone BY <2>4, <2>5, GoneWellFormed
  <2>6. CASE EmittedOn("pass2")
    <3>1. /\ Emitted(prog, res, at, pc, image, pc', image') /\ at' = at + 1 /\ stage' = "pass2"
          /\ prog' = prog /\ res' = res /\ pending' = pending
      BY <2>6 DEF EmittedOn
    <3>2. Typed2(prog, res, at + 1, pc', pending, image') BY <2>2, <3>1, EmittedIsTyped
    <3>3. Typed2(prog', res', at', pc', pending', image') BY <3>1, <3>2
    <3>4. at' \in 1 .. Len(prog') + 1
      <4>1. at \in 1 .. Len(prog) /\ Len(prog) \in Nat
        <5>1. at <= Len(prog)
          BY <1>6 DEF Walk2, Skip2, encodeInst, encodeLdrLitPoolInst, EmitData, EmitAlign, EmitSkip, EmitOrg, Ltorg2, In
        <5>2. IsProgram(prog) BY <2>2 DEF Typed2
        <5>3. Len(prog) \in Nat BY <5>2, ProgramFacts
        <5> QED BY <2>2, <5>1, <5>3
      <4> QED BY <3>1, <4>1
    <3> QED BY <2>2, <2>4, <3>1, <3>3, <3>4 DEF WellFormed, OptsOK
  <2> QED BY <2>3, <2>5, <2>6
<1>7. CASE Pass2Done
  <2>1. stage = "pass2" /\ at = Len(prog) + 1 BY <1>7 DEF Pass2Done
  <2>2. Typed2(prog, res, at, pc, pending, image) /\ OptsOK /\ at \in 1 .. Len(prog) + 1 BY <2>1 DEF WellFormed
  <2>3. Gone \/ EmittedOn("errata") BY <1>7, <2>2, Pass2Ends
  <2>4. opts' = opts BY <1>7 DEF Pass2Done, emitFlush, Fail, given
  <2>5. CASE Gone BY <2>4, <2>5, GoneWellFormed
  <2>6. CASE EmittedOn("errata")
    <3>1. /\ Emitted(prog, res, at, pc, image, pc', image') /\ at' = at + 1 /\ stage' = "errata"
          /\ prog' = prog /\ res' = res /\ pending' = pending
      BY <2>6 DEF EmittedOn
    <3>2. Typed2(prog, res, at + 1, pc', pending, image') BY <2>2, <3>1, EmittedIsTyped
    <3>3. Typed2(prog', res', at', pc', pending', image') BY <3>1, <3>2
    <3>4. at' = Len(prog') + 2
      <4>1. IsProgram(prog) BY <2>2 DEF Typed2
      <4>2. Len(prog) \in Nat BY <4>1, ProgramFacts
      <4> QED BY <2>1, <3>1, <4>2
    <3> QED BY <2>2, <2>4, <3>1, <3>3, <3>4 DEF WellFormed, OptsOK
  <2> QED BY <2>3, <2>5, <2>6
<1>8. CASE fixErratum835769
  <2>1. /\ stage = "errata" /\ prog' = WithNops(prog, insertSet) /\ stage' = "pass1" /\ at' = 1 /\ pc' = 0
        /\ res' = EmptyResult /\ opts' = opts /\ pending' = pending
    BY <1>8 DEF fixErratum835769, given
  <2>2. Typed2(prog, res, at, pc, pending, image) /\ OptsOK BY <2>1 DEF WellFormed
  <2>3. IsProgram(prog) /\ pending = <<>> BY <2>2 DEF Typed2
  <2>4. IsProgram(prog') BY <2>1, <2>3, WithNopsIs
  <2>5. Typed1(prog', EmptyResult, 1, 0, <<>>) BY <2>4, FreshIsTyped
  <2>6. Typed1(prog', res', at', pc', pending') BY <2>1, <2>3, <2>5
  <2> QED BY <2>1, <2>2, <2>6 DEF WellFormed, OptsOK
<1>9. CASE fixErratum843419
  <2>1. stage = "errata" /\ stage' = "done" /\ opts' = opts BY <1>9 DEF fixErratum843419, given
  <2>2. OptsOK BY <2>1 DEF WellFormed
  <2> QED BY <2>1, <2>2 DEF WellFormed, OptsOK
<1> QED BY <1>1, <1>2, <1>3, <1>4, <1>5, <1>6, <1>7, <1>8, <1>9 DEF Next, Pass1, Pass2, Walk1, Walk2

(* Well-formedness is a matter of the variables alone.                     *)
LEMMA StutterWellFormed == ASSUME WellFormed, UNCHANGED vars PROVE WellFormed'
<1>1. UNCHANGED <<opts, stage, prog, at, pc, res, pending, image>> BY DEF vars, given
<1> QED BY <1>1 DEF WellFormed, OptsOK, Fresh

(* In every state of an assembly the records, the result of pass 1 and the *)
(* image are well-formed: the image lies without a gap from the origin to  *)
(* the address of pass 2, each chunk is one its record asks for, every     *)
(* slot of a pool is where its flush put it, and the two layouts of a pool *)
(* never differ.                                                           *)
THEOREM AssemblerWellFormed == Spec => []WellFormed
<1>1. WellFormed /\ [Next]_vars => WellFormed' BY StepWellFormed, StutterWellFormed
<1> QED BY <1>1, InitWellFormed, PTL DEF Spec

-----------------------------------------------------------------------------
(* The workaround for 843419 leaves no vulnerable ADRP.                    *)

Codes(im) == {c \in DOMAIN im : im[c].k = "code"}

(* The instruction words are a list of the chunks of code.                 *)
LEMMA CodeMapLists ==
  ASSUME Typed2(prog, res, at, pc, pending, image)
  PROVE  /\ Len(CodeMap) \in Nat /\ DOMAIN CodeMap = 1 .. Len(CodeMap)
         /\ DOMAIN image = 1 .. Len(image) /\ Len(image) \in Nat
         /\ \E pos : Lists(CodeMap, image, Codes(image), pos)
<1>1. image \in Seq(Range(image)) /\ Len(image) \in Nat BY DEF Typed2, Contig
<1>2. Codes(image) \subseteq DOMAIN image BY DEF Codes
<1>3. Kept(image, Codes(image)) \in Seq(Range(image)) /\ \E pos : Lists(Kept(image, Codes(image)), image, Codes(image), pos)
  BY <1>1, <1>2, KeptLists
<1>4. CodeMap = Kept(image, Codes(image)) BY DEF CodeMap, Codes
<1>5. CodeMap \in Seq(Range(image)) BY <1>3, <1>4
<1>6. Len(CodeMap) \in Nat /\ DOMAIN CodeMap = 1 .. Len(CodeMap) BY <1>5
<1>7. DOMAIN image = 1 .. Len(image) BY <1>1
<1> QED BY <1>1, <1>3, <1>4, <1>6, <1>7

(* What a chunk of the image says, by its opcode.                          *)
LEMMA CodeChunks ==
  ASSUME Typed2(prog, res, at, pc, pending, image), NEW c \in 1 .. Len(image)
  PROVE  /\ IsChunk(image[c]) /\ ChunkOK(prog, res, image[c])
         /\ image[c].pc \in Int /\ image[c].len \in Nat
         /\ image[c].k = "code" => image[c].len = 4
         /\ image[c].n \in {"adrp", "adr", "mem", "memu", "pair", "mac"} => image[c].k = "code"
<1>1. IsChunk(image[c]) /\ ChunkOK(prog, res, image[c]) BY DEF Typed2, Contig
<1>2. image[c].pc \in Int /\ image[c].len \in Nat BY <1>1 DEF IsChunk
<1>3. image[c].k = "code" => image[c].len = 4 BY <1>1 DEF ChunkOK
<1>4. image[c].k # "code" => image[c].n \in {"", "nop"} BY <1>1 DEF ChunkOK
<1>5. image[c].n \in {"adrp", "adr", "mem", "memu", "pair", "mac"} => image[c].n \notin {"", "nop"} OBVIOUS
<1> QED BY <1>1, <1>2, <1>3, <1>4, <1>5

(* The word the code map has at w is chunk c, the next one chunk c + 1.    *)
WordFollows(pos, w, c) ==
  /\ w + 1 \in 1 .. Len(CodeMap) /\ pos[w + 1] = c + 1
  /\ CodeMap[w] = image[c] /\ CodeMap[w + 1] = image[c + 1]
  /\ CodeMap[w + 1].pc = CodeMap[w].pc + 4

(* Two words right behind each other in the image are so in the code map.  *)
LEMMA NextWord ==
  ASSUME Typed2(prog, res, at, pc, pending, image),
         NEW pos, Lists(CodeMap, image, Codes(image), pos),
         NEW w \in 1 .. Len(CodeMap), NEW c, c = pos[w], c + 1 \in 1 .. Len(image), image[c + 1].k = "code"
  PROVE  WordFollows(pos, w, c)
<1>1. /\ Len(CodeMap) \in Nat /\ DOMAIN image = 1 .. Len(image) /\ Len(image) \in Nat BY CodeMapLists
<1>2. Codes(image) \in SUBSET Nat BY <1>1 DEF Codes
<1>3. pos[w] \in Codes(image) BY DEF Lists
<1>4. pos[w] \in Nat BY <1>2, <1>3
<1>5. PICK d : d = pos[w] + 1 OBVIOUS
<1>6. d \in Codes(image) BY <1>1, <1>5 DEF Codes
<1>7. pos[w] < d /\ \A e \in Codes(image) : ~(pos[w] < e /\ e < d) BY <1>2, <1>4, <1>5
<1>8. w + 1 \in 1 .. Len(CodeMap) /\ pos[w + 1] = d
  <2>1. PICK q, S : q = CodeMap /\ S = Codes(image) OBVIOUS
  <2>2. Len(q) \in Nat /\ S \in SUBSET Nat BY <1>1, <1>2, <2>1
  <2>3. Lists(q, image, S, pos) /\ w \in 1 .. Len(q) BY <2>1
  <2>4. d \in S /\ pos[w] < d BY <1>6, <1>7, <2>1
  <2>5. NoneBetween(S, pos[w], d) BY <1>7, <2>1 DEF NoneBetween
  <2>7. Lists(q, image, S, pos) BY <2>3
  <2>8. d \in S BY <2>4
  <2>6. GoesOn(q, pos, w, d) BY <2>2, <2>3, <2>5, <2>7, <2>8, ListsNext
  <2> QED BY <2>1, <2>6 DEF GoesOn
<1>9. CodeMap[w] = image[pos[w]] /\ CodeMap[w + 1] = image[d] BY <1>8 DEF Lists
<1>10. image[d].pc = image[pos[w]].pc + 4
  <2>1. pos[w] \in 1 .. Len(image) /\ image[pos[w]].k = "code" BY <1>1, <1>3 DEF Codes
  <2>2. image[pos[w]].len = 4 BY <2>1, CodeChunks
  <2>3. d \in 1 .. Len(image) /\ d # 1 /\ d - 1 = pos[w] BY <1>4, <1>5, <2>1
  <2>4. image[d].pc = image[d - 1].pc + image[d - 1].len BY <2>3 DEF Typed2, Contig
  <2> QED BY <2>2, <2>3, <2>4
<1> QED BY <1>5, <1>8, <1>9, <1>10 DEF WordFollows

(* The chunk a hit is about is the vulnerable word itself.                 *)
Hit == {CodeMap[i].pc : i \in {j \in DOMAIN CodeMap : Vulnerable(j)}}

(* Only an ADRP is rewritten.                                              *)
LEMMA HitIsWord ==
  ASSUME Typed2(prog, res, at, pc, pending, image),
         NEW c \in 1 .. Len(image), image[c].k = "code", image[c].pc \in Hit
  PROVE  image[c].n = "adrp"
<1>1. PICK w \in DOMAIN CodeMap : Vulnerable(w) /\ CodeMap[w].pc = image[c].pc BY DEF Hit
<1>2. PICK pos : Lists(CodeMap, image, Codes(image), pos) BY CodeMapLists
<1>3. w \in 1 .. Len(CodeMap) BY <1>1, CodeMapLists
<1>4. pos[w] \in Codes(image) /\ CodeMap[w] = image[pos[w]] BY <1>2, <1>3 DEF Lists
<1>5. pos[w] \in 1 .. Len(image) /\ image[pos[w]].k = "code" BY <1>4, CodeMapLists DEF Codes
<1>6. image[pos[w]].len = 4 /\ image[c].len = 4 BY <1>5, CodeChunks
<1>7. Contig(image, res.origin, pc) BY DEF Typed2
<1>8. pos[w] = c
  <2>1. image[pos[w]].pc = image[c].pc BY <1>1, <1>4
  <2>2. image[pos[w]].len # 0 /\ image[c].len # 0 BY <1>6
  <2> QED BY <1>5, <1>7, <2>1, <2>2, ContigOrder
<1>9. CodeMap[w].n = "adrp" BY <1>1 DEF Vulnerable, aarch64Erratum843419SequenceP, Word
<1> QED BY <1>4, <1>8, <1>9

(* An ADRP in a vulnerable place of the image is one the workaround finds. *)
LEMMA SequenceIsHit ==
  ASSUME Typed2(prog, res, at, pc, pending, image),
         NEW i \in 1 .. Len(image), NEW j \in 1 .. Len(image), NEW k \in 1 .. Len(image),
         image[i].n = "adrp", LastSlots(image[i].pc), image[j].n = "memu",
         image[j].pc - image[i].pc \in {8, 12},
         image[k].pc = image[i].pc + 4, image[k].n \in MemOp \ {"pair"},
         \A m \in i .. j : image[m].k = "code"
  PROVE  image[i].pc \in Hit
<1>1. Contig(image, res.origin, pc) /\ Len(image) \in Nat BY CodeMapLists DEF Typed2
<1>2. image[k].k = "code" /\ image[i].k = "code" /\ image[j].k = "code"
  <2>1. image[k].n \in {"mem", "memu"} BY DEF MemOp
  <2> QED BY <2>1, CodeChunks
<1>3. image[i].len = 4 /\ image[j].len = 4 /\ image[k].len = 4 BY <1>2, CodeChunks
<1>4. image[i].pc \in Int /\ image[j].pc \in Int BY CodeChunks
<1>5. i < k
  <2>1. image[i].pc < image[k].pc BY <1>4
  <2> QED BY <1>1, <2>1, ContigOrder
<1>6. k < j
  <2>1. image[k].pc < image[j].pc BY <1>4
  <2> QED BY <1>1, <2>1, ContigOrder
<1>7. PICK pos : Lists(CodeMap, image, Codes(image), pos) BY CodeMapLists
<1>8. i \in Codes(image) BY <1>2, CodeMapLists DEF Codes
<1>9. PICK w \in 1 .. Len(CodeMap) : pos[w] = i BY <1>7, <1>8 DEF Lists
<1>10. w \in Nat /\ w \in DOMAIN CodeMap BY <1>9, CodeMapLists
<1>11. i + 1 \in i .. j /\ i + 1 \in 1 .. Len(image) BY <1>1, <1>5, <1>6
<1>12. /\ w + 1 \in 1 .. Len(CodeMap) /\ pos[w + 1] = i + 1 /\ CodeMap[w] = image[i]
       /\ CodeMap[w + 1] = image[i + 1] /\ CodeMap[w + 1].pc = CodeMap[w].pc + 4
  <2>1. image[i + 1].k = "code" BY <1>11
  <2>2. WordFollows(pos, w, i) BY <1>7, <1>9, <1>11, <2>1, NextWord
  <2> QED BY <1>9, <2>2 DEF WordFollows
<1>13. k = i + 1
  <2>1. image[i + 1].pc = image[k].pc BY <1>12
  <2>2. image[i + 1].len = 4 BY <1>11, CodeChunks
  <2>3. image[i + 1].len # 0 /\ image[k].len # 0 BY <1>3, <2>2
  <2> QED BY <1>1, <1>11, <2>1, <2>3, ContigOrder
<1>14. i + 2 \in i .. j /\ i + 2 \in 1 .. Len(image) /\ (i + 1) + 1 = i + 2 BY <1>1, <1>6, <1>13
<1>15. /\ (w + 1) + 1 \in 1 .. Len(CodeMap) /\ pos[(w + 1) + 1] = i + 2
       /\ CodeMap[(w + 1) + 1] = image[i + 2] /\ CodeMap[(w + 1) + 1].pc = CodeMap[w + 1].pc + 4
  <2>1. image[i + 2].k = "code" BY <1>14
  <2>2. PICK v : v = w + 1 OBVIOUS
  <2>3. PICK c : c = pos[v] OBVIOUS
  <2>4. v \in 1 .. Len(CodeMap) /\ c + 1 = i + 2 BY <1>12, <1>14, <2>2, <2>3
  <2>5. c + 1 \in 1 .. Len(image) /\ image[c + 1].k = "code" BY <1>14, <2>1, <2>4
  <2>6. WordFollows(pos, v, c) BY <1>7, <2>3, <2>4, <2>5, NextWord
  <2> QED BY <2>2, <2>4, <2>6 DEF WordFollows
<1>16. /\ w + 2 \in 1 .. Len(CodeMap) /\ pos[w + 2] = i + 2
       /\ CodeMap[w + 2] = image[i + 2] /\ CodeMap[w + 2].pc = CodeMap[w].pc + 8
  <2>1. (w + 1) + 1 = w + 2 BY <1>10
  <2>2. PICK a, b, c : a = CodeMap[w].pc /\ b = CodeMap[w + 1].pc /\ c = CodeMap[w + 2].pc OBVIOUS
  <2>3. a \in Int /\ b = a + 4 BY <1>4, <1>12, <2>2
  <2>4. c = b + 4 BY <1>15, <2>1, <2>2
  <2>5. c = a + 8 BY <2>3, <2>4
  <2>6. CodeMap[w + 2].pc = CodeMap[w].pc + 8 BY <2>2, <2>5
  <2>7. w + 2 \in 1 .. Len(CodeMap) /\ pos[w + 2] = i + 2 /\ CodeMap[w + 2] = image[i + 2] BY <1>15, <2>1
  <2> QED BY <2>6, <2>7
<1>17. Word(w, "adrp") /\ Adjacent(w, w + 1) /\ CodeMap[w + 1].n \in MemOp \ {"pair"}
  <2>1. w + 1 \in DOMAIN CodeMap BY <1>12, CodeMapLists
  <2>2. Word(w, "adrp") BY <1>10, <1>12 DEF Word
  <2>3. CodeMap[w + 1].pc = CodeMap[w].pc + 4 * (w + 1 - w) BY <1>10, <1>12
  <2>4. Adjacent(w, w + 1) BY <1>10, <2>1, <2>3 DEF Adjacent
  <2> QED BY <1>12, <1>13, <2>2, <2>4
<1>18. Vulnerable(w)
  <2>1. LastSlots(CodeMap[w].pc) BY <1>12
  <2>2. CASE j = i + 2
    <3>1. w + 2 \in DOMAIN CodeMap BY <1>16, CodeMapLists
    <3>2. CodeMap[w + 2].pc = CodeMap[w].pc + 4 * (w + 2 - w) BY <1>10, <1>16
    <3>3. Adjacent(w, w + 2) BY <1>10, <3>1, <3>2 DEF Adjacent
    <3>4. Word(w + 2, "memu") BY <1>16, <2>2, <3>1 DEF Word
    <3>5. aarch64Erratum843419SequenceP(w, w + 1, w + 2) BY <1>17, <3>3, <3>4 DEF aarch64Erratum843419SequenceP
    <3> QED BY <2>1, <3>5 DEF Vulnerable
  <2>3. CASE j # i + 2
    <3>1. i + 3 \in i .. j /\ i + 3 \in 1 .. Len(image) /\ (i + 2) + 1 = i + 3 BY <1>1, <1>6, <1>13, <2>3
    <3>2. /\ (w + 2) + 1 \in 1 .. Len(CodeMap) /\ pos[(w + 2) + 1] = i + 3
          /\ CodeMap[(w + 2) + 1] = image[i + 3] /\ CodeMap[(w + 2) + 1].pc = CodeMap[w + 2].pc + 4
      <4>1. image[i + 3].k = "code" BY <3>1
      <4>2. PICK v : v = w + 2 OBVIOUS
      <4>3. PICK c : c = pos[v] OBVIOUS
      <4>4. v \in 1 .. Len(CodeMap) /\ c + 1 = i + 3 BY <1>16, <3>1, <4>2, <4>3
      <4>5. c + 1 \in 1 .. Len(image) /\ image[c + 1].k = "code" BY <3>1, <4>1, <4>4
      <4>6. WordFollows(pos, v, c) BY <1>7, <4>3, <4>4, <4>5, NextWord
      <4> QED BY <4>2, <4>4, <4>6 DEF WordFollows
    <3>3. (w + 2) + 1 = w + 3 BY <1>10
    <3>4. CodeMap[w].pc \in Int /\ CodeMap[w].pc = image[i].pc BY <1>4, <1>12
    <3>5. CodeMap[w + 3].pc = CodeMap[w].pc + 12 /\ CodeMap[w + 3] = image[i + 3]
      <4>1. PICK x, y, z : x = CodeMap[w].pc /\ y = CodeMap[w + 2].pc /\ z = CodeMap[w + 3].pc OBVIOUS
      <4>2. CodeMap[(w + 2) + 1] = CodeMap[w + 3] BY <3>3
      <4>3. z = y + 4 /\ CodeMap[w + 3] = image[i + 3] BY <3>2, <4>1, <4>2
      <4>4. y = x + 8 /\ x \in Int BY <1>16, <3>4, <4>1
      <4> QED BY <4>1, <4>3, <4>4
    <3>6. image[i + 3].pc = image[j].pc
      <4>1. image[i + 2].pc = image[i].pc + 8 BY <1>16, <3>4
      <4>2. i + 2 < j BY <3>1
      <4>3. image[i + 2].pc + image[i + 2].len <= image[j].pc BY <1>1, <1>14, <4>2, ContigOrder
      <4>4. image[i + 2].len = 4 BY <1>14, CodeChunks
      <4>5. PICK x, y, z : x = image[i].pc /\ y = image[i + 2].pc /\ z = image[j].pc OBVIOUS
      <4>6. x \in Int /\ z \in Int /\ z - x \in {8, 12} BY <1>4, <4>5
      <4>7. y = x + 8 /\ y + 4 <= z BY <4>1, <4>3, <4>4, <4>5
      <4>8. z = x + 12 BY <4>6, <4>7
      <4>9. image[i + 3].pc = x + 12 BY <3>4, <3>5, <4>5
      <4> QED BY <4>5, <4>8, <4>9
    <3>7. j = i + 3
      <4>1. image[i + 3].len = 4 BY <3>1, CodeChunks
      <4>2. image[i + 3].len # 0 /\ image[j].len # 0 BY <1>3, <4>1
      <4> QED BY <1>1, <3>1, <3>6, <4>2, ContigOrder
    <3>8. w + 3 \in DOMAIN CodeMap BY <3>2, <3>3, CodeMapLists
    <3>9. CodeMap[w + 3].pc = CodeMap[w].pc + 4 * (w + 3 - w)
      <4>1. 4 * (w + 3 - w) = 12 BY <1>10
      <4> QED BY <3>5, <4>1
    <3>10. Adjacent(w, w + 3) BY <1>10, <3>8, <3>9 DEF Adjacent
    <3>11. Word(w + 3, "memu") BY <3>5, <3>7, <3>8 DEF Word
    <3>12. aarch64Erratum843419SequenceP(w, w + 1, w + 3) BY <1>17, <3>10, <3>11 DEF aarch64Erratum843419SequenceP
    <3> QED BY <2>1, <3>12 DEF Vulnerable
  <2> QED BY <2>2, <2>3
<1> QED BY <1>10, <1>12, <1>18 DEF Hit

(* The workaround for 843419 leaves no vulnerable ADRP and changes no      *)
(* address.                                                                *)
LEMMA FixMakesSafe ==
  ASSUME Typed2(prog, res, at, pc, pending, image), fixErratum843419
  PROVE  NoVulnerableADRP'
<1>1. prog' = prog /\ res' = res /\ opts' = opts BY DEF fixErratum843419, given
<1>2. ASSUME "843419" \in opts.fixes PROVE NoVulnerableADRP'
  <2>1. image' = [c \in DOMAIN image |-> IF image[c].k = "code" /\ image[c].pc \in Hit
                      THEN [image[c] EXCEPT !.n = "adr"] ELSE image[c]]
    BY <1>2 DEF fixErratum843419, Hit
  <2>2. DOMAIN image' = 1 .. Len(image) /\ DOMAIN image = 1 .. Len(image) BY <2>1, CodeMapLists
  <2>3. ASSUME NEW c \in 1 .. Len(image)
        PROVE  /\ image'[c].pc = image[c].pc /\ image'[c].rec = image[c].rec
               /\ image'[c].val = image[c].val /\ image'[c].k = image[c].k
               /\ IF image[c].k = "code" /\ image[c].pc \in Hit THEN image'[c].n = "adr"
                  ELSE image'[c].n = image[c].n
    <3>1. IsChunk(image[c]) BY CodeChunks
    <3>2. image'[c] = IF image[c].k = "code" /\ image[c].pc \in Hit
                      THEN [image[c] EXCEPT !.n = "adr"] ELSE image[c]
      BY <2>1, <2>2
    <3>3. CASE image[c].k = "code" /\ image[c].pc \in Hit
      <4>1. image'[c] = [image[c] EXCEPT !.n = "adr"] BY <3>2, <3>3
      <4>2. PICK x : x = image[c] OBVIOUS
      <4>3. x = [k |-> x.k, n |-> x.n, pc |-> x.pc, len |-> x.len, rec |-> x.rec, val |-> x.val]
        BY <3>1, <4>2 DEF IsChunk
      <4>4. PICK y : y = [x EXCEPT !.n = "adr"] OBVIOUS
      <4>5. y.pc = x.pc /\ y.rec = x.rec /\ y.val = x.val /\ y.k = x.k /\ y.n = "adr" BY <4>3, <4>4
      <4> QED BY <3>3, <4>1, <4>2, <4>4, <4>5
    <3>4. CASE ~(image[c].k = "code" /\ image[c].pc \in Hit) BY <3>2, <3>4
    <3> QED BY <3>3, <3>4
  <2>4. ASSUME NEW i \in DOMAIN image', NEW j \in DOMAIN image',
               image'[i].n = "adrp", LastSlots(image'[i].pc), image'[j].n = "memu",
               image'[j].pc - image'[i].pc \in {8, 12},
               NEW k \in DOMAIN image', image'[k].pc = image'[i].pc + 4, image'[k].n \in MemOp \ {"pair"},
               \A m \in i .. j : image'[m].k = "code"
        PROVE  FALSE
    <3>1. i \in 1 .. Len(image) /\ j \in 1 .. Len(image) /\ k \in 1 .. Len(image) BY <2>2, <2>4
    <3>2. image'[k].n \in {"mem", "memu"} BY <2>4 DEF MemOp
    <3>3. /\ image[i].n = "adrp" /\ image[j].n = "memu" /\ image[k].n = image'[k].n
          /\ ~(image[i].k = "code" /\ image[i].pc \in Hit)
      BY <2>3, <2>4, <3>1, <3>2
    <3>4. \A m \in i .. j : image[m].k = "code"
      <4>1. \A m \in i .. j : m \in 1 .. Len(image) BY <3>1
      <4> QED BY <2>3, <2>4, <4>1
    <3>5. image[i].pc \in Hit
      <4>1. image'[i].pc = image[i].pc /\ image'[j].pc = image[j].pc /\ image'[k].pc = image[k].pc BY <2>3, <3>1
      <4>2. /\ LastSlots(image[i].pc) /\ image[j].pc - image[i].pc \in {8, 12}
            /\ image[k].pc = image[i].pc + 4 /\ image[k].n \in MemOp \ {"pair"}
        BY <2>4, <3>3, <4>1
      <4> QED BY <3>1, <3>3, <3>4, <4>2, SequenceIsHit
    <3>6. image[i].k = "code" BY <3>1, <3>3, CodeChunks
    <3> QED BY <3>3, <3>5, <3>6
  <2>5. ASSUME NEW i \in DOMAIN image', image'[i].n = "adr"
        PROVE  {image'[i].val} = Eval(prog'[image'[i].rec].e, image'[i].pc, res'.symbols, res'.localDefs)
    <3>1. i \in 1 .. Len(image) BY <2>2, <2>5
    <3>2. ChunkOK(prog, res, image[i]) BY <3>1, CodeChunks
    <3>3. image[i].n \in {"adr", "adrp"}
      <4>1. CASE image[i].k = "code" /\ image[i].pc \in Hit BY <3>1, <4>1, HitIsWord
      <4>2. CASE ~(image[i].k = "code" /\ image[i].pc \in Hit) BY <2>3, <2>5, <3>1, <4>2
      <4> QED BY <4>1, <4>2
    <3>4. image[i].k = "code" BY <3>1, <3>3, CodeChunks
    <3>5. prog[image[i].rec].n = image[i].n /\ image[i].rec \in 1 .. Len(prog) BY <3>2, <3>4 DEF ChunkOK
    <3>6. IsRecord(prog[image[i].rec])
      <4>1. IsProgram(prog) BY DEF Typed2
      <4> QED BY <3>5, <4>1, ProgramFacts
    <3>7. prog[image[i].rec].k # "ldr" BY <3>3, <3>5, <3>6 DEF IsRecord
    <3>8. Means(res, prog[image[i].rec].e, image[i].pc) = {image[i].val} BY <3>2, <3>4, <3>7 DEF ChunkOK
    <3> QED BY <1>1, <2>3, <3>1, <3>8 DEF Means
  <2>6. \A i, j \in DOMAIN image' :
          (image'[i].n = "adrp" /\ LastSlots(image'[i].pc) /\ image'[j].n = "memu"
             /\ image'[j].pc - image'[i].pc \in {8, 12})
           => ~\E k \in DOMAIN image' :
                 /\ image'[k].pc = image'[i].pc + 4 /\ image'[k].n \in MemOp \ {"pair"}
                 /\ \A m \in i..j : image'[m].k = "code"
    BY <2>4
  <2> QED BY <2>5, <2>6 DEF NoVulnerableADRP, makeCtx
<1>3. CASE "843419" \notin opts.fixes BY <1>1, <1>3 DEF NoVulnerableADRP
<1> QED BY <1>2, <1>3

(* Only the last step of the errata ends an assembly.                      *)
LEMMA OnlyFixIsDone == ASSUME WellFormed, Next, stage' = "done" PROVE stage = "errata" /\ fixErratum843419
<1>1. CASE fixErratum843419 BY <1>1 DEF fixErratum843419
<1>2. CASE ~fixErratum843419
  <2>1. stage \in {"source", "flatten", "pass1", "pass2", "errata", "done", "error"} BY DEF WellFormed
  <2>2. CASE ReadLine BY <2>2 DEF ReadLine, Stop
  <2>3. CASE Read BY <2>3 DEF Read, Stop
  <2>4. CASE LayOut BY <2>4 DEF LayOut, Stop
  <2>5. CASE Pass1
    BY <2>5 DEF Pass1, Pass1Done, LabelDef1, LocalDef1, Inst1, LdrLiteral1, Set1, Ltorg1, Org1, Directive1, Fail, Step1, In
  <2>6. CASE Pass2
    BY <2>6 DEF Pass2, Pass2Done, Skip2, encodeInst, encodeLdrLitPoolInst, EmitData, EmitAlign, EmitSkip, EmitOrg,
       Ltorg2, Emit, emitFlush, Fail, In
  <2>7. CASE fixErratum835769 BY <2>7 DEF fixErratum835769
  <2> QED BY <1>2, <2>2, <2>3, <2>4, <2>5, <2>6, <2>7 DEF Next
<1> QED BY <1>1, <1>2

(* With the workaround for 843419 no vulnerable ADRP is left in the image, *)
(* and what was rewritten still means its address (errata.go,              *)
(* fixErratum843419).                                                      *)
THEOREM AssemblerADRPsSafe == Spec => []NoVulnerableADRP
<1>1. Init => NoVulnerableADRP BY DEF Init, NoVulnerableADRP, Done
<1>2. ASSUME WellFormed, NoVulnerableADRP, [Next]_vars PROVE NoVulnerableADRP'
  <2>1. CASE Next
    <3>1. CASE stage' = "done"
      <4>1. stage = "errata" /\ fixErratum843419 BY <1>2, <2>1, <3>1, OnlyFixIsDone
      <4>2. Typed2(prog, res, at, pc, pending, image) BY <1>2, <4>1 DEF WellFormed
      <4> QED BY <4>1, <4>2, FixMakesSafe
    <3>2. CASE stage' # "done" BY <3>2 DEF NoVulnerableADRP, Done
    <3> QED BY <3>1, <3>2
  <2>2. CASE UNCHANGED vars
    <3>1. stage' = stage /\ opts' = opts /\ image' = image /\ prog' = prog /\ res' = res BY <2>2 DEF vars, given
    <3> QED BY <1>2, <3>1 DEF NoVulnerableADRP, Done, makeCtx
  <2> QED BY <1>2, <2>1, <2>2
<1> QED BY <1>1, <1>2, AssemblerWellFormed, PTL DEF Spec

-----------------------------------------------------------------------------
(* The addresses of pass 1.  The end of the source counts as one .ltorg    *)
(* more, so that there is a record for every step of either pass.          *)

EndRecord == Record("ltorg", "", 0, Expr("int", 0))
RecAt(p, i) == IF i \in 1 .. Len(p) THEN p[i] ELSE EndRecord

(* The record at a place, or the end of the source, is a record.           *)
LEMMA RecAtIs ==
  ASSUME NEW p, IsProgram(p), NEW i
  PROVE  /\ IsRecord(RecAt(p, i)) /\ IsExpr(RecAt(p, i).e) /\ RecAt(p, i).k = K(p, i)
         /\ i \in 1 .. Len(p) => RecAt(p, i) = p[i]
<1>1. IsRecord(EndRecord) /\ EndRecord.k = "ltorg" BY DEF EndRecord, Record, Expr, IsRecord, IsExpr
<1>2. \A j \in 1 .. Len(p) : IsRecord(p[j]) BY ProgramFacts
<1>3. IsRecord(RecAt(p, i)) BY <1>1, <1>2 DEF RecAt
<1>4. RecAt(p, i).k = K(p, i) BY <1>1 DEF RecAt, K
<1> QED BY <1>3, <1>4 DEF RecAt, IsRecord

(* Does a literal wait for the flush at a record?                          *)
HasPending(p, i) ==
  \E d \in 1 .. i - 1 : RecAt(p, d).k = "ldr" /\ \A h \in d + 1 .. i - 1 : RecAt(p, h).k # "ltorg"

(* No literal waits at the first record.                                   *)
LEMMA PendingStarts == ASSUME NEW p PROVE ~HasPending(p, 1)
BY DEF HasPending

(* A literal waits from its load to the next .ltorg.                       *)
LEMMA PendingGoes ==
  ASSUME NEW p, NEW a \in Nat, a # 0
  PROVE  /\ RecAt(p, a).k = "ldr" => HasPending(p, a + 1)
         /\ RecAt(p, a).k = "ltorg" => ~HasPending(p, a + 1)
         /\ RecAt(p, a).k \notin {"ldr", "ltorg"} => (HasPending(p, a + 1) <=> HasPending(p, a))
<1>1. PICK b : b = a + 1 OBVIOUS
<1>2. b \in Nat /\ b - 1 = a /\ a \in 1 .. b - 1 /\ \A d \in 1 .. b - 1 : d = a \/ d \in 1 .. a - 1 BY <1>1
<1>3. ASSUME RecAt(p, a).k = "ldr" PROVE HasPending(p, b)
  <2>1. \A h \in a + 1 .. b - 1 : FALSE BY <1>1
  <2> QED BY <1>2, <1>3, <2>1 DEF HasPending
<1>4. ASSUME RecAt(p, a).k = "ltorg", HasPending(p, b) PROVE FALSE
  <2>1. PICK d \in 1 .. b - 1 : RecAt(p, d).k = "ldr" /\ \A h \in d + 1 .. b - 1 : RecAt(p, h).k # "ltorg"
    BY <1>4 DEF HasPending
  <2>2. d # a BY <1>4, <2>1
  <2>3. a \in d + 1 .. b - 1 BY <1>2, <2>2
  <2> QED BY <1>4, <2>1, <2>3
<1>5. ASSUME RecAt(p, a).k \notin {"ldr", "ltorg"}, HasPending(p, b) PROVE HasPending(p, a)
  <2>1. PICK d \in 1 .. b - 1 : RecAt(p, d).k = "ldr" /\ \A h \in d + 1 .. b - 1 : RecAt(p, h).k # "ltorg"
    BY <1>5 DEF HasPending
  <2>2. d \in 1 .. a - 1 BY <1>2, <1>5, <2>1
  <2>3. \A h \in d + 1 .. a - 1 : h \in d + 1 .. b - 1 BY <1>2, <2>2
  <2> QED BY <2>1, <2>2, <2>3 DEF HasPending
<1>6. ASSUME RecAt(p, a).k \notin {"ldr", "ltorg"}, HasPending(p, a) PROVE HasPending(p, b)
  <2>1. PICK d \in 1 .. a - 1 : RecAt(p, d).k = "ldr" /\ \A h \in d + 1 .. a - 1 : RecAt(p, h).k # "ltorg"
    BY <1>6 DEF HasPending
  <2>2. d \in 1 .. b - 1 BY <1>2, <2>1
  <2>3. \A h \in d + 1 .. b - 1 : h = a \/ h \in d + 1 .. a - 1 BY <1>2, <2>2
  <2>4. \A h \in d + 1 .. b - 1 : RecAt(p, h).k # "ltorg" BY <1>6, <2>1, <2>3
  <2> QED BY <2>1, <2>2, <2>4 DEF HasPending
<1> QED BY <1>1, <1>3, <1>4, <1>5, <1>6

(* Padding by a negative count: pass 1 goes back, pass 2 cannot.           *)
BackAt(x, sy) ==
  x.k = "skip" /\ x.e.op \in {"int", "sym"} /\ \E n \in Eval(x.e, 0, sy, <<>>) : n < 0
Back(p, sy, i) == BackAt(RecAt(p, i), sy)

(* A number or a symbol means the same everywhere.                         *)
LEMMA SameFrom ==
  ASSUME NEW e, e.op \in {"int", "sym"}, NEW from, NEW other, NEW sy, NEW defs, NEW more
  PROVE  Eval(e, from, sy, defs) = Eval(e, other, sy, more)
<1>1. CASE e.op = "int" BY <1>1, EvalCases
<1>2. CASE e.op = "sym" BY <1>2, EvalCases
<1> QED BY <1>1, <1>2

(* Padding by a negative count stays so as symbols become known.           *)
LEMMA BackStays ==
  ASSUME NEW p, IsProgram(p), NEW sy, NEW more, Extends(more, sy), NEW i, Back(p, sy, i)
  PROVE  Back(p, more, i)
<1>1. PICK x : x = RecAt(p, i) OBVIOUS
<1>2. x.k = "skip" /\ x.e.op \in {"int", "sym"} /\ IsExpr(x.e) BY <1>1, RecAtIs DEF Back, BackAt
<1>3. PICK n \in Eval(x.e, 0, sy, <<>>) : n < 0 BY <1>1 DEF Back, BackAt
<1>4. n \in Eval(x.e, 0, more, <<>>)
  <2>1. IsExpr(x.e) BY <1>2
  <2> QED BY <1>3, <2>1, EvalGrows
<1> QED BY <1>1, <1>2, <1>3, <1>4 DEF Back, BackAt

(* How a record moves the address.                                         *)
Moved(x, waits, r, from, to) ==
  /\ x.k \in {"label", "local", "set", "section"} => to = from
  /\ x.k \in {"inst", "ldr"} => to = from + 4
  /\ x.k = "ldr" => /\ from \in DOMAIN r.ldrPool
                    /\ r.pool[r.ldrPool[from]].w = x.w /\ r.pool[r.ldrPool[from]].e = x.e
  /\ x.k = "data" => to = from + x.w
  /\ x.k = "balign" => to = from + Pad(from, x.w)
  /\ x.k = "skip" => \E n \in Eval(x.e, from, r.symbols, <<>>) : to = from + n
  /\ x.k = "org" => to \in Eval(x.e, from, r.symbols, <<>>)
  /\ x.k = "ltorg" => IF waits THEN from \in DOMAIN r.flushes /\ to = r.flushes[from].after /\ from < to
                      ELSE to = from

(* Results that have only been added to.                                   *)
PoolKept(r, r2) ==
  /\ Len(r.pool) <= Len(r2.pool)
  /\ \A i \in 1 .. Len(r.pool) : r2.pool[i].w = r.pool[i].w /\ r2.pool[i].e = r.pool[i].e
Grown(r, r2) ==
  /\ Extends(r2.symbols, r.symbols) /\ Extends(r2.ldrPool, r.ldrPool) /\ Extends(r2.flushes, r.flushes)
  /\ PoolKept(r, r2)

(* A record moves the address by as much once more is known.               *)
LEMMA MovedStays ==
  ASSUME NEW x, IsExpr(x.e), NEW waits, NEW r, ResOK(r), NEW r2, Grown(r, r2), NEW from, NEW to,
         Moved(x, waits, r, from, to)
  PROVE  Moved(x, waits, r2, from, to)
<1>1. Extends(r2.symbols, r.symbols) /\ Extends(r2.ldrPool, r.ldrPool) /\ Extends(r2.flushes, r.flushes)
      /\ PoolKept(r, r2)
  BY DEF Grown
<1>2. \A n \in Eval(x.e, from, r.symbols, <<>>) : n \in Eval(x.e, from, r2.symbols, <<>>)
  <2>1. Extends(r2.symbols, r.symbols) BY <1>1
  <2> SUFFICES ASSUME NEW n \in Eval(x.e, from, r.symbols, <<>>) PROVE n \in Eval(x.e, from, r2.symbols, <<>>)
    OBVIOUS
  <2> QED BY <2>1, EvalGrows
<1>3. x.k = "ldr" => /\ from \in DOMAIN r2.ldrPool
                     /\ r2.pool[r2.ldrPool[from]].w = x.w /\ r2.pool[r2.ldrPool[from]].e = x.e
  <2> SUFFICES ASSUME x.k = "ldr"
               PROVE  /\ from \in DOMAIN r2.ldrPool
                      /\ r2.pool[r2.ldrPool[from]].w = x.w /\ r2.pool[r2.ldrPool[from]].e = x.e
    OBVIOUS
  <2>1. from \in DOMAIN r.ldrPool /\ r.pool[r.ldrPool[from]].w = x.w /\ r.pool[r.ldrPool[from]].e = x.e
    BY DEF Moved
  <2>2. r.ldrPool[from] \in 1 .. Len(r.pool) BY <2>1 DEF ResOK
  <2>3. from \in DOMAIN r2.ldrPool /\ r2.ldrPool[from] = r.ldrPool[from] BY <1>1, <2>1 DEF Extends
  <2> QED BY <1>1, <2>1, <2>2, <2>3 DEF PoolKept
<1>4. x.k = "ltorg" => IF waits THEN from \in DOMAIN r2.flushes /\ to = r2.flushes[from].after /\ from < to
                       ELSE to = from
  BY <1>1 DEF Moved, Extends
<1>5. x.k = "skip" => \E n \in Eval(x.e, from, r2.symbols, <<>>) : to = from + n BY <1>2 DEF Moved
<1>6. x.k = "org" => to \in Eval(x.e, from, r2.symbols, <<>>) BY <1>2 DEF Moved
<1> QED BY <1>3, <1>4, <1>5, <1>6 DEF Moved

-----------------------------------------------------------------------------
(* What a step of pass 1 does, field by field.                             *)

SymbolsGo(x, r, c, r2) ==
  /\ x.k = "label" => r2.symbols = With(r.symbols, x.n, c)
  /\ x.k = "set" => x.n \notin DOMAIN r.symbols /\ \E v \in Int : r2.symbols = With(r.symbols, x.n, v)
  /\ x.k \notin {"label", "set"} => r2.symbols = r.symbols
LocalsGo(x, r, c, r2) == r2.localDefs = IF x.k = "local" THEN Append(r.localDefs, c) ELSE r.localDefs
ShareGoes(x, r, c, ids, r2, ids2) ==
  \E i \in Range(ids) :
    /\ r.pool[i].w = x.w /\ r.pool[i].e = x.e /\ r2.ldrPool = With(r.ldrPool, c, i)
    /\ r2.pool = r.pool /\ ids2 = ids
EntryGoes(x, r, c, ids, r2, ids2) ==
  /\ r2.ldrPool = With(r.ldrPool, c, Len(r.pool) + 1) /\ r2.pool = Append(r.pool, Entry(x, c))
  /\ ids2 = Append(ids, Len(r.pool) + 1)
LoadGoes(x, r, c, ids, r2, c2, ids2) ==
  x.k = "ldr" => /\ c2 = c + 4 /\ r2.flushes = r.flushes
                 /\ ShareGoes(x, r, c, ids, r2, ids2) \/ EntryGoes(x, r, c, ids, r2, ids2)
FlushGoes(x, r, c, ids, r2, c2, ids2) ==
  x.k = "ltorg" =>
    /\ ids2 = <<>> /\ r2.ldrPool = r.ldrPool
    /\ ids = <<>> => c2 = c /\ r2.pool = r.pool /\ r2.flushes = r.flushes
    /\ ids # <<>> => /\ c2 = PoolEnd(r.pool, ids, c) /\ r2.pool = SetPCs(r.pool, ids, c)
                     /\ r2.flushes = With(r.flushes, c, FlushEntry(r.pool, ids, c))
PoolStays(x, r, ids, r2, ids2) ==
  x.k \notin {"ldr", "ltorg"} =>
    r2.pool = r.pool /\ r2.ldrPool = r.ldrPool /\ r2.flushes = r.flushes /\ ids2 = ids
AddressGoes(x, r, c, c2) ==
  /\ x.k \in {"label", "local", "set", "section"} => c2 = c
  /\ x.k \in {"inst", "ldr"} => c2 = c + 4
  /\ x.k = "data" => c2 = c + x.w
  /\ x.k = "balign" => c2 = c + Pad(c, x.w)
  /\ x.k = "skip" => \E n \in Eval(x.e, c, r.symbols, <<>>) : c2 = c + n
  /\ x.k = "org" => c2 \in Eval(x.e, c, r.symbols, <<>>) /\ ~(c2 < c)
OriginGoes(x, r, c, r2, c2) ==
  r2.origin = IF x.k = "org" /\ c = r.origin /\ r.pool = <<>> /\ c = 0 /\ c2 # 0 THEN c2 ELSE r.origin

Goes(x, r, c, ids, r2, c2, ids2) ==
  /\ SymbolsGo(x, r, c, r2) /\ LocalsGo(x, r, c, r2) /\ LoadGoes(x, r, c, ids, r2, c2, ids2)
  /\ FlushGoes(x, r, c, ids, r2, c2, ids2) /\ PoolStays(x, r, ids, r2, ids2)
  /\ AddressGoes(x, r, c, c2) /\ OriginGoes(x, r, c, r2, c2)

(* A step that leaves the pool and the symbols alone.                      *)
LEMMA QuietGoes ==
  ASSUME NEW x, x.k \notin {"label", "set", "ldr", "local", "ltorg"}, NEW r, NEW c, NEW ids, NEW rp, NEW or,
         NEW to, NEW r2, NEW c2, NEW ids2, ids2 = ids,
         r2 = Result(r.symbols, r.localDefs, r.pool, r.ldrPool, r.flushes, rp, or, to),
         AddressGoes(x, r, c, c2),
         or = IF x.k = "org" /\ c = r.origin /\ r.pool = <<>> /\ c = 0 /\ c2 # 0 THEN c2 ELSE r.origin
  PROVE  Goes(x, r, c, ids, r2, c2, ids2)
<1>1. /\ r2.symbols = r.symbols /\ r2.localDefs = r.localDefs /\ r2.pool = r.pool /\ r2.ldrPool = r.ldrPool
      /\ r2.flushes = r.flushes /\ r2.origin = or
  BY ResultFields
<1>2. SymbolsGo(x, r, c, r2) /\ LocalsGo(x, r, c, r2) BY <1>1 DEF SymbolsGo, LocalsGo
<1>3. LoadGoes(x, r, c, ids, r2, c2, ids2) /\ FlushGoes(x, r, c, ids, r2, c2, ids2)
  BY DEF LoadGoes, FlushGoes
<1>4. PoolStays(x, r, ids, r2, ids2) /\ OriginGoes(x, r, c, r2, c2) BY <1>1 DEF PoolStays, OriginGoes
<1> QED BY <1>2, <1>3, <1>4 DEF Goes

(* A step of pass 1 at a record, and the end of pass 1, do that.           *)
LEMMA MadeGoes ==
  ASSUME NEW x, IsRecord(x), NEW r, ResOK(r), NEW c \in Int, NEW ids, NEW r2, NEW c2, NEW ids2,
         Made(x, r, c, ids, r2, c2, ids2)
  PROVE  Goes(x, r, c, ids, r2, c2, ids2)
<1>1. PICK rp : rp = Append(r.recordPC, c) OBVIOUS
<1>2. CASE MadeLabel(x, r, c, ids, r2, c2, ids2)
  <2>1. PICK sy : sy = With(r.symbols, x.n, c) OBVIOUS
  <2>2. /\ x.k = "label" /\ c2 = c /\ ids2 = ids
        /\ r2 = Result(sy, r.localDefs, r.pool, r.ldrPool, r.flushes, rp, r.origin, r.total)
    BY <1>1, <1>2, <2>1 DEF MadeLabel
  <2>3. /\ r2.symbols = sy /\ r2.localDefs = r.localDefs /\ r2.pool = r.pool /\ r2.ldrPool = r.ldrPool
        /\ r2.flushes = r.flushes /\ r2.origin = r.origin
    BY <2>2, ResultFields
  <2>4. SymbolsGo(x, r, c, r2) /\ LocalsGo(x, r, c, r2) BY <2>1, <2>2, <2>3 DEF SymbolsGo, LocalsGo
  <2>5. LoadGoes(x, r, c, ids, r2, c2, ids2) /\ FlushGoes(x, r, c, ids, r2, c2, ids2) /\ AddressGoes(x, r, c, c2)
    BY <2>2 DEF LoadGoes, FlushGoes, AddressGoes
  <2>6. PoolStays(x, r, ids, r2, ids2) /\ OriginGoes(x, r, c, r2, c2) BY <2>2, <2>3 DEF PoolStays, OriginGoes
  <2> QED BY <2>4, <2>5, <2>6 DEF Goes
<1>3. CASE MadeLocal(x, r, c, ids, r2, c2, ids2)
  <2>1. PICK ld : ld = Append(r.localDefs, c) OBVIOUS
  <2>2. /\ x.k = "local" /\ c2 = c /\ ids2 = ids
        /\ r2 = Result(r.symbols, ld, r.pool, r.ldrPool, r.flushes, rp, r.origin, r.total)
    BY <1>1, <1>3, <2>1 DEF MadeLocal
  <2>3. /\ r2.symbols = r.symbols /\ r2.localDefs = ld /\ r2.pool = r.pool /\ r2.ldrPool = r.ldrPool
        /\ r2.flushes = r.flushes /\ r2.origin = r.origin
    BY <2>2, ResultFields
  <2>4. SymbolsGo(x, r, c, r2) /\ LocalsGo(x, r, c, r2) BY <2>1, <2>2, <2>3 DEF SymbolsGo, LocalsGo
  <2>5. LoadGoes(x, r, c, ids, r2, c2, ids2) /\ FlushGoes(x, r, c, ids, r2, c2, ids2) /\ AddressGoes(x, r, c, c2)
    BY <2>2 DEF LoadGoes, FlushGoes, AddressGoes
  <2>6. PoolStays(x, r, ids, r2, ids2) /\ OriginGoes(x, r, c, r2, c2) BY <2>2, <2>3 DEF PoolStays, OriginGoes
  <2> QED BY <2>4, <2>5, <2>6 DEF Goes
<1>4. CASE MadeSet(x, r, c, ids, r2, c2, ids2)
  <2>1. PICK v \in Eval(x.e, 0, r.symbols, <<>>) :
          /\ x.k = "set" /\ c2 = c /\ ids2 = ids /\ x.n \notin DOMAIN r.symbols
          /\ r2 = Result(With(r.symbols, x.n, v), r.localDefs, r.pool, r.ldrPool, r.flushes,
                         Append(r.recordPC, c), r.origin, r.total)
    BY <1>4 DEF MadeSet
  <2>2. PICK sy : sy = With(r.symbols, x.n, v) OBVIOUS
  <2>3. v \in Int
    <3>1. SymbolsOK(r.symbols) BY ResFacts
    <3>2. IsExpr(x.e) BY DEF IsRecord
    <3>3. <<>> \in Seq(Int) /\ 0 \in Int OBVIOUS
    <3>4. v \in Eval(x.e, 0, r.symbols, <<>>) BY <2>1
    <3> QED BY <3>1, <3>2, <3>3, <3>4, EvalSingle
  <2>4. r2 = Result(sy, r.localDefs, r.pool, r.ldrPool, r.flushes, rp, r.origin, r.total) BY <1>1, <2>1, <2>2
  <2>5. /\ r2.symbols = sy /\ r2.localDefs = r.localDefs /\ r2.pool = r.pool /\ r2.ldrPool = r.ldrPool
        /\ r2.flushes = r.flushes /\ r2.origin = r.origin
    BY <2>4, ResultFields
  <2>6. SymbolsGo(x, r, c, r2) /\ LocalsGo(x, r, c, r2) BY <2>1, <2>2, <2>3, <2>5 DEF SymbolsGo, LocalsGo
  <2>7. LoadGoes(x, r, c, ids, r2, c2, ids2) /\ FlushGoes(x, r, c, ids, r2, c2, ids2) /\ AddressGoes(x, r, c, c2)
    BY <2>1 DEF LoadGoes, FlushGoes, AddressGoes
  <2>8. PoolStays(x, r, ids, r2, ids2) /\ OriginGoes(x, r, c, r2, c2) BY <2>1, <2>5 DEF PoolStays, OriginGoes
  <2> QED BY <2>6, <2>7, <2>8 DEF Goes
<1>5. CASE MadeCode(x, r, c, ids, r2, c2, ids2)
  <2>1. /\ x.k = "inst" /\ c2 = c + 4 /\ ids2 = ids
        /\ r2 = Result(r.symbols, r.localDefs, r.pool, r.ldrPool, r.flushes, rp, r.origin, r.total)
    BY <1>1, <1>5 DEF MadeCode
  <2>2. AddressGoes(x, r, c, c2) BY <2>1 DEF AddressGoes
  <2> QED BY <2>1, <2>2, QuietGoes
<1>6. CASE MadeShared(x, r, c, ids, r2, c2, ids2)
  <2>1. PICK i \in Range(ids) :
          /\ x.k = "ldr" /\ c2 = c + 4 /\ ids2 = ids /\ r.pool[i].w = x.w /\ r.pool[i].e = x.e
          /\ r2 = Result(r.symbols, r.localDefs, r.pool, With(r.ldrPool, c, i), r.flushes,
                         Append(r.recordPC, c), r.origin, r.total)
    BY <1>6 DEF MadeShared
  <2>2. PICK lp : lp = With(r.ldrPool, c, i) OBVIOUS
  <2>3. r2 = Result(r.symbols, r.localDefs, r.pool, lp, r.flushes, rp, r.origin, r.total) BY <1>1, <2>1, <2>2
  <2>4. /\ r2.symbols = r.symbols /\ r2.localDefs = r.localDefs /\ r2.pool = r.pool /\ r2.ldrPool = lp
        /\ r2.flushes = r.flushes /\ r2.origin = r.origin
    BY <2>3, ResultFields
  <2>5. SymbolsGo(x, r, c, r2) /\ LocalsGo(x, r, c, r2) BY <2>1, <2>4 DEF SymbolsGo, LocalsGo
  <2>6. ShareGoes(x, r, c, ids, r2, ids2) BY <2>1, <2>2, <2>4 DEF ShareGoes
  <2>7. LoadGoes(x, r, c, ids, r2, c2, ids2) BY <2>1, <2>4, <2>6 DEF LoadGoes
  <2>8. FlushGoes(x, r, c, ids, r2, c2, ids2) /\ AddressGoes(x, r, c, c2) BY <2>1 DEF FlushGoes, AddressGoes
  <2>9. PoolStays(x, r, ids, r2, ids2) /\ OriginGoes(x, r, c, r2, c2) BY <2>1, <2>4 DEF PoolStays, OriginGoes
  <2> QED BY <2>5, <2>7, <2>8, <2>9 DEF Goes
<1>7. CASE MadeEntry(x, r, c, ids, r2, c2, ids2)
  <2>1. PICK po, lp : po = Append(r.pool, Entry(x, c)) /\ lp = With(r.ldrPool, c, Len(r.pool) + 1) OBVIOUS
  <2>2. /\ x.k = "ldr" /\ c2 = c + 4 /\ ids2 = Append(ids, Len(r.pool) + 1)
        /\ r2 = Result(r.symbols, r.localDefs, po, lp, r.flushes, rp, r.origin, r.total)
    BY <1>1, <1>7, <2>1 DEF MadeEntry
  <2>3. /\ r2.symbols = r.symbols /\ r2.localDefs = r.localDefs /\ r2.pool = po /\ r2.ldrPool = lp
        /\ r2.flushes = r.flushes /\ r2.origin = r.origin
    BY <2>2, ResultFields
  <2>4. SymbolsGo(x, r, c, r2) /\ LocalsGo(x, r, c, r2) BY <2>2, <2>3 DEF SymbolsGo, LocalsGo
  <2>5. EntryGoes(x, r, c, ids, r2, ids2) BY <2>1, <2>2, <2>3 DEF EntryGoes
  <2>6. LoadGoes(x, r, c, ids, r2, c2, ids2) BY <2>2, <2>3, <2>5 DEF LoadGoes
  <2>7. FlushGoes(x, r, c, ids, r2, c2, ids2) /\ AddressGoes(x, r, c, c2) BY <2>2 DEF FlushGoes, AddressGoes
  <2>8. PoolStays(x, r, ids, r2, ids2) /\ OriginGoes(x, r, c, r2, c2) BY <2>2, <2>3 DEF PoolStays, OriginGoes
  <2> QED BY <2>4, <2>6, <2>7, <2>8 DEF Goes
<1>8. CASE MadeFlush(x, r, c, ids, r2, c2, ids2)
  <2>1. PICK po, fl : po = SetPCs(r.pool, ids, c) /\ fl = With(r.flushes, c, FlushEntry(r.pool, ids, c)) OBVIOUS
  <2>2. /\ x.k = "ltorg" /\ ids # <<>> /\ c2 = PoolEnd(r.pool, ids, c) /\ ids2 = <<>>
        /\ r2 = Result(r.symbols, r.localDefs, po, r.ldrPool, fl, rp, r.origin, r.total)
    BY <1>1, <1>8, <2>1 DEF MadeFlush
  <2>3. /\ r2.symbols = r.symbols /\ r2.localDefs = r.localDefs /\ r2.pool = po /\ r2.ldrPool = r.ldrPool
        /\ r2.flushes = fl /\ r2.origin = r.origin
    BY <2>2, ResultFields
  <2>4. SymbolsGo(x, r, c, r2) /\ LocalsGo(x, r, c, r2) BY <2>2, <2>3 DEF SymbolsGo, LocalsGo
  <2>5. FlushGoes(x, r, c, ids, r2, c2, ids2) BY <2>1, <2>2, <2>3 DEF FlushGoes
  <2>6. LoadGoes(x, r, c, ids, r2, c2, ids2) /\ AddressGoes(x, r, c, c2) BY <2>2 DEF LoadGoes, AddressGoes
  <2>7. PoolStays(x, r, ids, r2, ids2) /\ OriginGoes(x, r, c, r2, c2) BY <2>2, <2>3 DEF PoolStays, OriginGoes
  <2> QED BY <2>4, <2>5, <2>6, <2>7 DEF Goes
<1>9. CASE MadeNothing(x, r, c, ids, r2, c2, ids2)
  <2>1. /\ x.k = "ltorg" /\ ids = <<>> /\ c2 = c /\ ids2 = <<>>
        /\ r2 = Result(r.symbols, r.localDefs, r.pool, r.ldrPool, r.flushes, rp, r.origin, r.total)
    BY <1>1, <1>9 DEF MadeNothing
  <2>2. /\ r2.symbols = r.symbols /\ r2.localDefs = r.localDefs /\ r2.pool = r.pool /\ r2.ldrPool = r.ldrPool
        /\ r2.flushes = r.flushes /\ r2.origin = r.origin
    BY <2>1, ResultFields
  <2>3. SymbolsGo(x, r, c, r2) /\ LocalsGo(x, r, c, r2) BY <2>1, <2>2 DEF SymbolsGo, LocalsGo
  <2>4. FlushGoes(x, r, c, ids, r2, c2, ids2) BY <2>1, <2>2 DEF FlushGoes
  <2>5. LoadGoes(x, r, c, ids, r2, c2, ids2) /\ AddressGoes(x, r, c, c2) BY <2>1 DEF LoadGoes, AddressGoes
  <2>6. PoolStays(x, r, ids, r2, ids2) /\ OriginGoes(x, r, c, r2, c2) BY <2>1, <2>2 DEF PoolStays, OriginGoes
  <2> QED BY <2>3, <2>4, <2>5, <2>6 DEF Goes
<1>10. CASE MadeOrg(x, r, c, ids, r2, c2, ids2)
  <2>1. PICK or \in {c2, r.origin} :
          /\ x.k = "org" /\ ids2 = ids
          /\ c2 \in Eval(x.e, c, r.symbols, <<>>) /\ ~(c2 < c)
          /\ or = IF c = r.origin /\ r.pool = <<>> /\ c = 0 /\ c2 # 0 THEN c2 ELSE r.origin
          /\ r2 = Result(r.symbols, r.localDefs, r.pool, r.ldrPool, r.flushes, rp, or, r.total)
    BY <1>1, <1>10 DEF MadeOrg
  <2>2. AddressGoes(x, r, c, c2) BY <2>1 DEF AddressGoes
  <2>3. or = IF x.k = "org" /\ c = r.origin /\ r.pool = <<>> /\ c = 0 /\ c2 # 0 THEN c2 ELSE r.origin BY <2>1
  <2> QED BY <2>1, <2>2, <2>3, QuietGoes
<1>11. CASE MadeSize(x, r, c, ids, r2, c2, ids2)
  <2>1. PICK n : SizeIs(x, c, r.symbols, n) /\ c2 = c + n BY <1>11 DEF MadeSize
  <2>2. /\ ids2 = ids
        /\ r2 = Result(r.symbols, r.localDefs, r.pool, r.ldrPool, r.flushes, rp, r.origin, r.total)
    BY <1>1, <1>11 DEF MadeSize
  <2>3. x.k \in {"data", "balign", "skip", "section"} /\ AddressGoes(x, r, c, c2)
    BY <2>1 DEF SizeIs, AddressGoes
  <2> QED BY <2>2, <2>3, QuietGoes
<1> QED BY <1>2, <1>3, <1>4, <1>5, <1>6, <1>7, <1>8, <1>9, <1>10, <1>11 DEF Made

(* The end of the source goes on like a .ltorg that is noted nowhere.      *)
LEMMA EndGoes ==
  ASSUME NEW r, NEW c, NEW ids, NEW r2, MadeEnd(r, c, ids, r2)
  PROVE  Goes(EndRecord, r, c, ids, r2, r2.total, <<>>) /\ r2.recordPC = r.recordPC
<1>1. PICK x : x = EndRecord OBVIOUS
<1>2. x.k = "ltorg" BY <1>1 DEF EndRecord, Record
<1>3. CASE ids = <<>>
  <2>1. r2 = Result(r.symbols, r.localDefs, r.pool, r.ldrPool, r.flushes, r.recordPC, r.origin, c)
    BY <1>3 DEF MadeEnd
  <2>2. /\ r2.symbols = r.symbols /\ r2.localDefs = r.localDefs /\ r2.pool = r.pool /\ r2.ldrPool = r.ldrPool
        /\ r2.flushes = r.flushes /\ r2.origin = r.origin /\ r2.total = c /\ r2.recordPC = r.recordPC
    BY <2>1, ResultFields
  <2>3. SymbolsGo(x, r, c, r2) /\ LocalsGo(x, r, c, r2) BY <1>2, <2>2 DEF SymbolsGo, LocalsGo
  <2>4. FlushGoes(x, r, c, ids, r2, r2.total, <<>>) BY <1>3, <2>2 DEF FlushGoes
  <2>5. LoadGoes(x, r, c, ids, r2, r2.total, <<>>) /\ AddressGoes(x, r, c, r2.total)
    BY <1>2 DEF LoadGoes, AddressGoes
  <2>6. PoolStays(x, r, ids, r2, <<>>) /\ OriginGoes(x, r, c, r2, r2.total) BY <1>2, <2>2 DEF PoolStays, OriginGoes
  <2> QED BY <1>1, <2>2, <2>3, <2>4, <2>5, <2>6 DEF Goes
<1>4. CASE ids # <<>>
  <2>1. PICK po, fl, to : /\ po = SetPCs(r.pool, ids, c) /\ fl = With(r.flushes, c, FlushEntry(r.pool, ids, c))
                          /\ to = PoolEnd(r.pool, ids, c)
    OBVIOUS
  <2>2. r2 = Result(r.symbols, r.localDefs, po, r.ldrPool, fl, r.recordPC, r.origin, to)
    BY <1>4, <2>1 DEF MadeEnd
  <2>3. /\ r2.symbols = r.symbols /\ r2.localDefs = r.localDefs /\ r2.pool = po /\ r2.ldrPool = r.ldrPool
        /\ r2.flushes = fl /\ r2.origin = r.origin /\ r2.total = to /\ r2.recordPC = r.recordPC
    BY <2>2, ResultFields
  <2>4. SymbolsGo(x, r, c, r2) /\ LocalsGo(x, r, c, r2) BY <1>2, <2>3 DEF SymbolsGo, LocalsGo
  <2>5. FlushGoes(x, r, c, ids, r2, r2.total, <<>>) BY <1>4, <2>1, <2>3 DEF FlushGoes
  <2>6. LoadGoes(x, r, c, ids, r2, r2.total, <<>>) /\ AddressGoes(x, r, c, r2.total)
    BY <1>2 DEF LoadGoes, AddressGoes
  <2>7. PoolStays(x, r, ids, r2, <<>>) /\ OriginGoes(x, r, c, r2, r2.total) BY <1>2, <2>3 DEF PoolStays, OriginGoes
  <2> QED BY <1>1, <2>3, <2>4, <2>5, <2>6, <2>7 DEF Goes
<1> QED BY <1>3, <1>4

-----------------------------------------------------------------------------
(* Pass 1 only adds: to the symbols, if no name is given twice, and to what *)
(* it notes by address, if it stands at no address twice.                   *)

Named(p, sy, m) ==
  \A n \in DOMAIN sy : \E i \in 1 .. m - 1 : RecAt(p, i).k \in {"label", "set"} /\ RecAt(p, i).n = n

(* A function extends itself.                                              *)
LEMMA ExtendsSame == ASSUME NEW f PROVE Extends(f, f)
BY DEF Extends

(* A function with a new key extends the one without.                      *)
LEMMA ExtendsWith == ASSUME NEW f, NEW k, k \notin DOMAIN f, NEW v PROVE Extends(With(f, k, v), f)
<1>1. PICK g : g = With(f, k, v) OBVIOUS
<1>2. WithAt(f, k, v, g) BY <1>1, WithIs
<1>3. Extends(g, f) BY <1>2 DEF WithAt, Extends
<1> QED BY <1>1, <1>3

(* Where names are given once, symbols are only ever added.                *)
LEMMA SymbolsGrow ==
  ASSUME NEW p, IsProgram(p), NamesOnce(p), NEW a \in 1 .. Len(p) + 1, NEW r, Named(p, r.symbols, a),
         NEW c, NEW r2, SymbolsGo(RecAt(p, a), r, c, r2)
  PROVE  Extends(r2.symbols, r.symbols) /\ Named(p, r2.symbols, a + 1)
<1>1. PICK x : x = RecAt(p, a) OBVIOUS
<1>2. Len(p) \in Nat /\ DOMAIN p = 1 .. Len(p) BY ProgramFacts
<1>3. a \in Nat /\ a \in 1 .. (a + 1) - 1 /\ \A i \in 1 .. a - 1 : i \in 1 .. (a + 1) - 1 BY <1>2
<1>4. CASE x.k \notin {"label", "set"}
  <2>1. r2.symbols = r.symbols BY <1>1, <1>4 DEF SymbolsGo
  <2>2. Named(p, r.symbols, a + 1) BY <1>3 DEF Named
  <2> QED BY <2>1, <2>2, ExtendsSame
<1>5. CASE x.k \in {"label", "set"}
  <2>1. PICK v : r2.symbols = With(r.symbols, x.n, v) BY <1>1, <1>5 DEF SymbolsGo
  <2>2. WithAt(r.symbols, x.n, v, r2.symbols) BY <2>1, WithIs
  <2>3. x.n \notin DOMAIN r.symbols
    <3>1. CASE x.k = "set" BY <1>1, <3>1 DEF SymbolsGo
    <3>2. CASE x.k = "label"
      <4>1. SUFFICES ASSUME x.n \in DOMAIN r.symbols PROVE FALSE OBVIOUS
      <4>2. PICK i \in 1 .. a - 1 : RecAt(p, i).k \in {"label", "set"} /\ RecAt(p, i).n = x.n
        BY <4>1 DEF Named
      <4>3. i \in 1 .. Len(p) BY <1>2, <4>2
      <4>4. RecAt(p, i) = p[i] BY <4>3 DEF RecAt
      <4>5. a \in 1 .. Len(p)
        <5>1. CASE a \notin 1 .. Len(p)
          <6>1. x = EndRecord BY <1>1, <5>1 DEF RecAt
          <6> QED BY <3>2, <6>1 DEF EndRecord, Record
        <5> QED BY <5>1
      <4>6. x = p[a] BY <1>1, <4>5 DEF RecAt
      <4>7. i < a BY <4>2, <1>2
      <4>8. i \in DOMAIN p /\ a \in DOMAIN p /\ p[i].k \in {"label", "set"} /\ p[a].k = "label"
        BY <1>2, <3>2, <4>2, <4>3, <4>4, <4>5, <4>6
      <4>9. p[i].n # p[a].n BY <4>7, <4>8 DEF NamesOnce
      <4> QED BY <4>2, <4>4, <4>6, <4>9
    <3> QED BY <1>5, <3>1, <3>2
  <2>4. Extends(r2.symbols, r.symbols) BY <2>1, <2>3, ExtendsWith
  <2>5. Named(p, r2.symbols, a + 1)
    <3>1. DOMAIN r2.symbols = DOMAIN r.symbols \cup {x.n} BY <2>2 DEF WithAt
    <3> QED BY <1>1, <1>3, <1>5, <3>1 DEF Named
  <2> QED BY <2>4, <2>5
<1> QED BY <1>4, <1>5

(* What the pool is after a step.                                          *)
LEMMA PoolGoes ==
  ASSUME NEW x, IsRecord(x), NEW r, ResOK(r), NEW c \in Int, NEW ids \in Seq(1 .. Len(r.pool)),
         NEW r2, NEW c2, NEW ids2, Goes(x, r, c, ids, r2, c2, ids2)
  PROVE  /\ PoolKept(r, r2) /\ SameWidths(r.pool, r2.pool)
         /\ \A i \in 1 .. Len(r.pool) : i \notin Range(ids) => r2.pool[i].pc = r.pool[i].pc
<1>1. IsPool(r.pool) /\ Len(r.pool) \in Nat BY ResFacts
<1>2. CASE x.k \notin {"ldr", "ltorg"}
  <2>1. r2.pool = r.pool BY <1>2 DEF Goes, PoolStays
  <2> QED BY <1>1, <2>1 DEF PoolKept, SameWidths
<1>3. CASE x.k = "ldr"
  <2>1. ShareGoes(x, r, c, ids, r2, ids2) \/ EntryGoes(x, r, c, ids, r2, ids2) BY <1>3 DEF Goes, LoadGoes
  <2>2. CASE ShareGoes(x, r, c, ids, r2, ids2)
    <3>1. r2.pool = r.pool BY <2>2 DEF ShareGoes
    <3> QED BY <1>1, <3>1 DEF PoolKept, SameWidths
  <2>3. CASE EntryGoes(x, r, c, ids, r2, ids2)
    <3>1. PICK y : y = Entry(x, c) OBVIOUS
    <3>2. IsEntry(y) BY <1>3, <3>1, EntryIs
    <3>3. r2.pool = Append(r.pool, y) BY <2>3, <3>1 DEF EntryGoes
    <3>4. PoolAppended(r.pool, y, r2.pool) BY <1>1, <3>2, <3>3, PoolAppend
    <3> QED BY <3>4 DEF PoolAppended, PoolKept, SameWidths
  <2> QED BY <2>1, <2>2, <2>3
<1>4. CASE x.k = "ltorg" /\ ids = <<>>
  <2>1. r2.pool = r.pool BY <1>4 DEF Goes, FlushGoes
  <2> QED BY <1>1, <2>1 DEF PoolKept, SameWidths
<1>5. CASE x.k = "ltorg" /\ ids # <<>>
  <2>1. r2.pool = SetPCs(r.pool, ids, c) BY <1>5 DEF Goes, FlushGoes
  <2>2. /\ Len(r2.pool) = Len(r.pool) /\ SameWidths(r.pool, r2.pool)
        /\ \A i \in 1 .. Len(r.pool) : r2.pool[i].e = r.pool[i].e
        /\ \A i \in 1 .. Len(r.pool) : i \notin Range(ids) => r2.pool[i] = r.pool[i]
    BY <1>1, <2>1, PCsSet
  <2> QED BY <1>1, <2>2 DEF PoolKept, SameWidths
<1> QED BY <1>2, <1>3, <1>4, <1>5

(* What a record makes of the result only adds to it.                      *)
LEMMA GoesGrown ==
  ASSUME NEW x, IsRecord(x), NEW r, ResOK(r), NEW c \in Int, NEW ids \in Seq(1 .. Len(r.pool)),
         NEW r2, NEW c2, NEW ids2, Goes(x, r, c, ids, r2, c2, ids2),
         Extends(r2.symbols, r.symbols), c \notin DOMAIN r.ldrPool, c \notin DOMAIN r.flushes
  PROVE  Grown(r, r2)
<1>1. PoolKept(r, r2) BY PoolGoes
<1>2. Extends(r2.ldrPool, r.ldrPool)
  <2>1. CASE x.k # "ldr"
    <3>1. r2.ldrPool = r.ldrPool BY <2>1 DEF Goes, PoolStays, FlushGoes
    <3> QED BY <3>1, ExtendsSame
  <2>2. CASE x.k = "ldr"
    <3>1. ShareGoes(x, r, c, ids, r2, ids2) \/ EntryGoes(x, r, c, ids, r2, ids2) BY <2>2 DEF Goes, LoadGoes
    <3>2. \E i : r2.ldrPool = With(r.ldrPool, c, i) BY <3>1 DEF ShareGoes, EntryGoes
    <3> QED BY <3>2, ExtendsWith
  <2> QED BY <2>1, <2>2
<1>3. Extends(r2.flushes, r.flushes)
  <2>1. CASE x.k = "ltorg" /\ ids # <<>>
    <3>1. r2.flushes = With(r.flushes, c, FlushEntry(r.pool, ids, c)) BY <2>1 DEF Goes, FlushGoes
    <3> QED BY <3>1, ExtendsWith
  <2>2. CASE ~(x.k = "ltorg" /\ ids # <<>>)
    <3>1. r2.flushes = r.flushes BY <2>2 DEF Goes, PoolStays, FlushGoes, LoadGoes
    <3> QED BY <3>1, ExtendsSame
  <2> QED BY <2>1, <2>2
<1> QED BY <1>1, <1>2, <1>3 DEF Grown

(* The address goes up, but for padding by a negative count.               *)
LEMMA GoesUp ==
  ASSUME NEW x, IsRecord(x), NEW r, ResOK(r), NEW c \in Nat, NEW ids \in Seq(1 .. Len(r.pool)),
         NEW r2, NEW c2, NEW ids2, Goes(x, r, c, ids, r2, c2, ids2), Extends(r2.symbols, r.symbols)
  PROVE  (c2 \in Nat /\ c <= c2) \/ BackAt(x, r2.symbols)
<1>1. AddressGoes(x, r, c, c2) /\ FlushGoes(x, r, c, ids, r2, c2, ids2) BY DEF Goes
<1>2. SymbolsOK(r.symbols) /\ IsExpr(x.e) /\ x.w \in Nat /\ <<>> \in Seq(Int) /\ c \in Int
  BY ResFacts DEF IsRecord
<1>3. CASE x.k \in {"label", "local", "set", "section", "inst", "ldr", "data"}
  BY <1>1, <1>2, <1>3 DEF AddressGoes
<1>4. CASE x.k = "balign"
  <2>1. x.w # 0 BY <1>4 DEF IsRecord
  <2>2. Pad(c, x.w) \in 0 .. x.w - 1 BY <1>2, <2>1, PadIs
  <2>3. c2 = c + Pad(c, x.w) BY <1>1, <1>4 DEF AddressGoes
  <2> QED BY <1>2, <2>2, <2>3
<1>5. CASE x.k = "skip"
  <2>1. PICK n \in Eval(x.e, c, r.symbols, <<>>) : c2 = c + n BY <1>1, <1>5 DEF AddressGoes
  <2>2. IsExpr(x.e) /\ SymbolsOK(r.symbols) BY <1>2
  <2>3. n \in Int
    <3>1. IsExpr(x.e) BY <1>2
    <3>2. SymbolsOK(r.symbols) BY <1>2
    <3>3. <<>> \in Seq(Int) BY <1>2
    <3>4. c \in Int BY <1>2
    <3> QED BY <2>1, <3>1, <3>2, <3>3, <3>4, EvalSingle
  <2>4. CASE n >= 0 BY <2>1, <2>3, <2>4
  <2>5. CASE n < 0
    <3>1. x.e.op # "local" /\ n \in Eval(x.e, c, r2.symbols, <<>>)
      <4>1. IsExpr(x.e) BY <1>2
      <4> QED BY <2>1, <4>1, EvalGrows
    <3>2. x.e.op # "dot"
      <4>1. x.e.op = "dot" => Eval(x.e, c, r2.symbols, <<>>) = {c} BY EvalCases
      <4> QED BY <2>5, <3>1, <4>1
    <3>3. x.e.op \in {"int", "sym"} BY <1>2, <3>1, <3>2 DEF IsExpr
    <3>4. Eval(x.e, c, r2.symbols, <<>>) = Eval(x.e, 0, r2.symbols, <<>>) BY <3>3, SameFrom
    <3> QED BY <1>5, <2>5, <3>1, <3>3, <3>4 DEF BackAt
  <2> QED BY <2>3, <2>4, <2>5
<1>6. CASE x.k = "org"
  <2>1. c2 \in Eval(x.e, c, r.symbols, <<>>) /\ ~(c2 < c) BY <1>1, <1>6 DEF AddressGoes
  <2>2. c2 \in Int
    <3>1. IsExpr(x.e) BY <1>2
    <3>2. SymbolsOK(r.symbols) BY <1>2
    <3>3. <<>> \in Seq(Int) BY <1>2
    <3>4. c \in Int /\ c2 \in Eval(x.e, c, r.symbols, <<>>) BY <1>2, <2>1
    <3> QED BY <3>1, <3>2, <3>3, <3>4, EvalSingle
  <2> QED BY <2>1, <2>2
<1>7. CASE x.k = "ltorg" /\ ids = <<>> BY <1>1, <1>7 DEF FlushGoes
<1>8. CASE x.k = "ltorg" /\ ids # <<>>
  <2>1. c2 = PoolEnd(r.pool, ids, c) BY <1>1, <1>8 DEF FlushGoes
  <2>2. IsPool(r.pool) BY ResFacts
  <2>3. PoolEnd(r.pool, ids, c) \in Int /\ c <= PoolEnd(r.pool, ids, c) BY <1>2, <2>2, PoolGrows
  <2> QED BY <2>1, <2>3
<1> QED BY <1>3, <1>4, <1>5, <1>6, <1>7, <1>8 DEF IsRecord

(* And so does it, by what is noted: the record has moved.                 *)
LEMMA GoesMoved ==
  ASSUME NEW x, IsRecord(x), NEW r, ResOK(r), NEW c \in Int, NEW ids \in Seq(1 .. Len(r.pool)),
         NEW r2, NEW c2, NEW ids2, Goes(x, r, c, ids, r2, c2, ids2), Extends(r2.symbols, r.symbols),
         NEW waits, waits <=> ids # <<>>
  PROVE  Moved(x, waits, r2, c, c2)
<1>1. AddressGoes(x, r, c, c2) /\ FlushGoes(x, r, c, ids, r2, c2, ids2) /\ LoadGoes(x, r, c, ids, r2, c2, ids2)
  BY DEF Goes
<1>2. IsExpr(x.e) BY DEF IsRecord
<1>3. \A n \in Eval(x.e, c, r.symbols, <<>>) : n \in Eval(x.e, c, r2.symbols, <<>>)
  <2> SUFFICES ASSUME NEW n \in Eval(x.e, c, r.symbols, <<>>) PROVE n \in Eval(x.e, c, r2.symbols, <<>>)
    OBVIOUS
  <2> QED BY <1>2, EvalGrows
<1>4. IsPool(r.pool) /\ Len(r.pool) \in Nat BY ResFacts
<1>5. ASSUME x.k = "ldr"
      PROVE  /\ c \in DOMAIN r2.ldrPool
             /\ r2.pool[r2.ldrPool[c]].w = x.w /\ r2.pool[r2.ldrPool[c]].e = x.e
  <2>1. ShareGoes(x, r, c, ids, r2, ids2) \/ EntryGoes(x, r, c, ids, r2, ids2) BY <1>1, <1>5 DEF LoadGoes
  <2>2. CASE ShareGoes(x, r, c, ids, r2, ids2)
    <3>1. PICK i : /\ r.pool[i].w = x.w /\ r.pool[i].e = x.e
                   /\ r2.ldrPool = With(r.ldrPool, c, i) /\ r2.pool = r.pool
      BY <2>2 DEF ShareGoes
    <3>2. WithAt(r.ldrPool, c, i, r2.ldrPool) BY <3>1, WithIs
    <3> QED BY <3>1, <3>2 DEF WithAt
  <2>3. CASE EntryGoes(x, r, c, ids, r2, ids2)
    <3>1. PICK y : y = Entry(x, c) OBVIOUS
    <3>2. IsEntry(y) /\ y.w = x.w /\ y.e = x.e BY <1>5, <3>1, EntryIs
    <3>3. r2.pool = Append(r.pool, y) /\ r2.ldrPool = With(r.ldrPool, c, Len(r.pool) + 1)
      BY <2>3, <3>1 DEF EntryGoes
    <3>4. PoolAppended(r.pool, y, r2.pool) BY <1>4, <3>2, <3>3, PoolAppend
    <3>5. WithAt(r.ldrPool, c, Len(r.pool) + 1, r2.ldrPool) BY <3>3, WithIs
    <3> QED BY <3>2, <3>4, <3>5 DEF WithAt, PoolAppended
  <2> QED BY <2>1, <2>2, <2>3
<1>6. ASSUME x.k = "ltorg", waits PROVE c \in DOMAIN r2.flushes /\ c2 = r2.flushes[c].after /\ c < c2
  <2>1. c2 = PoolEnd(r.pool, ids, c) /\ r2.flushes = With(r.flushes, c, FlushEntry(r.pool, ids, c))
    BY <1>1, <1>6 DEF FlushGoes
  <2>2. WithAt(r.flushes, c, FlushEntry(r.pool, ids, c), r2.flushes) BY <2>1, WithIs
  <2>3. FlushEntry(r.pool, ids, c).after = PoolEnd(r.pool, ids, c) BY DEF FlushEntry
  <2>4. c < PoolEnd(r.pool, ids, c) BY <1>4, <1>6, PoolGrows
  <2> QED BY <2>1, <2>2, <2>3, <2>4 DEF WithAt
<1>7. ASSUME x.k = "ltorg", ~waits PROVE c2 = c BY <1>1, <1>7 DEF FlushGoes
<1>8. x.k = "ltorg" => IF waits THEN c \in DOMAIN r2.flushes /\ c2 = r2.flushes[c].after /\ c < c2 ELSE c2 = c
  BY <1>6, <1>7
<1>9. x.k = "skip" => \E n \in Eval(x.e, c, r2.symbols, <<>>) : c2 = c + n BY <1>1, <1>3 DEF AddressGoes
<1>10. x.k = "org" => c2 \in Eval(x.e, c, r2.symbols, <<>>) BY <1>1, <1>3 DEF AddressGoes
<1>11. /\ x.k \in {"label", "local", "set", "section"} => c2 = c
       /\ x.k \in {"inst", "ldr"} => c2 = c + 4
       /\ x.k = "data" => c2 = c + x.w
       /\ x.k = "balign" => c2 = c + Pad(c, x.w)
  BY <1>1 DEF AddressGoes
<1> QED BY <1>5, <1>8, <1>9, <1>10, <1>11 DEF Moved

-----------------------------------------------------------------------------
(* What pass 1 has made of the source: the addresses of the first m records *)
(* and how everything it notes follows from them.                          *)

Addresses(A, m) == A \in [1 .. m -> Nat] /\ A[1] = 0 /\ \A i, j \in 1 .. m : i <= j => A[i] <= A[j]
Steps(p, r, A, m) == \A i \in 1 .. m - 1 : Moved(RecAt(p, i), HasPending(p, i), r, A[i], A[i + 1])
AsNoted(r, A, m) == \A i \in 1 .. m : i \in 1 .. Len(r.recordPC) => A[i] = r.recordPC[i]
FlushSites(p, r, A, m) ==
  \A f \in DOMAIN r.flushes : \E h \in 1 .. m - 1 : RecAt(p, h).k = "ltorg" /\ HasPending(p, h) /\ A[h] = f
LoadSites(p, r, A, m) == \A f \in DOMAIN r.ldrPool : \E h \in 1 .. m - 1 : RecAt(p, h).k = "ldr" /\ A[h] = f
Waiting(p, m, ids) == ids = <<>> <=> ~HasPending(p, m)
InSlot(r, f, i) == i \in Range(r.flushes[f].ids) /\ r.pool[i].pc = SlotPC(r.pool, r.flushes[f].ids, f, i)
Slotting(r, ids) ==
  /\ \A i \in 1 .. Len(r.pool) : i \in Range(ids) \/ \E f \in DOMAIN r.flushes : InSlot(r, f, i)
  /\ \A f \in DOMAIN r.flushes : Range(r.flushes[f].ids) \cap Range(ids) = {}
Locals(p, m) == {i \in 1 .. m - 1 : RecAt(p, i).k = "local"}
LocalsListed(p, r, A, m) == \E pos : Lists(r.localDefs, A, Locals(p, m), pos)
Originates(p, r, A, m) ==
  r.origin # 0 => \E o \in 1 .. m - 1 : RecAt(p, o).k = "org" /\ A[o] = 0 /\ A[o + 1] = r.origin

Laid(p, r, A, m, ids) ==
  /\ Addresses(A, m) /\ Steps(p, r, A, m) /\ AsNoted(r, A, m)
  /\ FlushSites(p, r, A, m) /\ LoadSites(p, r, A, m) /\ Waiting(p, m, ids) /\ Slotting(r, ids)
  /\ LocalsListed(p, r, A, m) /\ Originates(p, r, A, m)

(* One more address.                                                       *)
Further(A, a, c2) == [i \in 1 .. a + 1 |-> IF i = a + 1 THEN c2 ELSE A[i]]
GoneFurther(A, a, c2, B) ==
  /\ a \in Nat /\ a # 0 /\ A \in [1 .. a -> Nat] /\ B \in [1 .. a + 1 -> Nat]
  /\ B[a + 1] = c2 /\ \A i \in 1 .. a : B[i] = A[i]

(* The addresses with one more at the end.                                 *)
LEMMA FurtherIs ==
  ASSUME NEW a \in Nat, a # 0, NEW A \in [1 .. a -> Nat], NEW c2 \in Nat
  PROVE  GoneFurther(A, a, c2, Further(A, a, c2))
<1>1. PICK b, B : b = a + 1 /\ B = Further(A, a, c2) OBVIOUS
<1>2. b \in Nat /\ b \in 1 .. b /\ \A i \in 1 .. b : i = b \/ i \in 1 .. a BY <1>1
<1>3. \A i \in 1 .. a : i \in 1 .. b /\ i # b BY <1>1
<1>4. B = [i \in 1 .. b |-> IF i = b THEN c2 ELSE A[i]] BY <1>1 DEF Further
<1>5. B[b] = c2 /\ \A i \in 1 .. a : B[i] = A[i] BY <1>2, <1>3, <1>4
<1>6. B \in [1 .. b -> Nat] BY <1>2, <1>4
<1> QED BY <1>1, <1>5, <1>6 DEF GoneFurther

(* Nothing is noted at the address pass 1 has come to.                     *)
LEMMA NothingNotedHere ==
  ASSUME NEW p, NEW r, NEW A, NEW a \in Nat, a # 0, Addresses(A, a), Steps(p, r, A, a),
         FlushSites(p, r, A, a), LoadSites(p, r, A, a)
  PROVE  A[a] \notin DOMAIN r.ldrPool /\ A[a] \notin DOMAIN r.flushes
<1>1. A \in [1 .. a -> Nat] /\ \A i, j \in 1 .. a : i <= j => A[i] <= A[j] BY DEF Addresses
<1>2. ASSUME NEW h \in 1 .. a - 1 PROVE h + 1 \in 1 .. a /\ h \in 1 .. a /\ A[h + 1] <= A[a]
  <2>1. h + 1 \in 1 .. a /\ h \in 1 .. a /\ a \in 1 .. a /\ h + 1 <= a OBVIOUS
  <2> QED BY <1>1, <2>1
<1>3. ASSUME A[a] \in DOMAIN r.ldrPool PROVE FALSE
  <2>1. PICK h \in 1 .. a - 1 : RecAt(p, h).k = "ldr" /\ A[h] = A[a] BY <1>3 DEF LoadSites
  <2>2. A[h + 1] = A[h] + 4 BY <2>1 DEF Steps, Moved
  <2>3. A[h] \in Nat BY <1>1, <1>2
  <2>4. A[h + 1] <= A[a] BY <1>2
  <2> QED BY <2>1, <2>2, <2>3, <2>4
<1>4. ASSUME A[a] \in DOMAIN r.flushes PROVE FALSE
  <2>1. PICK h \in 1 .. a - 1 : RecAt(p, h).k = "ltorg" /\ HasPending(p, h) /\ A[h] = A[a]
    BY <1>4 DEF FlushSites
  <2>2. A[h] < A[h + 1] BY <2>1 DEF Steps, Moved
  <2>3. A[h] \in Nat /\ A[h + 1] \in Nat BY <1>1, <1>2
  <2>4. A[h + 1] <= A[a] BY <1>2
  <2> QED BY <2>1, <2>2, <2>3, <2>4
<1> QED BY <1>3, <1>4

(* The addresses still ascend with the next one.                           *)
LEMMA AddressesGo ==
  ASSUME NEW A, NEW a, NEW c2 \in Nat, NEW B, GoneFurther(A, a, c2, B), Addresses(A, a), A[a] <= c2
  PROVE  Addresses(B, a + 1)
<1>1. PICK b : b = a + 1 OBVIOUS
<1>2. /\ a \in Nat /\ a # 0 /\ A \in [1 .. a -> Nat] /\ B \in [1 .. b -> Nat]
      /\ B[b] = c2 /\ \A i \in 1 .. a : B[i] = A[i]
  BY <1>1 DEF GoneFurther
<1>3. A[1] = 0 /\ \A i, j \in 1 .. a : i <= j => A[i] <= A[j] BY DEF Addresses
<1>4. \A i \in 1 .. b : i = b \/ i \in 1 .. a BY <1>1, <1>2
<1>5. 1 \in 1 .. a /\ a \in 1 .. a BY <1>2
<1>6. ASSUME NEW i \in 1 .. b, NEW j \in 1 .. b, i <= j PROVE B[i] <= B[j]
  <2>1. CASE i \in 1 .. a /\ j \in 1 .. a BY <1>2, <1>3, <1>6, <2>1
  <2>2. CASE i = b
    <3>1. j = b BY <1>1, <1>2, <1>6, <2>2
    <3> QED BY <1>2, <2>2, <3>1
  <2>3. CASE i \in 1 .. a /\ j = b
    <3>1. A[i] <= A[a] BY <1>3, <1>5, <2>3
    <3>2. A[i] \in Nat /\ A[a] \in Nat BY <1>2, <1>5, <2>3
    <3> QED BY <1>2, <2>3, <3>1, <3>2
  <2> QED BY <1>4, <2>1, <2>2, <2>3
<1> QED BY <1>1, <1>2, <1>3, <1>5, <1>6 DEF Addresses

(* Each record still moves the address as it did, and the new one does     *)
(* too.                                                                    *)
LEMMA StepsGo ==
  ASSUME NEW p, IsProgram(p), NEW r, ResOK(r), NEW r2, Grown(r, r2), NEW A, NEW a, NEW c2, NEW B,
         GoneFurther(A, a, c2, B), Steps(p, r, A, a), Moved(RecAt(p, a), HasPending(p, a), r2, A[a], c2)
  PROVE  Steps(p, r2, B, a + 1)
<1>1. a \in Nat /\ a # 0 /\ B[a + 1] = c2 /\ \A i \in 1 .. a : B[i] = A[i] BY DEF GoneFurther
<1>2. ASSUME NEW i \in 1 .. (a + 1) - 1 PROVE Moved(RecAt(p, i), HasPending(p, i), r2, B[i], B[i + 1])
  <2>1. i \in 1 .. a /\ a \in 1 .. a /\ (i = a \/ i \in 1 .. a - 1) BY <1>1
  <2>2. CASE i = a BY <1>1, <2>1, <2>2
  <2>3. CASE i \in 1 .. a - 1
    <3>1. Moved(RecAt(p, i), HasPending(p, i), r, A[i], A[i + 1]) BY <2>3 DEF Steps
    <3>2. IsExpr(RecAt(p, i).e) BY RecAtIs
    <3>3. Moved(RecAt(p, i), HasPending(p, i), r2, A[i], A[i + 1]) BY <3>1, <3>2, MovedStays
    <3>4. i + 1 \in 1 .. a BY <1>1, <2>3
    <3> QED BY <1>1, <2>1, <3>3, <3>4
  <2> QED BY <2>1, <2>2, <2>3
<1> QED BY <1>2 DEF Steps

(* recordPC is still where pass 1 stood.                                   *)
LEMMA AsNotedGoes ==
  ASSUME NEW r, ResOK(r), NEW A, NEW a, NEW c2, NEW B, GoneFurther(A, a, c2, B), AsNoted(r, A, a),
         NEW r2, NotedGoes(r, a, A[a], r2)
  PROVE  AsNoted(r2, B, a + 1)
<1>1. a \in Nat /\ a # 0 /\ \A i \in 1 .. a : B[i] = A[i] BY DEF GoneFurther
<1>2. PICK s, t, c : s = r.recordPC /\ t = r2.recordPC /\ c = A[a] OBVIOUS
<1>3. s \in Seq(Int) /\ Len(s) = a - 1 /\ t \in {s, Append(s, c)} BY <1>2, ResFacts DEF NotedGoes
<1>4. ASSUME NEW i \in 1 .. a + 1, i \in 1 .. Len(t) PROVE B[i] = t[i]
  <2>1. i \in 1 .. a
    <3>1. Len(t) <= a BY <1>1, <1>3
    <3> QED BY <1>1, <1>3, <1>4, <3>1
  <2>2. CASE i \in 1 .. Len(s)
    <3>1. t[i] = s[i] BY <1>3, <2>2
    <3> QED BY <1>1, <1>2, <2>1, <2>2, <3>1 DEF AsNoted
  <2>3. CASE i \notin 1 .. Len(s)
    <3>1. i = a /\ t = Append(s, c) BY <1>1, <1>3, <1>4, <2>1, <2>3
    <3>2. t[i] = c BY <1>1, <1>3, <3>1
    <3> QED BY <1>1, <1>2, <2>1, <3>1, <3>2
  <2> QED BY <2>2, <2>3
<1> QED BY <1>2, <1>4 DEF AsNoted

(* Flushes and loads are still noted at records of their kind.             *)
LEMMA SitesGo ==
  ASSUME NEW p, NEW r, NEW A, NEW a, NEW c2, NEW B, GoneFurther(A, a, c2, B), NEW ids, NEW r2, NEW ids2,
         Goes(RecAt(p, a), r, A[a], ids, r2, c2, ids2),
         FlushSites(p, r, A, a), LoadSites(p, r, A, a), Waiting(p, a, ids)
  PROVE  FlushSites(p, r2, B, a + 1) /\ LoadSites(p, r2, B, a + 1)
<1>1. a \in Nat /\ a # 0 /\ \A i \in 1 .. a : B[i] = A[i] BY DEF GoneFurther
<1>2. a \in 1 .. (a + 1) - 1 /\ a \in 1 .. a /\ \A h \in 1 .. a - 1 : h \in 1 .. (a + 1) - 1 /\ h \in 1 .. a BY <1>1
<1>3. PICK x, c : x = RecAt(p, a) /\ c = A[a] OBVIOUS
<1>4. Goes(x, r, c, ids, r2, c2, ids2) BY <1>3
<1>5. ASSUME NEW f \in DOMAIN r2.flushes
      PROVE  \E h \in 1 .. (a + 1) - 1 : RecAt(p, h).k = "ltorg" /\ HasPending(p, h) /\ B[h] = f
  <2>1. CASE f \in DOMAIN r.flushes
    <3>1. PICK h \in 1 .. a - 1 : RecAt(p, h).k = "ltorg" /\ HasPending(p, h) /\ A[h] = f
      BY <2>1 DEF FlushSites
    <3> QED BY <1>1, <1>2, <3>1
  <2>2. CASE f \notin DOMAIN r.flushes
    <3>1. x.k = "ltorg" /\ ids # <<>>
      BY <1>4, <1>5, <2>2 DEF Goes, PoolStays, FlushGoes, LoadGoes
    <3>2. r2.flushes = With(r.flushes, c, FlushEntry(r.pool, ids, c)) BY <1>4, <3>1 DEF Goes, FlushGoes
    <3>3. WithAt(r.flushes, c, FlushEntry(r.pool, ids, c), r2.flushes) BY <3>2, WithIs
    <3>4. f = c BY <1>5, <2>2, <3>3 DEF WithAt
    <3>5. HasPending(p, a) BY <3>1 DEF Waiting
    <3> QED BY <1>1, <1>2, <1>3, <3>1, <3>4, <3>5
  <2> QED BY <2>1, <2>2
<1>6. ASSUME NEW f \in DOMAIN r2.ldrPool
      PROVE  \E h \in 1 .. (a + 1) - 1 : RecAt(p, h).k = "ldr" /\ B[h] = f
  <2>1. CASE f \in DOMAIN r.ldrPool
    <3>1. PICK h \in 1 .. a - 1 : RecAt(p, h).k = "ldr" /\ A[h] = f BY <2>1 DEF LoadSites
    <3> QED BY <1>1, <1>2, <3>1
  <2>2. CASE f \notin DOMAIN r.ldrPool
    <3>1. x.k = "ldr" BY <1>4, <1>6, <2>2 DEF Goes, PoolStays, FlushGoes
    <3>2. PICK i : r2.ldrPool = With(r.ldrPool, c, i)
      BY <1>4, <3>1 DEF Goes, LoadGoes, ShareGoes, EntryGoes
    <3>3. WithAt(r.ldrPool, c, i, r2.ldrPool) BY <3>2, WithIs
    <3>4. f = c BY <1>6, <2>2, <3>3 DEF WithAt
    <3> QED BY <1>1, <1>2, <1>3, <3>1, <3>4
  <2> QED BY <2>1, <2>2
<1> QED BY <1>5, <1>6 DEF FlushSites, LoadSites

(* What is pending is still what a load left waiting.                      *)
LEMMA WaitingGoes ==
  ASSUME NEW p, NEW r, NEW a \in Nat, a # 0, NEW c, NEW ids \in Seq(Nat), NEW r2, NEW c2, NEW ids2,
         Len(r.pool) \in Nat, Goes(RecAt(p, a), r, c, ids, r2, c2, ids2), Waiting(p, a, ids)
  PROVE  Waiting(p, a + 1, ids2)
<1>1. PICK x : x = RecAt(p, a) OBVIOUS
<1>2. Goes(x, r, c, ids, r2, c2, ids2) BY <1>1
<1>3. CASE x.k = "ldr"
  <2>1. HasPending(p, a + 1) BY <1>1, <1>3, PendingGoes
  <2>2. ids2 # <<>>
    <3>1. CASE ShareGoes(x, r, c, ids, r2, ids2)
      <4>1. ids2 = ids /\ Range(ids) # {} BY <3>1 DEF ShareGoes
      <4>2. ids # <<>> BY <4>1 DEF Range
      <4> QED BY <4>1, <4>2
    <3>2. CASE EntryGoes(x, r, c, ids, r2, ids2)
      <4>1. ids2 = Append(ids, Len(r.pool) + 1) BY <3>2 DEF EntryGoes
      <4> QED BY <4>1
    <3> QED BY <1>2, <1>3, <3>1, <3>2 DEF Goes, LoadGoes
  <2> QED BY <2>1, <2>2 DEF Waiting
<1>4. CASE x.k = "ltorg"
  <2>1. ~HasPending(p, a + 1) BY <1>1, <1>4, PendingGoes
  <2>2. ids2 = <<>> BY <1>2, <1>4 DEF Goes, FlushGoes
  <2> QED BY <2>1, <2>2 DEF Waiting
<1>5. CASE x.k \notin {"ldr", "ltorg"}
  <2>1. HasPending(p, a + 1) <=> HasPending(p, a) BY <1>1, <1>5, PendingGoes
  <2>2. ids2 = ids BY <1>2, <1>5 DEF Goes, PoolStays
  <2> QED BY <2>1, <2>2 DEF Waiting
<1> QED BY <1>3, <1>4, <1>5

(* An entry that has its slot in a flush keeps it.                         *)
LEMMA SlotStays ==
  ASSUME NEW r, ResOK(r), NEW r2, SameWidths(r.pool, r2.pool), NEW f \in DOMAIN r.flushes, f \in DOMAIN r2.flushes,
         r2.flushes[f] = r.flushes[f], NEW i \in 1 .. Len(r.pool), r2.pool[i].pc = r.pool[i].pc, InSlot(r, f, i)
  PROVE  InSlot(r2, f, i)
<1>1. PICK ids : ids = r.flushes[f].ids OBVIOUS
<1>2. ids \in Seq(1 .. Len(r.pool)) BY <1>1, ResFacts DEF FlushOK
<1>3. Len(r.pool) \in Nat BY ResFacts
<1>4. SlotPC(r2.pool, ids, f, i) = SlotPC(r.pool, ids, f, i) BY <1>2, <1>3, SlotSame
<1>5. i \in Range(ids) /\ r.pool[i].pc = SlotPC(r.pool, ids, f, i) BY <1>1 DEF InSlot
<1>6. r2.flushes[f].ids = ids BY <1>1
<1> QED BY <1>4, <1>5, <1>6 DEF InSlot

(* Every entry still has its slot in a flush, or waits for one.            *)
LEMMA SlottingGoes ==
  ASSUME NEW x, IsRecord(x), NEW r, ResOK(r), NEW c \in Int, NEW ids \in Seq(1 .. Len(r.pool)),
         NEW r2, NEW c2, NEW ids2, Goes(x, r, c, ids, r2, c2, ids2), c \notin DOMAIN r.flushes, Slotting(r, ids)
  PROVE  Slotting(r2, ids2)
<1>1. /\ PoolKept(r, r2) /\ SameWidths(r.pool, r2.pool)
      /\ \A i \in 1 .. Len(r.pool) : i \notin Range(ids) => r2.pool[i].pc = r.pool[i].pc
  <2>1. PoolKept(r, r2) BY PoolGoes
  <2>2. SameWidths(r.pool, r2.pool) BY PoolGoes
  <2>3. ASSUME NEW i \in 1 .. Len(r.pool), i \notin Range(ids) PROVE r2.pool[i].pc = r.pool[i].pc
    BY <2>3, PoolGoes
  <2> QED BY <2>1, <2>2, <2>3
<1>2. Len(r.pool) \in Nat /\ IsPool(r.pool) /\ FlushOK(r) BY ResFacts
<1>3. /\ \A i \in 1 .. Len(r.pool) : i \in Range(ids) \/ \E f \in DOMAIN r.flushes : InSlot(r, f, i)
      /\ \A f \in DOMAIN r.flushes : Range(r.flushes[f].ids) \cap Range(ids) = {}
  BY DEF Slotting
<1>4. ASSUME NEW f \in DOMAIN r.flushes, f \in DOMAIN r2.flushes, r2.flushes[f] = r.flushes[f],
             NEW i \in 1 .. Len(r.pool), InSlot(r, f, i)
      PROVE  InSlot(r2, f, i)
  <2>1. i \notin Range(ids) BY <1>3, <1>4 DEF InSlot
  <2>2. r2.pool[i].pc = r.pool[i].pc BY <1>1, <2>1
  <2> QED BY <1>1, <1>4, <2>2, SlotStays
<1>5. CASE x.k \notin {"ldr", "ltorg"}
  <2>1. r2.pool = r.pool /\ r2.flushes = r.flushes /\ ids2 = ids BY <1>5 DEF Goes, PoolStays
  <2> QED BY <1>3, <2>1 DEF Slotting, InSlot
<1>6. CASE x.k = "ldr"
  <2>1. r2.flushes = r.flushes BY <1>6 DEF Goes, LoadGoes
  <2>2. CASE ShareGoes(x, r, c, ids, r2, ids2)
    <3>1. r2.pool = r.pool /\ ids2 = ids BY <2>2 DEF ShareGoes
    <3> QED BY <1>3, <2>1, <3>1 DEF Slotting, InSlot
  <2>3. CASE EntryGoes(x, r, c, ids, r2, ids2)
    <3>1. PICK n, y : n = Len(r.pool) /\ y = Entry(x, c) OBVIOUS
    <3>2. n \in Nat /\ r2.pool = Append(r.pool, y) /\ ids2 = Append(ids, n + 1) BY <1>2, <2>3, <3>1 DEF EntryGoes
    <3>3. IsEntry(y) BY <1>6, <3>1, EntryIs
    <3>4. PoolAppended(r.pool, y, r2.pool) BY <1>2, <3>2, <3>3, PoolAppend
    <3>5. Len(r2.pool) = n + 1 BY <3>1, <3>4 DEF PoolAppended
    <3>6. Range(ids2) = Range(ids) \cup {n + 1}
      <4>1. ids \in Seq(Int) /\ n + 1 \in Int BY <3>1, <3>2, SeqWiden
      <4>2. Len(ids) \in Nat /\ DOMAIN ids = 1 .. Len(ids) BY <4>1
      <4>3. Len(ids2) = Len(ids) + 1 /\ DOMAIN ids2 = 1 .. Len(ids) + 1 BY <3>2, <4>1
      <4>4. ids2[Len(ids) + 1] = n + 1 /\ \A k \in 1 .. Len(ids) : ids2[k] = ids[k] BY <3>2, <4>1
      <4>5. \A k \in 1 .. Len(ids) + 1 : k = Len(ids) + 1 \/ k \in 1 .. Len(ids) BY <4>2
      <4>6. Range(ids2) \subseteq Range(ids) \cup {n + 1} BY <4>2, <4>3, <4>4, <4>5 DEF Range
      <4>7. Range(ids) \subseteq Range(ids2)
        <5>1. \A k \in 1 .. Len(ids) : k \in 1 .. Len(ids) + 1 BY <4>2
        <5> QED BY <4>2, <4>3, <4>4, <5>1 DEF Range
      <4>8. n + 1 \in Range(ids2)
        <5>1. Len(ids) + 1 \in 1 .. Len(ids) + 1 BY <4>2
        <5> QED BY <4>3, <4>4, <5>1 DEF Range
      <4> QED BY <4>6, <4>7, <4>8
    <3>7. \A i \in 1 .. n + 1 : i = n + 1 \/ i \in 1 .. n BY <3>2
    <3>8. ASSUME NEW i \in 1 .. Len(r2.pool) PROVE i \in Range(ids2) \/ \E f \in DOMAIN r2.flushes : InSlot(r2, f, i)
      <4>1. CASE i = n + 1 BY <3>6, <4>1
      <4>2. CASE i \in 1 .. n /\ i \in Range(ids) BY <3>6, <4>2
      <4>3. CASE i \in 1 .. n /\ i \notin Range(ids)
        <5>1. PICK f \in DOMAIN r.flushes : InSlot(r, f, i) BY <1>3, <3>1, <4>3
        <5>2. InSlot(r2, f, i) BY <1>4, <2>1, <3>1, <4>3, <5>1
        <5> QED BY <2>1, <5>1, <5>2
      <4> QED BY <3>5, <3>7, <4>1, <4>2, <4>3
    <3>9. ASSUME NEW f \in DOMAIN r2.flushes PROVE Range(r2.flushes[f].ids) \cap Range(ids2) = {}
      <4>1. Range(r.flushes[f].ids) \cap Range(ids) = {} BY <1>3, <2>1
      <4>2. PICK js : js = r.flushes[f].ids OBVIOUS
      <4>3. js \in Seq(1 .. n) BY <1>2, <2>1, <3>1, <4>2 DEF FlushOK
      <4>4. Range(js) \subseteq 1 .. n
        <5>1. DOMAIN js = 1 .. Len(js) /\ \A k \in 1 .. Len(js) : js[k] \in 1 .. n BY <4>3, SeqFacts
        <5> QED BY <5>1 DEF Range
      <4>5. n + 1 \notin 1 .. n BY <3>2
      <4> QED BY <2>1, <3>6, <4>1, <4>2, <4>4, <4>5
    <3> QED BY <3>8, <3>9 DEF Slotting
  <2> QED BY <1>6, <2>2, <2>3 DEF Goes, LoadGoes
<1>7. CASE x.k = "ltorg" /\ ids = <<>>
  <2>1. r2.pool = r.pool /\ r2.flushes = r.flushes /\ ids2 = ids BY <1>7 DEF Goes, FlushGoes
  <2> QED BY <1>3, <2>1 DEF Slotting, InSlot
<1>8. CASE x.k = "ltorg" /\ ids # <<>>
  <2>1. /\ ids2 = <<>> /\ r2.pool = SetPCs(r.pool, ids, c)
        /\ r2.flushes = With(r.flushes, c, FlushEntry(r.pool, ids, c))
    BY <1>8 DEF Goes, FlushGoes
  <2>2. WithAt(r.flushes, c, FlushEntry(r.pool, ids, c), r2.flushes) BY <2>1, WithIs
  <2>3. /\ c \in DOMAIN r2.flushes /\ r2.flushes[c].ids = ids
        /\ \A f \in DOMAIN r.flushes : f \in DOMAIN r2.flushes /\ r2.flushes[f] = r.flushes[f]
    BY <2>2 DEF WithAt, FlushEntry
  <2>4. Len(r2.pool) = Len(r.pool) /\ \A i \in Range(ids) : r2.pool[i].pc = SlotPC(r.pool, ids, c, i)
    BY <1>2, <2>1, PCsSet
  <2>5. ASSUME NEW i \in 1 .. Len(r2.pool) PROVE \E f \in DOMAIN r2.flushes : InSlot(r2, f, i)
    <3>0. i \in 1 .. Len(r.pool) BY <2>4
    <3>1. CASE i \in Range(ids)
      <4>1. SlotPC(r2.pool, ids, c, i) = SlotPC(r.pool, ids, c, i)
        <5>1. PICK po, qo : po = r.pool /\ qo = r2.pool OBVIOUS
        <5>2. Len(po) \in Nat BY <1>2, <5>1
        <5>3. SameWidths(po, qo) BY <1>1, <5>1
        <5>4. ids \in Seq(1 .. Len(po)) BY <5>1
        <5>5. i \in 1 .. Len(po) BY <3>0, <5>1
        <5>6. SlotPC(qo, ids, c, i) = SlotPC(po, ids, c, i) BY <5>2, <5>3, <5>4, <5>5, SlotSame
        <5> QED BY <5>1, <5>6
      <4>2. InSlot(r2, c, i) BY <2>3, <2>4, <3>1, <4>1 DEF InSlot
      <4> QED BY <2>3, <4>2
    <3>2. CASE i \notin Range(ids)
      <4>1. PICK f \in DOMAIN r.flushes : InSlot(r, f, i) BY <1>3, <3>0, <3>2
      <4>2. InSlot(r2, f, i) BY <1>4, <2>3, <3>0, <4>1
      <4> QED BY <2>3, <4>1, <4>2
    <3> QED BY <3>1, <3>2
  <2>6. Range(ids2) = {}
    <3>1. DOMAIN <<>> = {} OBVIOUS
    <3> QED BY <2>1, <3>1 DEF Range
  <2> QED BY <2>5, <2>6 DEF Slotting
<1> QED BY <1>5, <1>6, <1>7, <1>8

(* The numeric labels are still listed in the order of the source.         *)
LEMMA LocalsListedGo ==
  ASSUME NEW p, NEW r, r.localDefs \in Seq(Int), NEW A, NEW a, NEW c2, NEW B, GoneFurther(A, a, c2, B),
         NEW r2, A[a] \in Int, LocalsGo(RecAt(p, a), r, A[a], r2), LocalsListed(p, r, A, a)
  PROVE  LocalsListed(p, r2, B, a + 1)
<1>1. a \in Nat /\ a # 0 /\ \A i \in 1 .. a : B[i] = A[i] BY DEF GoneFurther
<1>2. PICK pos : Lists(r.localDefs, A, Locals(p, a), pos) BY DEF LocalsListed
<1>3. PICK k, S, T : k = r.localDefs /\ S = Locals(p, a) /\ T = Locals(p, a + 1) OBVIOUS
<1>4. S \in SUBSET Nat /\ \A i \in S : i \in 1 .. a /\ i < a BY <1>1, <1>3 DEF Locals
<1>5. Lists(k, B, S, pos)
  <2>1. \A i \in S : B[i] = A[i] BY <1>1, <1>4
  <2>2. Lists(k, A, S, pos) BY <1>2, <1>3
  <2> QED BY <2>1, <2>2, ListsSame
<1>6. \A i \in 1 .. (a + 1) - 1 : i = a \/ i \in 1 .. a - 1 BY <1>1
<1>7. a \in 1 .. (a + 1) - 1 /\ \A i \in 1 .. a - 1 : i \in 1 .. (a + 1) - 1 BY <1>1
<1>8. CASE RecAt(p, a).k # "local"
  <2>1. r2.localDefs = k BY <1>3, <1>8 DEF LocalsGo
  <2>2. T = S BY <1>3, <1>6, <1>7, <1>8 DEF Locals
  <2> QED BY <1>3, <1>5, <2>1, <2>2 DEF LocalsListed
<1>9. CASE RecAt(p, a).k = "local"
  <2>1. r2.localDefs = Append(k, A[a]) BY <1>3, <1>9 DEF LocalsGo
  <2>2. T = S \cup {a} BY <1>3, <1>6, <1>7, <1>9 DEF Locals
  <2>3. PICK y : y = A[a] OBVIOUS
  <2>4. a \in 1 .. a BY <1>1
  <2>5. B[a] = y BY <1>1, <2>3, <2>4
  <2>6. k \in Seq(Int) /\ y \in Int BY <1>3, <2>3
  <2>7. \A i \in S : i < a BY <1>4
  <2>8. \E more : Lists(Append(k, y), B, S \cup {a}, more) BY <1>1, <1>4, <1>5, <2>5, <2>6, <2>7, ListsMore
  <2> QED BY <1>3, <2>1, <2>2, <2>3, <2>8 DEF LocalsListed
<1> QED BY <1>8, <1>9

(* The origin is still that of the first .org before any output.           *)
LEMMA OriginatesGo ==
  ASSUME NEW p, NEW r, NEW A, NEW a, NEW c2, NEW B, GoneFurther(A, a, c2, B),
         NEW r2, OriginGoes(RecAt(p, a), r, A[a], r2, c2), Originates(p, r, A, a)
  PROVE  Originates(p, r2, B, a + 1)
<1>1. a \in Nat /\ a # 0 /\ B[a + 1] = c2 /\ \A i \in 1 .. a : B[i] = A[i] BY DEF GoneFurther
<1>2. a \in 1 .. (a + 1) - 1 /\ a \in 1 .. a BY <1>1
<1>3. CASE r2.origin = r.origin
  <2> SUFFICES ASSUME r2.origin # 0
               PROVE  \E o \in 1 .. (a + 1) - 1 : RecAt(p, o).k = "org" /\ B[o] = 0 /\ B[o + 1] = r2.origin
    BY DEF Originates
  <2>1. PICK o \in 1 .. a - 1 : RecAt(p, o).k = "org" /\ A[o] = 0 /\ A[o + 1] = r.origin BY <1>3 DEF Originates
  <2>2. o \in 1 .. (a + 1) - 1 /\ o \in 1 .. a /\ o + 1 \in 1 .. a BY <1>1
  <2> QED BY <1>1, <1>3, <2>1, <2>2
<1>4. CASE r2.origin # r.origin
  <2>1. RecAt(p, a).k = "org" /\ A[a] = 0 /\ r2.origin = c2 BY <1>4 DEF OriginGoes
  <2> QED BY <1>1, <1>2, <2>1 DEF Originates
<1> QED BY <1>3, <1>4

(* A step of pass 1 that does not go back lays out one record more.        *)
LEMMA LaidGoes ==
  ASSUME NEW p, IsProgram(p), NEW a \in 1 .. Len(p) + 1, NEW r, ResOK(r), NEW ids \in Seq(1 .. Len(r.pool)),
         NEW A, Laid(p, r, A, a, ids), NEW r2, NEW c2, NEW ids2,
         Goes(RecAt(p, a), r, A[a], ids, r2, c2, ids2), NotedGoes(r, a, A[a], r2),
         Extends(r2.symbols, r.symbols), c2 \in Nat, A[a] <= c2
  PROVE  Laid(p, r2, Further(A, a, c2), a + 1, ids2) /\ Further(A, a, c2)[a + 1] = c2
<1>1. Len(p) \in Nat BY ProgramFacts
<1>2. a \in Nat /\ a # 0 /\ a \in 1 .. a BY <1>1
<1>3. /\ Addresses(A, a) /\ Steps(p, r, A, a) /\ AsNoted(r, A, a)
      /\ FlushSites(p, r, A, a) /\ LoadSites(p, r, A, a) /\ Waiting(p, a, ids) /\ Slotting(r, ids)
      /\ LocalsListed(p, r, A, a) /\ Originates(p, r, A, a)
  BY DEF Laid
<1>4. A \in [1 .. a -> Nat] /\ A[a] \in Nat /\ A[a] \in Int BY <1>2, <1>3 DEF Addresses
<1>5. PICK B : B = Further(A, a, c2) OBVIOUS
<1>6. GoneFurther(A, a, c2, B) BY <1>2, <1>4, <1>5, FurtherIs
<1>7. A[a] \notin DOMAIN r.ldrPool /\ A[a] \notin DOMAIN r.flushes BY <1>2, <1>3, NothingNotedHere
<1>8. PICK x, c : x = RecAt(p, a) /\ c = A[a] OBVIOUS
<1>9. IsRecord(x) /\ IsExpr(x.e) BY <1>8, RecAtIs
<1>10. /\ Goes(x, r, c, ids, r2, c2, ids2) /\ c \in Int /\ c \notin DOMAIN r.ldrPool /\ c \notin DOMAIN r.flushes
  BY <1>4, <1>7, <1>8
<1>11. Grown(r, r2) BY <1>9, <1>10, GoesGrown
<1>12. Addresses(B, a + 1) BY <1>3, <1>6, AddressesGo
<1>13. Steps(p, r2, B, a + 1)
  <2>1. PICK waits : waits = HasPending(p, a) OBVIOUS
  <2>2. HasPending(p, a) <=> ids # <<>> BY <1>3 DEF Waiting
  <2>3. Moved(x, HasPending(p, a), r2, c, c2) BY <1>9, <1>10, <2>2, GoesMoved
  <2>4. Moved(RecAt(p, a), HasPending(p, a), r2, A[a], c2) BY <1>8, <2>3
  <2> QED BY <1>3, <1>6, <1>11, <2>4, StepsGo
<1>14. AsNoted(r2, B, a + 1) BY <1>3, <1>6, AsNotedGoes
<1>15. FlushSites(p, r2, B, a + 1) /\ LoadSites(p, r2, B, a + 1) BY <1>3, <1>6, SitesGo
<1>16. Waiting(p, a + 1, ids2)
  <2>1. Len(r.pool) \in Nat BY ResFacts
  <2>2. ids \in Seq(Nat)
    <3>1. 1 .. Len(r.pool) \subseteq Nat BY <2>1
    <3> QED BY <3>1, SeqWiden
  <2> QED BY <1>2, <1>3, <2>1, <2>2, WaitingGoes
<1>17. Slotting(r2, ids2) BY <1>3, <1>9, <1>10, SlottingGoes
<1>18. LocalsListed(p, r2, B, a + 1)
  <2>1. r.localDefs \in Seq(Int) BY ResFacts
  <2>2. LocalsGo(RecAt(p, a), r, A[a], r2) BY DEF Goes
  <2> QED BY <1>3, <1>4, <1>6, <2>1, <2>2, LocalsListedGo
<1>19. Originates(p, r2, B, a + 1)
  <2>1. OriginGoes(RecAt(p, a), r, A[a], r2, c2) BY DEF Goes
  <2> QED BY <1>3, <1>6, <2>1, OriginatesGo
<1>20. Laid(p, r2, B, a + 1, ids2) BY <1>12, <1>13, <1>14, <1>15, <1>16, <1>17, <1>18, <1>19 DEF Laid
<1>21. B[a + 1] = c2 BY <1>6 DEF GoneFurther
<1> QED BY <1>5, <1>20, <1>21

-----------------------------------------------------------------------------
(* What holds while pass 1 walks: the records so far are laid out, unless  *)
(* it has gone back.                                                       *)

BackBefore(p, sy, a) == \E i \in 1 .. a - 1 : Back(p, sy, i)
Walked1(p, r, a, c, ids) ==
  /\ Named(p, r.symbols, a)
  /\ BackBefore(p, r.symbols, a) \/ \E A : Laid(p, r, A, a, ids) /\ A[a] = c

(* Before the first record everything is laid out.                         *)
LEMMA LaidStarts ==
  ASSUME NEW p
  PROVE  Walked1(p, EmptyResult, 1, 0, <<>>)
<1>1. PICK r : r = EmptyResult OBVIOUS
<1>2. r = Result(Empty, <<>>, <<>>, Empty, Empty, <<>>, 0, 0) BY <1>1 DEF EmptyResult, Result
<1>3. /\ r.symbols = Empty /\ r.localDefs = <<>> /\ r.pool = <<>> /\ r.ldrPool = Empty
      /\ r.flushes = Empty /\ r.recordPC = <<>> /\ r.origin = 0
  BY <1>2, ResultFields
<1>4. DOMAIN Empty = {} /\ Len(<<>>) = 0 /\ Range(<<>>) = {} BY DEF Empty, Range
<1>5. PICK A : A = [i \in {1} |-> 0] OBVIOUS
<1>6. 1 .. 1 = {1} /\ 1 .. 1 - 1 = {} /\ 1 .. 0 = {} OBVIOUS
<1>7. A[1] = 0 /\ A \in [1 .. 1 -> Nat] BY <1>5, <1>6
<1>8. Addresses(A, 1) BY <1>6, <1>7 DEF Addresses
<1>9. Steps(p, r, A, 1) BY <1>6 DEF Steps
<1>10. AsNoted(r, A, 1) BY <1>3, <1>4, <1>6 DEF AsNoted
<1>11. FlushSites(p, r, A, 1) /\ LoadSites(p, r, A, 1) BY <1>3, <1>4 DEF FlushSites, LoadSites
<1>12. Waiting(p, 1, <<>>) BY PendingStarts DEF Waiting
<1>13. Slotting(r, <<>>) BY <1>3, <1>4, <1>6 DEF Slotting
<1>14. LocalsListed(p, r, A, 1)
  <2>1. Locals(p, 1) = {} BY <1>6 DEF Locals
  <2> QED BY <1>3, <2>1, ListsNone DEF LocalsListed
<1>15. Originates(p, r, A, 1) BY <1>3 DEF Originates
<1>16. Laid(p, r, A, 1, <<>>) BY <1>8, <1>9, <1>10, <1>11, <1>12, <1>13, <1>14, <1>15 DEF Laid
<1>17. Named(p, r.symbols, 1) BY <1>3, <1>4 DEF Named
<1> QED BY <1>1, <1>7, <1>16, <1>17 DEF Walked1

(* A record more is laid out, unless it goes back.                         *)
LEMMA WalkedGoes ==
  ASSUME NEW p, IsProgram(p), NamesOnce(p), NEW a \in 1 .. Len(p) + 1, NEW r, ResOK(r), NEW c \in Int,
         NEW ids \in Seq(1 .. Len(r.pool)), Walked1(p, r, a, c, ids), NEW r2, NEW c2, NEW ids2,
         Goes(RecAt(p, a), r, c, ids, r2, c2, ids2), NotedGoes(r, a, c, r2)
  PROVE  Walked1(p, r2, a + 1, c2, ids2)
<1>1. Named(p, r.symbols, a) BY DEF Walked1
<1>2. PICK x : x = RecAt(p, a) OBVIOUS
<1>3. IsRecord(x) BY <1>2, RecAtIs
<1>4. Goes(x, r, c, ids, r2, c2, ids2) BY <1>2
<1>5. SymbolsGo(RecAt(p, a), r, c, r2) BY DEF Goes
<1>6. Extends(r2.symbols, r.symbols) /\ Named(p, r2.symbols, a + 1)
  <2>1. Extends(r2.symbols, r.symbols) BY <1>1, <1>5, SymbolsGrow
  <2>2. Named(p, r2.symbols, a + 1) BY <1>1, <1>5, SymbolsGrow
  <2> QED BY <2>1, <2>2
<1>7. Len(p) \in Nat BY ProgramFacts
<1>8. a \in Nat /\ a \in 1 .. (a + 1) - 1 /\ \A i \in 1 .. a - 1 : i \in 1 .. (a + 1) - 1 BY <1>7
<1>9. CASE BackBefore(p, r.symbols, a)
  <2>1. PICK i \in 1 .. a - 1 : Back(p, r.symbols, i) BY <1>9 DEF BackBefore
  <2>2. Back(p, r2.symbols, i) BY <1>6, <2>1, BackStays
  <2> QED BY <1>6, <1>8, <2>2 DEF Walked1, BackBefore
<1>10. CASE BackAt(x, r2.symbols)
  BY <1>2, <1>6, <1>8, <1>10 DEF Walked1, BackBefore, Back
<1>11. CASE ~BackBefore(p, r.symbols, a) /\ ~BackAt(x, r2.symbols)
  <2>1. PICK A : Laid(p, r, A, a, ids) /\ A[a] = c BY <1>11 DEF Walked1
  <2>2. Addresses(A, a) BY <2>1 DEF Laid
  <2>3. c \in Nat BY <1>8, <2>1, <2>2 DEF Addresses
  <2>4. c2 \in Nat /\ c <= c2 BY <1>3, <1>4, <1>6, <1>11, <2>3, GoesUp
  <2>5. /\ Goes(RecAt(p, a), r, A[a], ids, r2, c2, ids2) /\ NotedGoes(r, a, A[a], r2) /\ A[a] <= c2
        /\ Laid(p, r, A, a, ids)
    BY <2>1, <2>4
  <2>6. Extends(r2.symbols, r.symbols) /\ c2 \in Nat BY <1>6, <2>4
  <2>7. Laid(p, r2, Further(A, a, c2), a + 1, ids2) BY <2>5, <2>6, LaidGoes
  <2>8. Further(A, a, c2)[a + 1] = c2
    <3>1. a # 0 /\ A \in [1 .. a -> Nat] BY <1>8, <2>2 DEF Addresses
    <3>2. GoneFurther(A, a, c2, Further(A, a, c2)) BY <1>8, <2>6, <3>1, FurtherIs
    <3> QED BY <3>2 DEF GoneFurther
  <2> QED BY <1>6, <2>7, <2>8 DEF Walked1
<1> QED BY <1>9, <1>10, <1>11

(* A step of pass 1 lays out its record, unless it goes back.              *)
LEMMA WalkedMakes ==
  ASSUME NEW p, NamesOnce(p), NEW a \in 1 .. Len(p), NEW r, NEW c, NEW ids, Typed1(p, r, a, c, ids),
         Walked1(p, r, a, c, ids), NEW r2, NEW c2, NEW ids2, Made(p[a], r, c, ids, r2, c2, ids2)
  PROVE  Walked1(p, r2, a + 1, c2, ids2)
<1>1. /\ IsProgram(p) /\ a \in 1 .. Len(p) + 1 /\ c \in Int /\ ResOK(r) /\ ids \in Seq(1 .. Len(r.pool))
      /\ Len(r.recordPC) = a - 1
  BY DEF Typed1
<1>2. PICK x : x = p[a] OBVIOUS
<1>3. x = RecAt(p, a) /\ IsRecord(x) BY <1>1, <1>2, RecAtIs
<1>4. Made(x, r, c, ids, r2, c2, ids2) BY <1>2
<1>5. Goes(x, r, c, ids, r2, c2, ids2) BY <1>1, <1>3, <1>4, MadeGoes
<1>7. NotedGoes(r, a, c, r2) BY MadeIsTyped
<1>8. Goes(RecAt(p, a), r, c, ids, r2, c2, ids2) BY <1>3, <1>5
<1> QED BY <1>1, <1>7, <1>8, WalkedGoes

(* At the end of pass 1 all of the source is laid out.                     *)
BackAhead(p, sy, a) == \E i \in 1 .. Len(p) : i >= a /\ Back(p, sy, i)
LaidOut(p, r, A) == Laid(p, r, A, Len(p) + 2, <<>>) /\ A[Len(p) + 2] = r.total

(* At its end pass 1 has laid out the source, unless a record goes back.   *)
LEMMA WalkedEnds ==
  ASSUME NEW p, NamesOnce(p), NEW a, a = Len(p) + 1, NEW r, NEW c, NEW ids, Typed1(p, r, a, c, ids),
         Walked1(p, r, a, c, ids), NEW r2, MadeEnd(r, c, ids, r2)
  PROVE  BackAhead(p, r2.symbols, 1) \/ \E A : LaidOut(p, r2, A)
<1>1. /\ IsProgram(p) /\ a \in 1 .. Len(p) + 1 /\ c \in Int /\ ResOK(r) /\ ids \in Seq(1 .. Len(r.pool))
      /\ Len(r.recordPC) = a - 1
  BY DEF Typed1
<1>2. Len(p) \in Nat BY <1>1, ProgramFacts
<1>3. RecAt(p, a) = EndRecord BY <1>2 DEF RecAt
<1>4. PICK to : to = r2.total OBVIOUS
<1>5. Goes(EndRecord, r, c, ids, r2, r2.total, <<>>) /\ r2.recordPC = r.recordPC BY EndGoes
<1>6. Goes(RecAt(p, a), r, c, ids, r2, to, <<>>) BY <1>3, <1>4, <1>5
<1>7. NotedGoes(r, a, c, r2) BY <1>1, <1>5 DEF NotedGoes
<1>8. Walked1(p, r2, a + 1, to, <<>>) BY <1>1, <1>6, <1>7, WalkedGoes
<1>9. a + 1 = Len(p) + 2 BY <1>2
<1>10. CASE BackBefore(p, r2.symbols, a + 1)
  <2>1. PICK i \in 1 .. (a + 1) - 1 : Back(p, r2.symbols, i) BY <1>10 DEF BackBefore
  <2>2. i # a
    <3>1. EndRecord.k = "ltorg" BY DEF EndRecord, Record
    <3> QED BY <1>3, <2>1, <3>1 DEF Back, BackAt
  <2>3. i \in 1 .. Len(p) /\ i >= 1 BY <1>2, <2>1, <2>2
  <2> QED BY <2>1, <2>3 DEF BackAhead
<1>11. CASE ~BackBefore(p, r2.symbols, a + 1)
  <2>1. PICK A : Laid(p, r2, A, a + 1, <<>>) /\ A[a + 1] = to BY <1>8, <1>11 DEF Walked1
  <2>2. LaidOut(p, r2, A) BY <1>4, <1>9, <2>1 DEF LaidOut
  <2> QED BY <2>2
<1> QED BY <1>10, <1>11

-----------------------------------------------------------------------------
(* Pass 2 takes the steps pass 1 took.  What stands before the .org that   *)
(* sets the origin is Early: pass 1 gave it address 0, pass 2 the origin.  *)

Early(r, A, i) == r.origin # 0 /\ A[i] = 0

(* The addresses of the records ascend, from 0 to the total.               *)
LEMMA LaidFacts ==
  ASSUME NEW p, IsProgram(p), NEW r, NEW A, LaidOut(p, r, A)
  PROVE  /\ Len(p) \in Nat /\ A \in [1 .. Len(p) + 2 -> Nat] /\ A[1] = 0 /\ A[Len(p) + 2] = r.total
         /\ \A i, j \in 1 .. Len(p) + 2 : i <= j => A[i] <= A[j]
         /\ Steps(p, r, A, Len(p) + 2)
<1>1. Addresses(A, Len(p) + 2) /\ Steps(p, r, A, Len(p) + 2) /\ A[Len(p) + 2] = r.total BY DEF LaidOut, Laid
<1> QED BY <1>1, ProgramFacts DEF Addresses

(* A record moves the address from its own to that of the next.            *)
LEMMA LaidStep ==
  ASSUME NEW p, IsProgram(p), NEW r, NEW A, LaidOut(p, r, A), NEW a \in 1 .. Len(p) + 1
  PROVE  /\ a \in 1 .. Len(p) + 2 /\ a + 1 \in 1 .. Len(p) + 2 /\ A[a] \in Nat /\ A[a + 1] \in Nat
         /\ A[a] <= A[a + 1] /\ Moved(RecAt(p, a), HasPending(p, a), r, A[a], A[a + 1])
<1>1. Len(p) \in Nat /\ A \in [1 .. Len(p) + 2 -> Nat] /\ \A i, j \in 1 .. Len(p) + 2 : i <= j => A[i] <= A[j]
  BY LaidFacts
<1>2. Steps(p, r, A, Len(p) + 2) BY LaidFacts
<1>3. a \in 1 .. Len(p) + 2 /\ a + 1 \in 1 .. Len(p) + 2 /\ a <= a + 1 /\ a \in 1 .. (Len(p) + 2) - 1 BY <1>1
<1>4. Moved(RecAt(p, a), HasPending(p, a), r, A[a], A[a + 1]) BY <1>2, <1>3 DEF Steps
<1> QED BY <1>1, <1>3, <1>4

(* The addresses go from an earlier record to a later one.                 *)
LEMMA LaidBefore ==
  ASSUME NEW p, IsProgram(p), NEW r, NEW A, LaidOut(p, r, A),
         NEW i \in 1 .. Len(p) + 2, NEW j \in 1 .. Len(p) + 2, i < j
  PROVE  i \in 1 .. Len(p) + 1 /\ A[i] <= A[i + 1] /\ A[i + 1] <= A[j] /\ A[i] <= A[j] /\ A[j] \in Nat
<1>1. Len(p) \in Nat /\ A \in [1 .. Len(p) + 2 -> Nat] /\ \A g, h \in 1 .. Len(p) + 2 : g <= h => A[g] <= A[h]
  BY LaidFacts
<1>2. i \in 1 .. Len(p) + 1 /\ i + 1 \in 1 .. Len(p) + 2 /\ i <= i + 1 /\ i + 1 <= j /\ i <= j BY <1>1
<1> QED BY <1>1, <1>2

(* Only the .org that sets the origin comes out of it.                     *)
LEMMA EarlyEnds ==
  ASSUME NEW p, IsProgram(p), NEW r, NEW A, LaidOut(p, r, A), NEW a \in 1 .. Len(p) + 1,
         Early(r, A, a), A[a + 1] # 0
  PROVE  RecAt(p, a).k = "org" /\ A[a + 1] = r.origin
<1>1. Len(p) \in Nat BY ProgramFacts
<1>2. Originates(p, r, A, Len(p) + 2) BY DEF LaidOut, Laid
<1>3. r.origin # 0 /\ A[a] = 0 BY DEF Early
<1>4. PICK o \in 1 .. (Len(p) + 2) - 1 : RecAt(p, o).k = "org" /\ A[o] = 0 /\ A[o + 1] = r.origin
  BY <1>2, <1>3 DEF Originates
<1>5. o \in 1 .. Len(p) + 2 /\ a \in 1 .. Len(p) + 2 BY <1>1
<1>6. A[a + 1] \in Nat /\ A[o + 1] \in Nat
  <2>1. A[a + 1] \in Nat BY LaidStep
  <2>2. o \in 1 .. Len(p) + 1 BY <1>1
  <2>3. A[o + 1] \in Nat BY <2>2, LaidStep
  <2> QED BY <2>1, <2>3
<1>7. CASE o = a BY <1>4, <1>7
<1>8. CASE o < a
  <2>1. A[o + 1] <= A[a] BY <1>5, <1>8, LaidBefore
  <2> QED BY <1>3, <1>4, <1>6, <2>1
<1>9. CASE a < o
  <2>1. A[a + 1] <= A[o] BY <1>5, <1>9, LaidBefore
  <2> QED BY <1>4, <1>6, <2>1
<1> QED BY <1>5, <1>7, <1>8, <1>9

(* No flush was noted where a .ltorg has nothing to flush.                 *)
LEMMA NoFlushHere ==
  ASSUME NEW p, IsProgram(p), NEW r, NEW A, LaidOut(p, r, A), NEW a \in 1 .. Len(p) + 1,
         RecAt(p, a).k = "ltorg", ~HasPending(p, a)
  PROVE  A[a] \notin DOMAIN r.flushes
<1>1. Len(p) \in Nat BY ProgramFacts
<1>2. SUFFICES ASSUME A[a] \in DOMAIN r.flushes PROVE FALSE OBVIOUS
<1>3. FlushSites(p, r, A, Len(p) + 2) BY DEF LaidOut, Laid
<1>4. PICK h \in 1 .. (Len(p) + 2) - 1 : RecAt(p, h).k = "ltorg" /\ HasPending(p, h) /\ A[h] = A[a]
  BY <1>2, <1>3 DEF FlushSites
<1>5. h \in 1 .. Len(p) + 1 /\ h \in 1 .. Len(p) + 2 /\ a \in 1 .. Len(p) + 2 /\ h # a BY <1>1, <1>4
<1>6. CASE h < a
  <2>1. Moved(RecAt(p, h), HasPending(p, h), r, A[h], A[h + 1]) BY <1>5, LaidStep
  <2>2. A[h] < A[h + 1] BY <1>4, <2>1 DEF Moved
  <2>3. A[h] \in Nat /\ A[h + 1] \in Nat BY <1>5, LaidStep
  <2>4. A[h + 1] <= A[a] BY <1>5, <1>6, LaidBefore
  <2> QED BY <1>4, <2>2, <2>3, <2>4
<1>7. CASE a < h
  <2>1. PICK d \in 1 .. h - 1 : RecAt(p, d).k = "ldr" /\ \A g \in d + 1 .. h - 1 : RecAt(p, g).k # "ltorg"
    BY <1>4 DEF HasPending
  <2>2. ~(d < a)
    <3>1. SUFFICES ASSUME d < a PROVE FALSE OBVIOUS
    <3>2. a \in d + 1 .. h - 1 BY <1>1, <1>7, <3>1
    <3> QED BY <2>1, <3>2
  <2>3. d # a BY <2>1
  <2>4. a < d /\ d < h /\ d \in 1 .. Len(p) + 1 /\ d \in 1 .. Len(p) + 2 BY <1>1, <1>5, <2>2, <2>3
  <2>5. A[a] <= A[d] BY <1>5, <2>4, LaidBefore
  <2>6. A[d + 1] <= A[h] BY <1>5, <2>4, LaidBefore
  <2>7. Moved(RecAt(p, d), HasPending(p, d), r, A[d], A[d + 1]) BY <2>4, LaidStep
  <2>8. A[d + 1] = A[d] + 4 BY <2>1, <2>7 DEF Moved
  <2>9. A[a] \in Nat /\ A[d] \in Nat BY <2>4, LaidStep
  <2> QED BY <1>4, <2>5, <2>6, <2>8, <2>9
<1> QED BY <1>5, <1>6, <1>7

(* What an expression meant to pass 1 it means to pass 2.                  *)
LEMMA MeansSame ==
  ASSUME NEW r, ResOK(r), NEW e, IsExpr(e), NEW from \in Int,
         NEW v \in Eval(e, from, r.symbols, <<>>), NEW w \in Means(r, e, from)
  PROVE  w = v
<1>1. SymbolsOK(r.symbols) /\ r.localDefs \in Seq(Int) BY ResFacts
<1>2. Extends(r.symbols, r.symbols) BY ExtendsSame
<1>3. PICK sy, ld : sy = r.symbols /\ ld = r.localDefs OBVIOUS
<1>4. v \in Eval(e, from, sy, <<>>) /\ Extends(sy, sy) BY <1>2, <1>3
<1>5. v \in Eval(e, from, sy, ld) BY <1>4, EvalGrows
<1>6. SymbolsOK(sy) /\ ld \in Seq(Int) BY <1>1, <1>3
<1>7. Eval(e, from, sy, ld) = {v} /\ v \in Int BY <1>5, <1>6, EvalSingle
<1> QED BY <1>3, <1>7 DEF Means

(* Pass 2 goes from the address of a record to that of the next, as pass 1 *)
(* did.                                                                    *)
LEMMA StepsAgree ==
  ASSUME NEW p, IsProgram(p), NEW r, ResOK(r), NEW A, LaidOut(p, r, A), NEW a \in 1 .. Len(p) + 1,
         NEW c, c = A[a], NEW c2, NEW out, Contig(out, c, c2), KindEmits(p, r, a, c, c2, out)
  PROVE  c2 = A[a + 1]
<1>1. PICK x, to : x = RecAt(p, a) /\ to = A[a + 1] OBVIOUS
<1>2. IsRecord(x) /\ IsExpr(x.e) /\ x.k = K(p, a) /\ (a \in 1 .. Len(p) => x = p[a]) BY <1>1, RecAtIs
<1>3. Moved(x, HasPending(p, a), r, c, to)
  <2>1. Moved(RecAt(p, a), HasPending(p, a), r, A[a], A[a + 1]) BY LaidStep
  <2> QED BY <1>1, <2>1
<1>4. c \in Int
  <2>1. A[a] \in Nat BY LaidStep
  <2> QED BY <2>1
<1>5. x.k # "ltorg" => x = p[a] BY <1>2 DEF K
<1>6. out = <<>> => c2 = c BY DEF Contig
<1>7. CASE x.k \in {"label", "local", "set", "section"} BY <1>1, <1>2, <1>3, <1>6, <1>7 DEF Moved, KindEmits
<1>8. CASE x.k \in {"inst", "ldr"} BY <1>1, <1>2, <1>3, <1>8 DEF Moved, KindEmits
<1>9. CASE x.k = "data" BY <1>1, <1>2, <1>3, <1>5, <1>9 DEF Moved, KindEmits
<1>10. CASE x.k = "balign" BY <1>1, <1>2, <1>3, <1>5, <1>10 DEF Moved, KindEmits
<1>11. CASE x.k = "skip"
  <2>1. PICK n \in Means(r, x.e, c) : c2 = c + n BY <1>2, <1>5, <1>11 DEF KindEmits
  <2>2. PICK m \in Eval(x.e, c, r.symbols, <<>>) : to = c + m BY <1>3, <1>11 DEF Moved
  <2>3. PICK e : e = x.e OBVIOUS
  <2>4. IsExpr(e) /\ n \in Means(r, e, c) /\ m \in Eval(e, c, r.symbols, <<>>) BY <1>2, <2>1, <2>2, <2>3
  <2>5. n = m BY <1>4, <2>4, MeansSame
  <2> QED BY <1>1, <2>1, <2>2, <2>5
<1>12. CASE x.k = "org"
  <2>1. c2 \in Means(r, x.e, c) BY <1>2, <1>5, <1>12 DEF KindEmits
  <2>2. to \in Eval(x.e, c, r.symbols, <<>>) BY <1>3, <1>12 DEF Moved
  <2>3. PICK e : e = x.e OBVIOUS
  <2>4. IsExpr(e) /\ c2 \in Means(r, e, c) /\ to \in Eval(e, c, r.symbols, <<>>) BY <1>2, <2>1, <2>2, <2>3
  <2>5. c2 = to BY <1>4, <2>4, MeansSame
  <2> QED BY <1>1, <2>5
<1>13. CASE x.k = "ltorg" /\ HasPending(p, a)
  <2>1. c \in DOMAIN r.flushes /\ to = r.flushes[c].after BY <1>3, <1>13 DEF Moved
  <2>2. c2 = r.flushes[c].after BY <1>2, <1>13, <2>1 DEF KindEmits
  <2> QED BY <1>1, <2>1, <2>2
<1>14. CASE x.k = "ltorg" /\ ~HasPending(p, a)
  <2>1. to = c BY <1>3, <1>14 DEF Moved
  <2>2. c \notin DOMAIN r.flushes BY <1>1, <1>14, NoFlushHere
  <2>3. out = <<>> BY <1>2, <1>14, <2>2 DEF KindEmits
  <2> QED BY <1>1, <1>6, <2>1, <2>3
<1> QED BY <1>2, <1>7, <1>8, <1>9, <1>10, <1>11, <1>12, <1>13, <1>14 DEF IsRecord

(* Its .org takes pass 2 to the origin.                                    *)
LEMMA OriginMet ==
  ASSUME NEW p, IsProgram(p), NEW r, ResOK(r), NEW A, LaidOut(p, r, A), NEW a \in 1 .. Len(p) + 1,
         Early(r, A, a), A[a + 1] # 0,
         NEW c \in Int, NEW c2, NEW out, KindEmits(p, r, a, c, c2, out)
  PROVE  c2 = A[a + 1] /\ c2 = r.origin
<1>1. PICK x, to : x = RecAt(p, a) /\ to = A[a + 1] OBVIOUS
<1>2. IsExpr(x.e) /\ x.k = K(p, a) /\ (a \in 1 .. Len(p) => x = p[a]) BY <1>1, RecAtIs
<1>3. x.k = "org" /\ to = r.origin BY <1>1, EarlyEnds
<1>4. x = p[a] BY <1>2, <1>3 DEF K
<1>5. Moved(x, HasPending(p, a), r, 0, to)
  <2>1. Moved(RecAt(p, a), HasPending(p, a), r, A[a], A[a + 1]) BY LaidStep
  <2>2. A[a] = 0 BY DEF Early
  <2> QED BY <1>1, <2>1, <2>2
<1>6. to \in Eval(x.e, 0, r.symbols, <<>>) /\ to # 0 BY <1>1, <1>3, <1>5 DEF Moved
<1>7. c2 \in Means(r, x.e, c) BY <1>2, <1>3, <1>4 DEF KindEmits
<1>8. PICK e, sy, ld : e = x.e /\ sy = r.symbols /\ ld = r.localDefs OBVIOUS
<1>9. IsExpr(e) /\ to \in Eval(e, 0, sy, <<>>) /\ Extends(sy, sy) BY <1>2, <1>6, <1>8, ExtendsSame
<1>10. e.op # "local" BY <1>9, EvalGrows
<1>11. e.op # "dot"
  <2>1. e.op = "dot" => Eval(e, 0, sy, <<>>) = {0} BY EvalCases
  <2> QED BY <1>6, <1>9, <2>1
<1>12. e.op \in {"int", "sym"} BY <1>9, <1>10, <1>11 DEF IsExpr
<1>13. Eval(e, c, sy, ld) = Eval(e, 0, sy, <<>>) BY <1>12, SameFrom
<1>14. SymbolsOK(sy) /\ <<>> \in Seq(Int) /\ 0 \in Int BY <1>8, ResFacts
<1>15. Eval(e, 0, sy, <<>>) = {to}
  <2>1. PICK z, none : z = 0 /\ none = <<>> OBVIOUS
  <2>2. IsExpr(e) BY <1>9
  <2>3. z \in Int BY <2>1
  <2>4. SymbolsOK(sy) BY <1>14
  <2>5. none \in Seq(Int) BY <1>14, <2>1
  <2>6. to \in Eval(e, z, sy, none) BY <1>9, <2>1
  <2>7. Eval(e, z, sy, none) = {to} BY <2>2, <2>3, <2>4, <2>5, <2>6, EvalSingle
  <2> QED BY <2>1, <2>7
<1>16. c2 \in Eval(e, c, sy, ld) BY <1>7, <1>8 DEF Means
<1> QED BY <1>1, <1>3, <1>13, <1>15, <1>16

(* Where pass 2 stands.                                                    *)
Stands(r, A, a, c) == IF Early(r, A, a) THEN r.origin <= c ELSE c = A[a]

(* Pass 2 stands at the origin until its .org, and then where pass 1 did.  *)
LEMMA StandsGoes ==
  ASSUME NEW p, IsProgram(p), NEW r, ResOK(r), NEW A, LaidOut(p, r, A), NEW a \in 1 .. Len(p) + 1,
         NEW c \in Int, Stands(r, A, a, c),
         NEW c2, NEW out, Contig(out, c, c2), KindEmits(p, r, a, c, c2, out)
  PROVE  /\ Stands(r, A, a + 1, c2)
         /\ Early(r, A, a) /\ ~Early(r, A, a + 1) => c2 = r.origin
         /\ ~Early(r, A, a) => ~Early(r, A, a + 1) /\ c = A[a] /\ c2 = A[a + 1]
<1>1. A[a] \in Nat /\ A[a + 1] \in Nat /\ A[a] <= A[a + 1] BY LaidStep
<1>2. r.origin \in Nat BY ResFacts
<1>3. c2 \in Int /\ c <= c2 BY DEF Contig
<1>4. CASE ~Early(r, A, a)
  <2>1. c = A[a] BY <1>4 DEF Stands
  <2>2. c2 = A[a + 1] BY <2>1, StepsAgree
  <2>3. ~Early(r, A, a + 1) BY <1>1, <1>4 DEF Early
  <2> QED BY <1>4, <2>1, <2>2, <2>3 DEF Stands
<1>5. CASE Early(r, A, a) /\ A[a + 1] = 0
  <2>1. Early(r, A, a + 1) BY <1>5 DEF Early
  <2>2. r.origin <= c BY <1>5 DEF Stands
  <2>3. r.origin <= c2 BY <1>2, <1>3, <2>2
  <2> QED BY <1>5, <2>1, <2>3 DEF Stands
<1>6. CASE Early(r, A, a) /\ A[a + 1] # 0
  <2>1. c2 = A[a + 1] /\ c2 = r.origin BY <1>6, OriginMet
  <2>2. ~Early(r, A, a + 1) BY <1>6 DEF Early
  <2> QED BY <1>6, <2>1, <2>2 DEF Stands
<1> QED BY <1>4, <1>5, <1>6

(* Where the chunks of the image stand.                                    *)
InPlace(r, A, a, im) ==
  \A s \in 1 .. Len(im) :
    IF Early(r, A, im[s].rec) THEN ~Early(r, A, a) => im[s].pc + im[s].len <= r.origin
    ELSE A[im[s].rec] <= im[s].pc /\ im[s].pc + im[s].len <= A[im[s].rec + 1]

(* What a record emits lies between its address and the next.              *)
LEMMA InPlaceGoes ==
  ASSUME NEW p, IsProgram(p), NEW r, ResOK(r), NEW A, LaidOut(p, r, A), NEW a \in 1 .. Len(p) + 1,
         NEW c \in Int, Stands(r, A, a, c), NEW im, Contig(im, r.origin, c), InPlace(r, A, a, im),
         NEW c2, NEW im2, Emitted(p, r, a, c, im, c2, im2)
  PROVE  InPlace(r, A, a + 1, im2)
<1>1. PICK out : im2 = im \o out /\ Emits(p, r, a, c, c2, out) BY DEF Emitted
<1>2. /\ Contig(out, c, c2) /\ KindEmits(p, r, a, c, c2, out)
      /\ \A s \in 1 .. Len(out) : out[s].rec = a
  BY <1>1 DEF Emits
<1>3. PICK b : b = a + 1 OBVIOUS
<1>4. /\ Early(r, A, a) /\ ~Early(r, A, b) => c2 = r.origin
      /\ ~Early(r, A, a) => ~Early(r, A, b) /\ c = A[a] /\ c2 = A[b]
  <2>1. PICK cc, oo : cc = c2 /\ oo = out OBVIOUS
  <2>2. Contig(oo, c, cc) /\ KindEmits(p, r, a, c, cc, oo) BY <1>2, <2>1
  <2>3. Early(r, A, a) /\ ~Early(r, A, a + 1) => cc = r.origin BY <2>2, StandsGoes
  <2>4. ~Early(r, A, a) => ~Early(r, A, a + 1) /\ c = A[a] /\ cc = A[a + 1] BY <2>2, StandsGoes
  <2> QED BY <1>3, <2>1, <2>3, <2>4
<1>5. Contig(im2, r.origin, c2) BY <1>1, <1>2, ContigJoin
<1>6. \A s \in 1 .. Len(im2) : im2[s].pc + im2[s].len <= c2 BY <1>5 DEF Contig, End
<1>7. \A s \in 1 .. Len(out) : c <= out[s].pc /\ out[s].pc + out[s].len <= c2 BY <1>2 DEF Contig, End
<1>8. im \in Seq(Range(im)) /\ out \in Seq(Range(out)) BY <1>2 DEF Contig
<1>9. /\ Len(im) \in Nat /\ Len(out) \in Nat /\ Len(im2) = Len(im) + Len(out)
      /\ \A s \in 1 .. Len(im) : im2[s] = im[s]
      /\ \A s \in 1 .. Len(out) : im2[Len(im) + s] = out[s]
  BY <1>1, <1>8
<1>10. ASSUME NEW s \in 1 .. Len(im2)
       PROVE  IF Early(r, A, im2[s].rec) THEN ~Early(r, A, b) => im2[s].pc + im2[s].len <= r.origin
              ELSE A[im2[s].rec] <= im2[s].pc /\ im2[s].pc + im2[s].len <= A[im2[s].rec + 1]
  <2>1. CASE s \in 1 .. Len(im)
    <3>1. im2[s] = im[s] BY <1>9, <2>1
    <3>2. CASE Early(r, A, im[s].rec)
      <4>1. ASSUME ~Early(r, A, b) PROVE im2[s].pc + im2[s].len <= r.origin
        <5>1. CASE Early(r, A, a)
          <6>1. c2 = r.origin BY <1>4, <4>1, <5>1
          <6> QED BY <1>6, <6>1
        <5>2. CASE ~Early(r, A, a) BY <2>1, <3>1, <3>2, <5>2 DEF InPlace
        <5> QED BY <5>1, <5>2
      <4> QED BY <3>1, <3>2, <4>1
    <3>3. CASE ~Early(r, A, im[s].rec) BY <2>1, <3>1, <3>3 DEF InPlace
    <3> QED BY <3>2, <3>3
  <2>2. CASE s \notin 1 .. Len(im)
    <3>1. PICK t : t = s - Len(im) OBVIOUS
    <3>2. t \in 1 .. Len(out) /\ s = Len(im) + t BY <1>9, <2>2, <3>1
    <3>3. im2[s] = out[t] /\ im2[s].rec = a BY <1>2, <1>9, <3>2
    <3>4. CASE Early(r, A, a)
      <4>1. ASSUME ~Early(r, A, b) PROVE im2[s].pc + im2[s].len <= r.origin
        <5>1. c2 = r.origin BY <1>4, <3>4, <4>1
        <5> QED BY <1>6, <5>1
      <4> QED BY <3>3, <3>4, <4>1
    <3>5. CASE ~Early(r, A, a)
      <4>1. c = A[a] /\ c2 = A[a + 1] BY <1>3, <1>4, <3>5
      <4>2. c <= im2[s].pc /\ im2[s].pc + im2[s].len <= c2 BY <1>7, <3>2, <3>3
      <4> QED BY <3>3, <3>5, <4>1, <4>2
    <3> QED BY <3>4, <3>5
  <2> QED BY <2>1, <2>2
<1> QED BY <1>3, <1>10 DEF InPlace

(* Every flush has laid out its literals, and every instruction its word.  *)
Pooled(p, r, A, a, im) ==
  \A h \in 1 .. a - 1 : RecAt(p, h).k = "ltorg" /\ HasPending(p, h) =>
    \A i \in Range(r.flushes[A[h]].ids) : HasSlot(im, r, r.flushes[A[h]].ids, A[h], i)
Coded(p, a, im) ==
  \A h \in 1 .. a - 1 : RecAt(p, h).k \in {"inst", "ldr"} => \E s \in 1 .. Len(im) : im[s].k = "code" /\ im[s].rec = h

(* A slot in the image is there when more is emitted.                      *)
LEMMA SlotFirst ==
  ASSUME NEW X, NEW im \in Seq(X), NEW Y, NEW out \in Seq(Y), NEW r, NEW ids, NEW f, NEW i, HasSlot(im, r, ids, f, i)
  PROVE  HasSlot(im \o out, r, ids, f, i)
<1>1. PICK im2 : im2 = im \o out OBVIOUS
<1>2. Len(im) \in Nat /\ Len(out) \in Nat /\ Len(im2) = Len(im) + Len(out) /\ \A s \in 1 .. Len(im) : im2[s] = im[s]
  BY <1>1
<1>3. PICK s \in 1 .. Len(im) : /\ im[s].k = "pool" /\ im[s].len = r.pool[i].w /\ EntryValue(r, i) = {im[s].val}
                                /\ im[s].pc = SlotPC(r.pool, ids, f, i)
  BY DEF HasSlot
<1>4. s \in 1 .. Len(im2) /\ im2[s] = im[s] BY <1>2
<1> QED BY <1>1, <1>3, <1>4 DEF HasSlot

(* A slot just emitted is in the image.                                    *)
LEMMA SlotLast ==
  ASSUME NEW X, NEW im \in Seq(X), NEW Y, NEW out \in Seq(Y), NEW r, NEW ids, NEW f, NEW i, HasSlot(out, r, ids, f, i)
  PROVE  HasSlot(im \o out, r, ids, f, i)
<1>1. PICK im2 : im2 = im \o out OBVIOUS
<1>2. /\ Len(im) \in Nat /\ Len(out) \in Nat /\ Len(im2) = Len(im) + Len(out)
      /\ \A s \in 1 .. Len(out) : im2[Len(im) + s] = out[s]
  BY <1>1
<1>3. PICK s \in 1 .. Len(out) : /\ out[s].k = "pool" /\ out[s].len = r.pool[i].w /\ EntryValue(r, i) = {out[s].val}
                                 /\ out[s].pc = SlotPC(r.pool, ids, f, i)
  BY DEF HasSlot
<1>4. PICK t : t = Len(im) + s OBVIOUS
<1>5. t \in 1 .. Len(im2) /\ im2[t] = out[s] BY <1>2, <1>4
<1> QED BY <1>1, <1>3, <1>5 DEF HasSlot

(* Every slot of the flushes so far is in the image.                       *)
LEMMA PooledGoes ==
  ASSUME NEW p, IsProgram(p), NEW r, NEW A, LaidOut(p, r, A), NEW a \in 1 .. Len(p) + 1,
         NEW c, Stands(r, A, a, c), NEW from, NEW im, Contig(im, from, c), Pooled(p, r, A, a, im),
         NEW c2, NEW im2, Emitted(p, r, a, c, im, c2, im2)
  PROVE  Pooled(p, r, A, a + 1, im2)
<1>1. PICK out : im2 = im \o out /\ Emits(p, r, a, c, c2, out) BY DEF Emitted
<1>2. Contig(out, c, c2) /\ KindEmits(p, r, a, c, c2, out) BY <1>1 DEF Emits
<1>3. im \in Seq(Range(im)) /\ out \in Seq(Range(out)) BY <1>2 DEF Contig
<1>4. Len(p) \in Nat BY ProgramFacts
<1>5. ASSUME NEW h \in 1 .. (a + 1) - 1, RecAt(p, h).k = "ltorg", HasPending(p, h),
             NEW i \in Range(r.flushes[A[h]].ids)
      PROVE  HasSlot(im2, r, r.flushes[A[h]].ids, A[h], i)
  <2>1. h \in 1 .. a - 1 \/ h = a BY <1>4
  <2>2. CASE h \in 1 .. a - 1
    <3>1. HasSlot(im, r, r.flushes[A[h]].ids, A[h], i) BY <1>5, <2>2 DEF Pooled
    <3>2. HasSlot(im \o out, r, r.flushes[A[h]].ids, A[h], i) BY <1>3, <3>1, SlotFirst
    <3> QED BY <1>1, <3>2
  <2>3. CASE h = a
    <3>1. K(p, a) = "ltorg" BY <1>5, <2>3, RecAtIs
    <3>2. Moved(RecAt(p, a), HasPending(p, a), r, A[a], A[a + 1]) BY LaidStep
    <3>3. A[a] \in DOMAIN r.flushes BY <1>5, <2>3, <3>2 DEF Moved
    <3>4. ~Early(r, A, a)
      <4>1. PICK d \in 1 .. a - 1 : RecAt(p, d).k = "ldr" BY <1>5, <2>3 DEF HasPending
      <4>2. d \in 1 .. Len(p) + 1 /\ d \in 1 .. Len(p) + 2 /\ a \in 1 .. Len(p) + 2 /\ d < a BY <1>4
      <4>3. Moved(RecAt(p, d), HasPending(p, d), r, A[d], A[d + 1]) BY <4>2, LaidStep
      <4>4. A[d + 1] = A[d] + 4 BY <4>1, <4>3 DEF Moved
      <4>5. A[d] \in Nat BY <4>2, LaidStep
      <4>6. A[d + 1] <= A[a] BY <4>2, LaidBefore
      <4> QED BY <4>4, <4>5, <4>6 DEF Early
    <3>5. c = A[a] BY <3>4 DEF Stands
    <3>6. HasSlot(out, r, r.flushes[c].ids, c, i) BY <1>2, <1>5, <2>3, <3>1, <3>3, <3>5 DEF KindEmits
    <3>7. HasSlot(im \o out, r, r.flushes[c].ids, c, i) BY <1>3, <3>6, SlotLast
    <3> QED BY <1>1, <2>3, <3>5, <3>7
  <2> QED BY <2>1, <2>2, <2>3
<1> QED BY <1>5 DEF Pooled

(* Every instruction so far has its word in the image.                     *)
LEMMA CodedGoes ==
  ASSUME NEW p, IsProgram(p), NEW r, NEW a \in 1 .. Len(p) + 1,
         NEW c, NEW from, NEW im, Contig(im, from, c), Coded(p, a, im),
         NEW c2, NEW im2, Emitted(p, r, a, c, im, c2, im2)
  PROVE  Coded(p, a + 1, im2)
<1>1. PICK out : im2 = im \o out /\ Emits(p, r, a, c, c2, out) BY DEF Emitted
<1>2. /\ Contig(out, c, c2) /\ KindEmits(p, r, a, c, c2, out)
      /\ \A s \in 1 .. Len(out) : out[s].rec = a
  BY <1>1 DEF Emits
<1>3. im \in Seq(Range(im)) /\ out \in Seq(Range(out)) BY <1>2 DEF Contig
<1>4. /\ Len(im) \in Nat /\ Len(out) \in Nat /\ Len(im2) = Len(im) + Len(out)
      /\ \A s \in 1 .. Len(im) : im2[s] = im[s]
      /\ \A s \in 1 .. Len(out) : im2[Len(im) + s] = out[s]
  BY <1>1, <1>3
<1>5. Len(p) \in Nat BY ProgramFacts
<1>6. ASSUME NEW h \in 1 .. (a + 1) - 1, RecAt(p, h).k \in {"inst", "ldr"}
      PROVE  \E s \in 1 .. Len(im2) : im2[s].k = "code" /\ im2[s].rec = h
  <2>1. h \in 1 .. a - 1 \/ h = a BY <1>5
  <2>2. CASE h \in 1 .. a - 1
    <3>1. PICK s \in 1 .. Len(im) : im[s].k = "code" /\ im[s].rec = h BY <1>6, <2>2 DEF Coded
    <3>2. s \in 1 .. Len(im2) /\ im2[s] = im[s] BY <1>4
    <3> QED BY <3>1, <3>2
  <2>3. CASE h = a
    <3>1. K(p, a) \in {"inst", "ldr"} BY <1>6, <2>3, RecAtIs
    <3>2. Len(out) = 1 /\ out[1].k = "code" BY <1>2, <3>1 DEF KindEmits
    <3>3. 1 \in 1 .. Len(out) BY <3>2
    <3>4. out[1].rec = a BY <1>2, <3>3
    <3>5. PICK t : t = Len(im) + 1 OBVIOUS
    <3>6. t \in 1 .. Len(im2) /\ im2[t] = out[1] BY <1>4, <3>3, <3>5
    <3> QED BY <2>3, <3>2, <3>4, <3>6
  <2> QED BY <2>1, <2>2, <2>3
<1> QED BY <1>6 DEF Coded

(* Pass 2 is in step with pass 1: where it stands, and what it has emitted. *)
Lock(p, r, A, a, c, im) ==
  Stands(r, A, a, c) /\ InPlace(r, A, a, im) /\ Pooled(p, r, A, a, im) /\ Coded(p, a, im)
Walked2(p, r, a, c, im) ==
  BackAhead(p, r.symbols, a) \/ \E A : LaidOut(p, r, A) /\ Lock(p, r, A, a, c, im)

(* Pass 2 starts where pass 1 said it would.                               *)
LEMMA LockStarts ==
  ASSUME NEW p, NamesOnce(p), NEW a, a = Len(p) + 1, NEW r, NEW c, NEW ids, Typed1(p, r, a, c, ids),
         Walked1(p, r, a, c, ids), NEW r2, MadeEnd(r, c, ids, r2)
  PROVE  Walked2(p, r2, 1, r2.origin, <<>>)
<1>1. BackAhead(p, r2.symbols, 1) \/ \E A : LaidOut(p, r2, A) BY WalkedEnds
<1>2. IsProgram(p) BY DEF Typed1
<1>3. ResOK(r2) BY EndIsTyped
<1>4. r2.origin \in Nat BY <1>3, ResFacts
<1>5. ASSUME NEW A, LaidOut(p, r2, A) PROVE Lock(p, r2, A, 1, r2.origin, <<>>)
  <2>1. A[1] = 0 BY <1>2, <1>5, LaidFacts
  <2>2. Stands(r2, A, 1, r2.origin) BY <1>4, <2>1 DEF Stands, Early
  <2>3. Len(<<>>) = 0 /\ 1 .. 0 = {} /\ 1 .. 1 - 1 = {} OBVIOUS
  <2>4. InPlace(r2, A, 1, <<>>) BY <2>3 DEF InPlace
  <2>5. Pooled(p, r2, A, 1, <<>>) /\ Coded(p, 1, <<>>) BY <2>3 DEF Pooled, Coded
  <2> QED BY <2>2, <2>4, <2>5 DEF Lock
<1> QED BY <1>1, <1>5 DEF Walked2

(* A step of pass 2 keeps it where pass 1 said it would be.                *)
LEMMA LockGoes ==
  ASSUME NEW p, NEW r, NEW a \in 1 .. Len(p) + 1, NEW c, NEW ids, NEW im, Typed2(p, r, a, c, ids, im),
         Walked2(p, r, a, c, im), NEW c2, NEW im2, Emitted(p, r, a, c, im, c2, im2)
  PROVE  Walked2(p, r, a + 1, c2, im2)
<1>1. IsProgram(p) /\ ResOK(r) /\ Contig(im, r.origin, c) BY DEF Typed2
<1>2. Len(p) \in Nat BY <1>1, ProgramFacts
<1>3. PICK out : im2 = im \o out /\ Emits(p, r, a, c, c2, out) BY DEF Emitted
<1>4. Contig(out, c, c2) /\ KindEmits(p, r, a, c, c2, out) BY <1>3 DEF Emits
<1>5. c \in Int /\ c2 \in Int /\ c <= c2 BY <1>4 DEF Contig
<1>6. CASE BackAhead(p, r.symbols, a)
  <2>1. PICK i \in 1 .. Len(p) : i >= a /\ Back(p, r.symbols, i) BY <1>6 DEF BackAhead
  <2>2. i # a
    <3>1. SUFFICES ASSUME i = a PROVE FALSE OBVIOUS
    <3>2. PICK e, sy, ld : e = p[a].e /\ sy = r.symbols /\ ld = r.localDefs OBVIOUS
    <3>3. RecAt(p, a) = p[a] BY <3>1 DEF RecAt
    <3>4. p[a].k = "skip" /\ e.op \in {"int", "sym"} BY <2>1, <3>1, <3>2, <3>3 DEF Back, BackAt
    <3>5. PICK m \in Eval(e, 0, sy, <<>>) : m < 0 BY <2>1, <3>1, <3>2, <3>3 DEF Back, BackAt
    <3>6. IsExpr(e)
      <4>1. IsRecord(p[a]) BY <1>1, <3>1, ProgramFacts
      <4> QED BY <3>2, <4>1 DEF IsRecord
    <3>7. K(p, a) = "skip" BY <3>1, <3>4 DEF K
    <3>8. PICK n \in Means(r, e, c) : c2 = c + n BY <1>4, <3>2, <3>7 DEF KindEmits
    <3>9. Eval(e, 0, sy, <<>>) = Eval(e, c, sy, <<>>) BY <3>4, SameFrom
    <3>10. m \in Eval(e, c, r.symbols, <<>>) BY <3>2, <3>5, <3>9
    <3>11. n = m BY <1>1, <1>5, <3>6, <3>8, <3>10, MeansSame
    <3>12. m \in Int
      <4>1. SymbolsOK(sy) BY <1>1, <3>2, ResFacts
      <4>2. PICK none : none = <<>> OBVIOUS
      <4>3. none \in Seq(Int) BY <4>2
      <4>4. m \in Eval(e, c, sy, none) BY <3>2, <3>10, <4>2
      <4> QED BY <1>5, <3>6, <4>1, <4>3, <4>4, EvalSingle
    <3> QED BY <1>5, <3>5, <3>8, <3>11, <3>12
  <2>3. i >= a + 1 BY <1>2, <2>1, <2>2
  <2> QED BY <2>1, <2>3 DEF Walked2, BackAhead
<1>7. ASSUME NEW A, LaidOut(p, r, A), Lock(p, r, A, a, c, im) PROVE Lock(p, r, A, a + 1, c2, im2)
  <2>1. Stands(r, A, a, c) /\ InPlace(r, A, a, im) /\ Pooled(p, r, A, a, im) /\ Coded(p, a, im)
    BY <1>7 DEF Lock
  <2>2. Stands(r, A, a + 1, c2) BY <1>1, <1>4, <1>5, <1>7, <2>1, StandsGoes
  <2>3. InPlace(r, A, a + 1, im2) BY <1>1, <1>5, <1>7, <2>1, InPlaceGoes
  <2>4. Pooled(p, r, A, a + 1, im2) BY <1>1, <1>7, <2>1, PooledGoes
  <2>5. Coded(p, a + 1, im2) BY <1>1, <2>1, CodedGoes
  <2> QED BY <2>2, <2>3, <2>4, <2>5 DEF Lock
<1> QED BY <1>6, <1>7 DEF Walked2

-----------------------------------------------------------------------------
(* The steps of the assembler, by what they make.                          *)
Begins ==
  /\ stage \in {"source", "flatten"} /\ stage' = "pass1"
  /\ at' = 1 /\ pc' = 0 /\ res' = EmptyResult /\ pending' = <<>> /\ UNCHANGED <<opts, relaid>>
Ends1 ==
  /\ stage = "pass1" /\ stage' = "pass2" /\ at = Len(prog) + 1 /\ at' = 1
  /\ MadeEnd(res, pc, pending, res') /\ pending' = <<>> /\ pc' = res'.origin /\ image' = <<>>
  /\ UNCHANGED <<prog, opts, relaid>>
Emits2 ==
  /\ stage = "pass2" /\ Emitted(prog, res, at, pc, image, pc', image') /\ at' = at + 1
  /\ \/ stage' = "pass2" /\ at \in 1 .. Len(prog)
     \/ stage' = "errata" /\ at = Len(prog) + 1
  /\ UNCHANGED <<prog, opts, res, pending, relaid>>
Reads == stage = "source" /\ stage' \in {"source", "flatten"} /\ UNCHANGED <<opts, relaid>>
Quiet == Gone \/ Reads
Walks1 == stage = "pass1" /\ WalkedOn

(* The steps of an assembly, by what they do to the two passes.            *)
LEMMA StepCases ==
  ASSUME WellFormed, Next
  PROVE  Quiet \/ Begins \/ Walks1 \/ Ends1 \/ Emits2 \/ fixErratum835769 \/ fixErratum843419
<1>1. CASE ReadLine
  <2>1. stage = "source" BY <1>1 DEF ReadLine
  <2>2. CASE Stop BY <2>2 DEF Stop, Quiet, Gone
  <2>3. CASE ~Stop
    <3>1. UNCHANGED <<stage, relaid, opts>> BY <1>1, <2>3 DEF ReadLine
    <3>2. Reads BY <2>1, <3>1 DEF Reads
    <3> QED BY <3>2 DEF Quiet
  <2> QED BY <2>2, <2>3
<1>2. CASE Read
  <2>1. stage = "source" /\ UNCHANGED <<at, pc, res, pending, image, relaid>> BY <1>2 DEF Read
  <2>2. Fresh BY <2>1 DEF WellFormed
  <2>3. CASE Stop BY <2>3 DEF Stop, Quiet, Gone
  <2>4. CASE ~Stop
    <3>1. opts' = opts /\ stage' = IF opts.layout = <<>> THEN "pass1" ELSE "flatten"
      BY <1>2, <2>4 DEF Read, given
    <3>2. at' = 1 /\ pc' = 0 /\ res' = EmptyResult /\ pending' = <<>> /\ relaid' = relaid
      BY <2>1, <2>2 DEF Fresh
    <3>3. CASE opts.layout = <<>>
      <4>1. Begins BY <2>1, <3>1, <3>2, <3>3 DEF Begins
      <4> QED BY <4>1
    <3>4. CASE opts.layout # <<>>
      <4>1. Reads BY <2>1, <3>1, <3>2, <3>4 DEF Reads
      <4> QED BY <4>1 DEF Quiet
    <3> QED BY <3>3, <3>4
  <2> QED BY <2>3, <2>4
<1>3. CASE LayOut
  <2>1. stage = "flatten" /\ UNCHANGED <<at, pc, res, pending, image, relaid>> BY <1>3 DEF LayOut
  <2>2. Fresh BY <2>1 DEF WellFormed
  <2>3. CASE Stop BY <2>3 DEF Stop, Quiet, Gone
  <2>4. CASE ~Stop
    <3>1. opts' = opts /\ stage' = "pass1" BY <1>3, <2>4 DEF LayOut, given
    <3>2. at' = 1 /\ pc' = 0 /\ res' = EmptyResult /\ pending' = <<>> /\ relaid' = relaid
      BY <2>1, <2>2 DEF Fresh
    <3>3. Begins BY <2>1, <3>1, <3>2 DEF Begins
    <3> QED BY <3>3
  <2> QED BY <2>3, <2>4
<1>4. CASE Walk1
  <2>1. stage = "pass1" BY <1>4 DEF Walk1, LabelDef1, LocalDef1, Inst1, LdrLiteral1, Set1, Ltorg1, Org1, Directive1, In
  <2>2. Typed1(prog, res, at, pc, pending) BY <2>1 DEF WellFormed
  <2>3. Gone \/ WalkedOn BY <1>4, <2>1, <2>2, Walk1Makes
  <2> QED BY <2>1, <2>3 DEF Quiet, Walks1
<1>5. CASE Pass1Done
  <2>1. stage = "pass1" BY <1>5 DEF Pass1Done
  <2>2. Typed1(prog, res, at, pc, pending) BY <2>1 DEF WellFormed
  <2>3. ResOK(res) BY <2>2 DEF Typed1
  <2>4. /\ MadeEnd(res, pc, pending, res') /\ pending' = <<>> /\ stage' = "pass2" /\ at = Len(prog) + 1
        /\ at' = 1 /\ pc' = res'.origin /\ image' = <<>> /\ UNCHANGED <<prog, opts, relaid>>
    BY <1>5, <2>3, Pass1Ends DEF given
  <2> QED BY <2>1, <2>4 DEF Ends1
<1>6. CASE Walk2
  <2>1. stage = "pass2"
    BY <1>6 DEF Walk2, Skip2, encodeInst, encodeLdrLitPoolInst, EmitData, EmitAlign, EmitSkip, EmitOrg, Ltorg2, In
  <2>2. Typed2(prog, res, at, pc, pending, image) /\ at \in 1 .. Len(prog) + 1 BY <2>1 DEF WellFormed
  <2>3. Gone \/ EmittedOn("pass2") BY <1>6, <2>1, <2>2, Walk2Emits
  <2>4. at <= Len(prog)
    BY <1>6 DEF Walk2, Skip2, encodeInst, encodeLdrLitPoolInst, EmitData, EmitAlign, EmitSkip, EmitOrg, Ltorg2, In
  <2>5. IsProgram(prog) BY <2>2 DEF Typed2
  <2>6. Len(prog) \in Nat BY <2>5, ProgramFacts
  <2>7. at \in 1 .. Len(prog) BY <2>2, <2>4, <2>6
  <2>8. CASE Gone BY <2>8 DEF Quiet
  <2>9. CASE EmittedOn("pass2") BY <2>1, <2>7, <2>9 DEF EmittedOn, Emits2, given
  <2> QED BY <2>3, <2>8, <2>9
<1>7. CASE Pass2Done
  <2>1. stage = "pass2" /\ at = Len(prog) + 1 BY <1>7 DEF Pass2Done
  <2>2. Typed2(prog, res, at, pc, pending, image) BY <2>1 DEF WellFormed
  <2>3. Gone \/ EmittedOn("errata") BY <1>7, <2>2, Pass2Ends
  <2>4. CASE Gone BY <2>4 DEF Quiet
  <2>5. CASE EmittedOn("errata") BY <2>1, <2>5 DEF EmittedOn, Emits2, given
  <2> QED BY <2>3, <2>4, <2>5
<1> QED BY <1>1, <1>2, <1>3, <1>4, <1>5, <1>6, <1>7 DEF Next, Pass1, Pass2, Walk1, Walk2

(* Both passes take the source the same way.                               *)
InStep ==
  NamesOnce(prog) =>
    /\ stage = "pass1" => Walked1(prog, res, at, pc, pending)
    /\ stage \in {"pass2", "errata"} => Walked2(prog, res, at, pc, image)

(* No step takes the passes out of step.                                   *)
LEMMA StepInStep == ASSUME WellFormed, InStep, Next PROVE InStep'
<1>1. CASE Quiet BY <1>1 DEF Quiet, Gone, Reads, InStep
<1>2. CASE Begins
  <2>1. stage' = "pass1" /\ at' = 1 /\ pc' = 0 /\ res' = EmptyResult /\ pending' = <<>> BY <1>2 DEF Begins
  <2>2. Walked1(prog', EmptyResult, 1, 0, <<>>) BY LaidStarts
  <2> QED BY <2>1, <2>2 DEF InStep
<1>3. CASE Walks1
  <2>1. /\ at \in 1 .. Len(prog) /\ Made(Here, res, pc, pending, res', pc', pending')
        /\ at' = at + 1 /\ stage = "pass1" /\ stage' = "pass1" /\ prog' = prog
    BY <1>3 DEF Walks1, WalkedOn
  <2>2. Typed1(prog, res, at, pc, pending) BY <2>1 DEF WellFormed
  <2>3. ASSUME NamesOnce(prog) PROVE Walked1(prog, res', at + 1, pc', pending')
    <3>1. Walked1(prog, res, at, pc, pending) BY <2>1, <2>3 DEF InStep
    <3>2. Made(prog[at], res, pc, pending, res', pc', pending') BY <2>1 DEF Here
    <3> QED BY <2>1, <2>2, <2>3, <3>1, <3>2, WalkedMakes
  <2> QED BY <2>1, <2>3 DEF InStep
<1>4. CASE Ends1
  <2>1. /\ stage = "pass1" /\ stage' = "pass2" /\ at = Len(prog) + 1 /\ at' = 1
        /\ MadeEnd(res, pc, pending, res') /\ pc' = res'.origin /\ image' = <<>> /\ prog' = prog
    BY <1>4 DEF Ends1
  <2>2. Typed1(prog, res, at, pc, pending) BY <2>1 DEF WellFormed
  <2>3. ASSUME NamesOnce(prog) PROVE Walked2(prog, res', 1, res'.origin, <<>>)
    <3>1. Walked1(prog, res, at, pc, pending) BY <2>1, <2>3 DEF InStep
    <3> QED BY <2>1, <2>2, <2>3, <3>1, LockStarts
  <2> QED BY <2>1, <2>3 DEF InStep
<1>5. CASE Emits2
  <2>1. /\ stage = "pass2" /\ Emitted(prog, res, at, pc, image, pc', image') /\ at' = at + 1
        /\ stage' \in {"pass2", "errata"} /\ prog' = prog /\ res' = res
    BY <1>5 DEF Emits2
  <2>2. Typed2(prog, res, at, pc, pending, image) /\ at \in 1 .. Len(prog) + 1 BY <2>1 DEF WellFormed
  <2>3. ASSUME NamesOnce(prog) PROVE Walked2(prog, res, at + 1, pc', image')
    <3>1. Walked2(prog, res, at, pc, image) BY <2>1, <2>3 DEF InStep
    <3> QED BY <2>1, <2>2, <3>1, LockGoes
  <2> QED BY <2>1, <2>3 DEF InStep
<1>6. CASE fixErratum835769
  <2>1. stage = "errata" /\ stage' = "pass1" /\ at' = 1 /\ pc' = 0 /\ res' = EmptyResult /\ pending' = pending
    BY <1>6 DEF fixErratum835769
  <2>2. Typed2(prog, res, at, pc, pending, image) BY <2>1 DEF WellFormed
  <2>3. pending = <<>> BY <2>2 DEF Typed2
  <2>4. Walked1(prog', EmptyResult, 1, 0, <<>>) BY LaidStarts
  <2> QED BY <2>1, <2>3, <2>4 DEF InStep
<1>7. CASE fixErratum843419
  <2>1. stage' = "done" BY <1>7 DEF fixErratum843419
  <2> QED BY <2>1 DEF InStep
<1> QED BY <1>1, <1>2, <1>3, <1>4, <1>5, <1>6, <1>7, StepCases

(* Whatever is assembled, pass 2 is where pass 1 said it would be, unless a *)
(* name is given twice.                                                    *)
THEOREM AssemblerInStep == Spec => []InStep
<1>1. Init => InStep
  <2> SUFFICES ASSUME Init PROVE InStep OBVIOUS
  <2>1. at = 1 /\ pc = 0 /\ res = EmptyResult /\ pending = <<>> /\ stage \in {"pass1", "source"} BY DEF Init
  <2>2. Walked1(prog, EmptyResult, 1, 0, <<>>) BY LaidStarts
  <2> QED BY <2>1, <2>2 DEF InStep
<1>2. ASSUME InStep, UNCHANGED vars PROVE InStep'
  <2>1. UNCHANGED <<stage, prog, res, at, pc, pending, image>> BY <1>2 DEF vars
  <2> QED BY <1>2, <2>1 DEF InStep
<1>3. WellFormed /\ InStep /\ [Next]_vars => InStep' BY <1>2, StepInStep
<1> QED BY <1>1, <1>3, AssemblerWellFormed, PTL DEF Spec

(* What is known of the image where the errata are looked for.             *)
Settled(p, r, A, im) ==
  LaidOut(p, r, A) /\ Lock(p, r, A, Len(p) + 2, r.total, im) /\ ~Early(r, A, Len(p) + 2)

(* Where the errata are looked for, the image is laid out as pass 1 said.  *)
LEMMA ErrataSettled ==
  ASSUME WellFormed, InStep, stage = "errata", NamesOnce(prog)
  PROVE  pc = res.total /\ \E A : Settled(prog, res, A, image)
<1>1. Typed2(prog, res, at, pc, pending, image) /\ at = Len(prog) + 2 BY DEF WellFormed
<1>2. IsProgram(prog) /\ ResOK(res) BY <1>1 DEF Typed2
<1>3. Len(prog) \in Nat BY <1>2, ProgramFacts
<1>4. Walked2(prog, res, at, pc, image) BY DEF InStep
<1>5. ~BackAhead(prog, res.symbols, at) BY <1>1, <1>3 DEF BackAhead
<1>6. PICK A : LaidOut(prog, res, A) /\ Lock(prog, res, A, at, pc, image) BY <1>4, <1>5 DEF Walked2
<1>7. A[at] = res.total BY <1>1, <1>2, <1>6, LaidFacts
<1>8. ~Early(res, A, at)
  <2>1. SUFFICES ASSUME Early(res, A, at) PROVE FALSE OBVIOUS
  <2>2. res.origin # 0 /\ A[at] = 0 BY <2>1 DEF Early
  <2>3. Originates(prog, res, A, Len(prog) + 2) BY <1>6 DEF LaidOut, Laid
  <2>4. PICK o \in 1 .. (Len(prog) + 2) - 1 : A[o + 1] = res.origin BY <2>2, <2>3 DEF Originates
  <2>5. o \in 1 .. Len(prog) + 2 /\ at \in 1 .. Len(prog) + 2 /\ o < at /\ o \in 1 .. Len(prog) + 1 BY <1>1, <1>3
  <2>6. A[o + 1] <= A[at] BY <1>2, <1>6, <2>5, LaidBefore
  <2>7. A[o + 1] \in Nat BY <1>2, <1>6, <2>5, LaidStep
  <2> QED BY <2>2, <2>4, <2>6, <2>7
<1>9. pc = res.total BY <1>6, <1>7, <1>8 DEF Lock, Stands
<1>10. Settled(prog, res, A, image) BY <1>1, <1>6, <1>8, <1>9 DEF Settled
<1> QED BY <1>9, <1>10

-----------------------------------------------------------------------------
(* What the last step leaves of the image it finds: all but some opcodes.  *)
SameBut(im, im2) ==
  /\ Len(im2) = Len(im) /\ DOMAIN im2 = DOMAIN im
  /\ \A s \in DOMAIN im : /\ im2[s].k = im[s].k /\ im2[s].pc = im[s].pc /\ im2[s].len = im[s].len
                          /\ im2[s].rec = im[s].rec /\ im2[s].val = im[s].val

(* The last step changes opcodes only.                                     *)
LEMMA FixKeeps ==
  ASSUME Typed2(prog, res, at, pc, pending, image), fixErratum843419
  PROVE  SameBut(image, image')
<1>1. Contig(image, res.origin, pc) BY DEF Typed2
<1>2. /\ image \in Seq(Range(image)) /\ Len(image) \in Nat
      /\ \A s \in 1 .. Len(image) : IsChunk(image[s])
  BY <1>1 DEF Contig
<1>3. DOMAIN image = 1 .. Len(image) BY <1>2
<1>4. PICK fixed : fixed = [c \in DOMAIN image |-> IF image[c].k = "code" /\ image[c].pc \in Hit
                              THEN [image[c] EXCEPT !.n = "adr"] ELSE image[c]]
  OBVIOUS
<1>5. image' = image \/ image' = fixed BY <1>4 DEF fixErratum843419, Hit
<1>6. CASE image' = image BY <1>6 DEF SameBut
<1>7. CASE image' = fixed
  <2>1. DOMAIN fixed = 1 .. Len(image) BY <1>3, <1>4
  <2>2. fixed \in [1 .. Len(image) -> Range(fixed)] BY <1>3, <1>4 DEF Range
  <2>3. Len(fixed) = Len(image) BY <1>2, <2>2
  <2>4. ASSUME NEW s \in DOMAIN image
        PROVE  /\ fixed[s].k = image[s].k /\ fixed[s].pc = image[s].pc /\ fixed[s].len = image[s].len
               /\ fixed[s].rec = image[s].rec /\ fixed[s].val = image[s].val
    <3>1. PICK x : x = image[s] OBVIOUS
    <3>2. x = [k |-> x.k, n |-> x.n, pc |-> x.pc, len |-> x.len, rec |-> x.rec, val |-> x.val]
      BY <1>2, <1>3, <3>1 DEF IsChunk
    <3>3. PICK y : y = [x EXCEPT !.n = "adr"] OBVIOUS
    <3>4. y.k = x.k /\ y.pc = x.pc /\ y.len = x.len /\ y.rec = x.rec /\ y.val = x.val BY <3>2, <3>3
    <3>5. fixed[s] = x \/ fixed[s] = y BY <1>4, <3>1, <3>3
    <3> QED BY <3>1, <3>4, <3>5
  <2> QED BY <1>3, <1>7, <2>1, <2>3, <2>4 DEF SameBut
<1> QED BY <1>5, <1>6, <1>7

(* The records divide the image as pass 1 said.                            *)
Divides(p, r, im, i, s) ==
  /\ im[s].rec >= i => im[s].pc >= r.recordPC[i]
  /\ im[s].rec < i /\ r.recordPC[i] >= r.origin => im[s].pc + im[s].len <= r.recordPC[i]

(* The address of a record divides the image as the record divides the     *)
(* source.                                                                 *)
LEMMA RecordsDivide ==
  ASSUME NEW p, NEW r, NEW c, NEW im, Typed2(p, r, Len(p) + 2, c, <<>>, im), NEW A, Settled(p, r, A, im),
         NEW i \in 1 .. Len(p), NEW s \in 1 .. Len(im)
  PROVE  Divides(p, r, im, i, s)
<1>1. IsProgram(p) /\ ResOK(r) /\ Contig(im, r.origin, c) /\ im[s].rec \in 1 .. Len(p) + 1 /\ Len(r.recordPC) = Len(p)
  BY DEF Typed2
<1>2. LaidOut(p, r, A) /\ InPlace(r, A, Len(p) + 2, im) /\ ~Early(r, A, Len(p) + 2) BY DEF Settled, Lock
<1>3. Len(p) \in Nat BY <1>1, ProgramFacts
<1>4. r.recordPC[i] = A[i]
  <2>1. AsNoted(r, A, Len(p) + 2) BY <1>2 DEF LaidOut, Laid
  <2>2. i \in 1 .. Len(p) + 2 /\ i \in 1 .. Len(r.recordPC) BY <1>1, <1>3
  <2> QED BY <2>1, <2>2 DEF AsNoted
<1>5. PICK h, x : h = im[s].rec /\ x = im[s] OBVIOUS
<1>6. h \in 1 .. Len(p) + 1 /\ h \in 1 .. Len(p) + 2 /\ i \in 1 .. Len(p) + 1 /\ i \in 1 .. Len(p) + 2
  BY <1>1, <1>3, <1>5
<1>7. A[i] \in Nat /\ A[h] \in Nat /\ A[h + 1] \in Nat
  <2>1. A[i] \in Nat BY <1>1, <1>2, <1>6, LaidStep
  <2>2. A[h] \in Nat BY <1>1, <1>2, <1>6, LaidStep
  <2>3. A[h + 1] \in Nat BY <1>1, <1>2, <1>6, LaidStep
  <2> QED BY <2>1, <2>2, <2>3
<1>8. r.origin \in Nat BY <1>1, ResFacts
<1>9. r.origin <= x.pc /\ x.pc \in Int /\ x.len \in Nat BY <1>1, <1>5 DEF Contig, IsChunk
<1>10. IF Early(r, A, h) THEN x.pc + x.len <= r.origin ELSE A[h] <= x.pc /\ x.pc + x.len <= A[h + 1]
  BY <1>2, <1>5 DEF InPlace
<1>11. ASSUME h >= i PROVE x.pc >= A[i]
  <2>1. A[i] <= A[h]
    <3>1. CASE i = h BY <1>7, <3>1
    <3>2. CASE i < h BY <1>1, <1>2, <1>6, <3>2, LaidBefore
    <3> QED BY <1>6, <1>11, <3>1, <3>2
  <2>2. CASE Early(r, A, h)
    <3>1. A[i] = 0 BY <1>7, <2>1, <2>2 DEF Early
    <3> QED BY <1>8, <1>9, <3>1
  <2>3. CASE ~Early(r, A, h) BY <1>7, <1>9, <1>10, <2>1, <2>3
  <2> QED BY <2>2, <2>3
<1>12. ASSUME h < i, A[i] >= r.origin PROVE x.pc + x.len <= A[i]
  <2>1. CASE Early(r, A, h) BY <1>7, <1>8, <1>9, <1>10, <1>12, <2>1
  <2>2. CASE ~Early(r, A, h)
    <3>1. A[h + 1] <= A[i] BY <1>1, <1>2, <1>6, <1>12, LaidBefore
    <3> QED BY <1>7, <1>9, <1>10, <2>2, <3>1
  <2> QED BY <2>1, <2>2
<1> QED BY <1>4, <1>5, <1>11, <1>12 DEF Divides

(* The layout agrees when the assembly ends.                               *)
LEMMA FixLeavesAgreed ==
  ASSUME WellFormed, InStep, stage = "errata", fixErratum843419
  PROVE  LayoutAgrees'
<1>1. stage' = "done" /\ prog' = prog /\ res' = res /\ pc' = pc BY DEF fixErratum843419
<1>2. Typed2(prog, res, at, pc, pending, image) /\ at = Len(prog) + 2 BY DEF WellFormed
<1>3. IsProgram(prog) /\ Contig(image, res.origin, pc) /\ pending = <<>> BY <1>2 DEF Typed2
<1>4. DOMAIN prog = 1 .. Len(prog) BY <1>3, ProgramFacts
<1>5. DOMAIN image = 1 .. Len(image) /\ Len(image) \in Nat
      /\ \A c \in 1 .. Len(image) : image[c].pc = IF c = 1 THEN res.origin ELSE image[c - 1].pc + image[c - 1].len
  BY <1>3 DEF Contig
<1>6. PICK im2 : im2 = image' OBVIOUS
<1>7. SameBut(image, im2) BY <1>2, <1>6, FixKeeps
<1>8. Typed2(prog, res, Len(prog) + 2, pc, <<>>, image) BY <1>2, <1>3
<1>9. ASSUME NamesOnce(prog)
      PROVE  /\ pc = res.total
             /\ \A c \in DOMAIN im2 : im2[c].pc = IF c = 1 THEN res.origin ELSE im2[c - 1].pc + im2[c - 1].len
             /\ \A i \in DOMAIN prog, c \in DOMAIN im2 :
                  /\ im2[c].rec >= i => im2[c].pc >= res.recordPC[i]
                  /\ im2[c].rec < i /\ res.recordPC[i] >= res.origin => im2[c].pc + im2[c].len <= res.recordPC[i]
  <2>1. PICK A : pc = res.total /\ Settled(prog, res, A, image) BY <1>9, ErrataSettled
  <2>2. ASSUME NEW c \in DOMAIN im2
        PROVE  im2[c].pc = IF c = 1 THEN res.origin ELSE im2[c - 1].pc + im2[c - 1].len
    <3>1. c \in 1 .. Len(image) /\ im2[c].pc = image[c].pc BY <1>5, <1>7, <2>2 DEF SameBut
    <3>2. CASE c = 1 BY <1>5, <3>1, <3>2
    <3>3. CASE c # 1
      <4>1. c - 1 \in 1 .. Len(image) BY <1>5, <3>1, <3>3
      <4>2. im2[c - 1].pc = image[c - 1].pc /\ im2[c - 1].len = image[c - 1].len BY <1>5, <1>7, <4>1 DEF SameBut
      <4> QED BY <1>5, <3>1, <3>3, <4>2
    <3> QED BY <3>2, <3>3
  <2>3. ASSUME NEW i \in DOMAIN prog, NEW c \in DOMAIN im2
        PROVE  /\ im2[c].rec >= i => im2[c].pc >= res.recordPC[i]
               /\ im2[c].rec < i /\ res.recordPC[i] >= res.origin => im2[c].pc + im2[c].len <= res.recordPC[i]
    <3>1. i \in 1 .. Len(prog) /\ c \in 1 .. Len(image) BY <1>4, <1>5, <1>7, <2>3 DEF SameBut
    <3>2. Divides(prog, res, image, i, c) BY <1>8, <2>1, <3>1, RecordsDivide
    <3>3. im2[c].pc = image[c].pc /\ im2[c].len = image[c].len /\ im2[c].rec = image[c].rec
      BY <1>5, <1>7, <3>1 DEF SameBut
    <3> QED BY <3>2, <3>3 DEF Divides
  <2> QED BY <2>1, <2>2, <2>3
<1>10. stage' # "mismatch" BY <1>1
<1> QED BY <1>1, <1>6, <1>9, <1>10 DEF LayoutAgrees, Done

(* What pass 1 says of the layout is what pass 2 emits: nothing is below   *)
(* its address or above the next one, and no pool comes out otherwise than *)
(* it was planned.                                                         *)
THEOREM AssemblerLayoutAgrees == Spec => []LayoutAgrees
<1>1. Init => LayoutAgrees
  <2> SUFFICES ASSUME Init PROVE LayoutAgrees OBVIOUS
  <2>1. stage = "pass1" \/ stage = "source" BY DEF Init
  <2> QED BY <2>1 DEF LayoutAgrees, Done
<1>2. ASSUME WellFormed, InStep, LayoutAgrees, [Next]_vars, WellFormed' PROVE LayoutAgrees'
  <2>1. stage' # "mismatch" BY <1>2 DEF WellFormed
  <2>2. CASE Next
    <3>1. CASE stage' = "done"
      <4>1. stage = "errata" /\ fixErratum843419 BY <1>2, <2>2, <3>1, OnlyFixIsDone
      <4> QED BY <1>2, <4>1, FixLeavesAgreed
    <3>2. CASE stage' # "done" BY <2>1, <3>2 DEF LayoutAgrees, Done
    <3> QED BY <3>1, <3>2
  <2>3. CASE UNCHANGED vars
    <3>1. UNCHANGED <<stage, prog, res, pc, image>> BY <2>3 DEF vars
    <3> QED BY <1>2, <3>1 DEF LayoutAgrees, Done
  <2> QED BY <1>2, <2>2, <2>3
<1> QED BY <1>1, <1>2, AssemblerWellFormed, AssemblerInStep, PTL DEF Spec

-----------------------------------------------------------------------------
(* An instruction or a datum stands at the address of its record, and the  *)
(* next one further on.                                                    *)
StandsAt(A, x) == x.pc = A[x.rec] /\ A[x.rec] \in Nat /\ A[x.rec + 1] \in Nat /\ A[x.rec] < A[x.rec + 1]

(* An instruction or a datum stands at the address of its record.          *)
LEMMA WordStands ==
  ASSUME NEW p, NEW r, NEW c, NEW im, Typed2(p, r, Len(p) + 2, c, <<>>, im), NEW A, Settled(p, r, A, im),
         NEW s \in 1 .. Len(im), im[s].k \in {"code", "data"}, im[s].len # 0
  PROVE  im[s].rec \in 1 .. Len(p) /\ StandsAt(A, im[s])
<1>1. /\ IsProgram(p) /\ ResOK(r) /\ Contig(im, r.origin, c) /\ ChunkOK(p, r, im[s])
  BY DEF Typed2
<1>2. LaidOut(p, r, A) /\ InPlace(r, A, Len(p) + 2, im) BY DEF Settled, Lock
<1>3. Len(p) \in Nat BY <1>1, ProgramFacts
<1>4. PICK h, x : h = im[s].rec /\ x = im[s] OBVIOUS
<1>5. /\ h \in 1 .. Len(p)
      /\ \/ p[h].k \in {"inst", "ldr"} /\ x.len = 4
         \/ p[h].k = "data" /\ x.len = p[h].w
  BY <1>1, <1>4 DEF ChunkOK
<1>6. h \in 1 .. Len(p) + 1 BY <1>3, <1>5
<1>7. Moved(RecAt(p, h), HasPending(p, h), r, A[h], A[h + 1]) BY <1>1, <1>2, <1>6, LaidStep
<1>8. A[h] \in Nat /\ A[h + 1] \in Nat BY <1>1, <1>2, <1>6, LaidStep
<1>9. RecAt(p, h) = p[h] BY <1>5 DEF RecAt
<1>10. A[h + 1] = A[h] + x.len BY <1>5, <1>7, <1>9 DEF Moved
<1>11. x.pc \in Int /\ x.len \in Nat /\ x.len # 0 BY <1>1, <1>4 DEF Contig, IsChunk
<1>12. ~Early(r, A, h)
  <2>1. SUFFICES ASSUME Early(r, A, h) PROVE FALSE OBVIOUS
  <2>2. A[h + 1] # 0 BY <1>8, <1>10, <1>11
  <2>3. RecAt(p, h).k = "org" BY <1>1, <1>2, <1>6, <2>1, <2>2, EarlyEnds
  <2> QED BY <1>5, <1>9, <2>3
<1>13. A[h] <= x.pc /\ x.pc + x.len <= A[h + 1] BY <1>2, <1>4, <1>12 DEF InPlace
<1>14. x.pc = A[h] /\ A[h] < A[h + 1] BY <1>8, <1>10, <1>11, <1>13
<1> QED BY <1>4, <1>5, <1>8, <1>14 DEF StandsAt

(* The local labels of the source, and where they were found.              *)
LEMMA LocalsAre ==
  ASSUME NEW p, IsProgram(p), NEW r, NEW A, LaidOut(p, r, A)
  PROVE  /\ \E pos : Lists(r.localDefs, A, Locals(p, Len(p) + 2), pos)
         /\ \A i : i \in Locals(p, Len(p) + 2) <=> (i \in 1 .. Len(p) /\ p[i].k = "local")
<1>1. LocalsListed(p, r, A, Len(p) + 2) BY DEF LaidOut, Laid
<1>2. Len(p) \in Nat BY ProgramFacts
<1>3. EndRecord.k = "ltorg" BY DEF EndRecord, Record
<1>4. ASSUME NEW i, i \in Locals(p, Len(p) + 2) PROVE i \in 1 .. Len(p) /\ p[i].k = "local"
  <2>1. i \in 1 .. (Len(p) + 2) - 1 /\ RecAt(p, i).k = "local" BY <1>4 DEF Locals
  <2>2. i \in 1 .. Len(p) BY <1>3, <2>1 DEF RecAt
  <2> QED BY <2>1, <2>2 DEF RecAt
<1>5. ASSUME NEW i, i \in 1 .. Len(p), p[i].k = "local" PROVE i \in Locals(p, Len(p) + 2)
  <2>1. RecAt(p, i).k = "local" BY <1>5 DEF RecAt
  <2>2. i \in 1 .. (Len(p) + 2) - 1 BY <1>2, <1>5
  <2> QED BY <2>1, <2>2 DEF Locals
<1> QED BY <1>1, <1>4, <1>5 DEF LocalsListed

(* The nearest local label in the source, in one direction.                *)
NearIn(p, h, dir, i) ==
  /\ i \in 1 .. Len(p) /\ p[i].k = "local"
  /\ IF dir = "f" THEN h < i /\ \A j \in h + 1 .. i - 1 : p[j].k # "local"
     ELSE i < h /\ \A j \in i + 1 .. h - 1 : p[j].k # "local"

NearFound(p, h, dir, A, v) == \E i : NearIn(p, h, dir, i) /\ v = A[i]

(* Looking a numeric label up by address finds the nearest in the source.  *)
LEMMA AddressFinds ==
  ASSUME NEW p, IsProgram(p), NEW r, ResOK(r), NEW A, LaidOut(p, r, A), NEW h \in 1 .. Len(p),
         p[h].k # "local", A[h] \in Nat, A[h + 1] \in Nat, A[h] < A[h + 1],
         NEW dir, NEW v, v \in LocalLabel(dir, A[h], r.localDefs)
  PROVE  NearFound(p, h, dir, A, v)
<1>1. PICK S : S = Locals(p, Len(p) + 2) OBVIOUS
<1>2. \A i : i \in S <=> (i \in 1 .. Len(p) /\ p[i].k = "local") BY <1>1, LocalsAre
<1>3. PICK defs, from : defs = r.localDefs /\ from = A[h] OBVIOUS
<1>4. PICK pos : Lists(defs, A, S, pos)
  <2>1. \E pos : Lists(r.localDefs, A, Locals(p, Len(p) + 2), pos) BY LocalsAre
  <2> QED BY <1>1, <1>3, <2>1
<1>5. /\ \A j \in 1 .. Len(defs) : pos[j] \in S /\ defs[j] = A[pos[j]]
      /\ \A i, j \in 1 .. Len(defs) : i < j => pos[i] < pos[j]
      /\ \A i \in S : \E j \in 1 .. Len(defs) : pos[j] = i
  BY <1>4 DEF Lists
<1>6. Len(p) \in Nat BY ProgramFacts
<1>7. defs \in Seq(Int) /\ from \in Int /\ v \in LocalLabel(dir, from, defs) BY <1>3, ResFacts
<1>8. Len(defs) \in Nat BY <1>7
<1>9. \A i \in 1 .. Len(p) : i < h => A[i] <= A[h] /\ A[i] \in Nat
  <2> SUFFICES ASSUME NEW i \in 1 .. Len(p), i < h PROVE A[i] <= A[h] /\ A[i] \in Nat OBVIOUS
  <2>1. i \in 1 .. Len(p) + 2 /\ h \in 1 .. Len(p) + 2 /\ i \in 1 .. Len(p) + 1 BY <1>6
  <2>2. A[i] <= A[h] BY <2>1, LaidBefore
  <2>3. A[i] \in Nat BY <2>1, LaidStep
  <2> QED BY <2>2, <2>3
<1>10. \A i \in 1 .. Len(p) : h < i => A[h] < A[i] /\ A[i] \in Nat
  <2> SUFFICES ASSUME NEW i \in 1 .. Len(p), h < i PROVE A[h] < A[i] /\ A[i] \in Nat OBVIOUS
  <2>1. i \in 1 .. Len(p) + 2 /\ h \in 1 .. Len(p) + 2 /\ i \in 1 .. Len(p) + 1 BY <1>6
  <2>2. A[h + 1] <= A[i] BY <2>1, LaidBefore
  <2>3. A[i] \in Nat BY <2>1, LaidStep
  <2> QED BY <2>2, <2>3
<1>11. h \notin S BY <1>2
<1>12. CASE dir = "f"
  <2>1. PICK k \in 1 .. Len(defs) : v = defs[k] /\ from < v /\ \A g \in 1 .. k - 1 : defs[g] <= from
    BY <1>7, <1>12, LocalLabelIs
  <2>2. PICK i : i = pos[k] OBVIOUS
  <2>3. i \in S /\ v = A[i] BY <1>5, <2>1, <2>2
  <2>4. i \in 1 .. Len(p) /\ p[i].k = "local" BY <1>2, <2>3
  <2>5. h < i
    <3>1. ~(i < h) BY <1>3, <1>9, <2>1, <2>3, <2>4
    <3> QED BY <1>11, <2>3, <2>4, <3>1
  <2>6. ASSUME NEW j \in h + 1 .. i - 1, p[j].k = "local" PROVE FALSE
    <3>1. j \in 1 .. Len(p) /\ h < j /\ j < i BY <1>6, <2>4
    <3>2. j \in S BY <1>2, <2>6, <3>1
    <3>3. PICK g \in 1 .. Len(defs) : pos[g] = j BY <1>5, <3>2
    <3>4. g < k
      <4>1. g # k BY <2>2, <3>1, <3>3
      <4>2. ~(k < g)
          <5>1. k < g => i < j BY <1>5, <2>2, <3>3
          <5> QED BY <1>6, <2>4, <3>1, <5>1
      <4> QED BY <1>8, <4>1, <4>2
    <3>5. g \in 1 .. k - 1 BY <1>8, <3>4
    <3>6. A[j] <= from BY <1>5, <2>1, <3>3, <3>5
    <3> QED BY <1>3, <1>10, <3>1, <3>6
  <2> QED BY <1>12, <2>3, <2>4, <2>5, <2>6 DEF NearIn, NearFound
<1>13. CASE dir # "f"
  <2>1. PICK k \in 1 .. Len(defs) : v = defs[k] /\ v <= from /\ \A g \in k + 1 .. Len(defs) : from < defs[g]
    BY <1>7, <1>13, LocalLabelIs
  <2>2. PICK i : i = pos[k] OBVIOUS
  <2>3. i \in S /\ v = A[i] BY <1>5, <2>1, <2>2
  <2>4. i \in 1 .. Len(p) /\ p[i].k = "local" BY <1>2, <2>3
  <2>5. i < h
    <3>1. ~(h < i) BY <1>3, <1>10, <2>1, <2>3, <2>4
    <3> QED BY <1>11, <2>3, <2>4, <3>1
  <2>6. ASSUME NEW j \in i + 1 .. h - 1, p[j].k = "local" PROVE FALSE
    <3>1. j \in 1 .. Len(p) /\ i < j /\ j < h BY <1>6, <2>4
    <3>2. j \in S BY <1>2, <2>6, <3>1
    <3>3. PICK g \in 1 .. Len(defs) : pos[g] = j BY <1>5, <3>2
    <3>4. k < g
      <4>1. g # k BY <2>2, <3>1, <3>3
      <4>2. ~(g < k)
          <5>1. g < k => j < i BY <1>5, <2>2, <3>3
          <5> QED BY <1>6, <2>4, <3>1, <5>1
      <4> QED BY <1>8, <4>1, <4>2
    <3>5. g \in k + 1 .. Len(defs) BY <1>8, <3>4
    <3>6. from < A[j] BY <1>5, <2>1, <3>3, <3>5
    <3> QED BY <1>3, <1>9, <3>1, <3>6
  <2> QED BY <1>13, <2>3, <2>4, <2>5, <2>6 DEF NearIn, NearFound
<1> QED BY <1>12, <1>13

(* The nearest one is what the property calls the nearest.                 *)
LEMMA NearIsNearest ==
  ASSUME NEW p, p = prog, IsProgram(p), NEW h \in 1 .. Len(p), NEW dir, NEW i, NearIn(p, h, dir, i)
  PROVE  i \in DOMAIN prog /\ Nearest(h, dir, i)
<1>1. DOMAIN p = 1 .. Len(p) /\ Len(p) \in Nat BY ProgramFacts
<1>2. i \in 1 .. Len(p) /\ p[i].k = "local" BY DEF NearIn
<1>3. CASE dir = "f"
  <2>1. h < i /\ \A j \in h + 1 .. i - 1 : p[j].k # "local" BY <1>3 DEF NearIn
  <2> QED BY <1>1, <1>2, <1>3, <2>1 DEF Nearest, Between
<1>4. CASE dir # "f"
  <2>1. i < h /\ \A j \in i + 1 .. h - 1 : p[j].k # "local" BY <1>4 DEF NearIn
  <2>2. ~(h < i) BY <1>1, <1>2, <2>1
  <2> QED BY <1>1, <1>2, <1>4, <2>1, <2>2 DEF Nearest, Between
<1> QED BY <1>3, <1>4

(* References follow the source when the assembly ends.                    *)
LEMMA FixLeavesRefs ==
  ASSUME WellFormed, InStep, stage = "errata", fixErratum843419
  PROVE  RefsFollowSource'
<1>1. stage' = "done" /\ prog' = prog /\ res' = res BY DEF fixErratum843419
<1>2. Typed2(prog, res, at, pc, pending, image) /\ at = Len(prog) + 2 BY DEF WellFormed
<1>3. IsProgram(prog) /\ ResOK(res) /\ Contig(image, res.origin, pc) /\ pending = <<>> BY <1>2 DEF Typed2
<1>4. Len(prog) \in Nat /\ DOMAIN prog = 1 .. Len(prog) BY <1>3, ProgramFacts
<1>5. DOMAIN image = 1 .. Len(image) BY <1>3 DEF Contig
<1>6. PICK im2 : im2 = image' OBVIOUS
<1>7. SameBut(image, im2) BY <1>2, <1>6, FixKeeps
<1>8. Typed2(prog, res, Len(prog) + 2, pc, <<>>, image) BY <1>2, <1>3
<1>9. ASSUME NamesOnce(prog), NEW c \in DOMAIN im2, im2[c].k \in {"code", "data"},
             prog[im2[c].rec].k # "ldr", prog[im2[c].rec].e.op = "local"
      PROVE  \E i \in DOMAIN prog : Nearest(im2[c].rec, prog[im2[c].rec].e.v, i) /\ im2[c].val = res.recordPC[i]
  <2>1. PICK A : Settled(prog, res, A, image) BY <1>9, ErrataSettled
  <2>2. PICK x, h : x = image[c] /\ h = x.rec OBVIOUS
  <2>3. /\ c \in 1 .. Len(image) /\ x.k \in {"code", "data"} /\ im2[c].rec = h /\ im2[c].val = x.val
        /\ prog[h].k # "ldr" /\ prog[h].e.op = "local"
    BY <1>5, <1>7, <1>9, <2>2 DEF SameBut
  <2>4. ChunkOK(prog, res, x) BY <1>2, <2>2, <2>3 DEF Typed2
  <2>5. /\ h \in 1 .. Len(prog) /\ Means(res, prog[h].e, x.pc) = {x.val} /\ prog[h].k \in {"inst", "data"}
        /\ x.len = 4 \/ (x.len = prog[h].w /\ prog[h].k = "data")
    BY <2>2, <2>3, <2>4 DEF ChunkOK
  <2>6. x.len # 0
    <3>1. IsRecord(prog[h]) BY <1>3, <2>5, ProgramFacts
    <3> QED BY <2>3, <2>5, <3>1 DEF IsRecord
  <2>7. StandsAt(A, x) BY <1>8, <2>1, <2>2, <2>3, <2>6, WordStands
  <2>8. x.pc = A[h] /\ A[h] \in Nat /\ A[h + 1] \in Nat /\ A[h] < A[h + 1] BY <2>2, <2>7 DEF StandsAt
  <2>9. LaidOut(prog, res, A) BY <2>1 DEF Settled
  <2>10. PICK dir, v : dir = prog[h].e.v /\ v = x.val OBVIOUS
  <2>11. v \in LocalLabel(dir, A[h], res.localDefs)
    <3>1. Eval(prog[h].e, x.pc, res.symbols, res.localDefs) = LocalLabel(dir, x.pc, res.localDefs)
      BY <2>3, <2>10, EvalCases
    <3> QED BY <2>5, <2>8, <2>10, <3>1 DEF Means
  <2>12. PICK i : NearIn(prog, h, dir, i) /\ v = A[i]
    <3>1. prog[h].k # "local" BY <2>5
    <3>2. NearFound(prog, h, dir, A, v) BY <1>3, <2>5, <2>8, <2>9, <2>11, <3>1, AddressFinds
    <3> QED BY <3>2 DEF NearFound
  <2>13. i \in DOMAIN prog /\ Nearest(h, dir, i) BY <1>3, <2>5, <2>12, NearIsNearest
  <2>14. A[i] = res.recordPC[i]
    <3>1. AsNoted(res, A, Len(prog) + 2) /\ Len(res.recordPC) = Len(prog)
      BY <1>2, <2>9 DEF LaidOut, Laid, Typed2
    <3>2. i \in 1 .. Len(prog) + 2 /\ i \in 1 .. Len(prog) BY <1>4, <2>13
    <3> QED BY <3>1, <3>2 DEF AsNoted
  <2> QED BY <2>3, <2>10, <2>12, <2>13, <2>14
<1> QED BY <1>1, <1>6, <1>9 DEF RefsFollowSource, Done, Nearest, Between

(* A numeric label means its nearest definition in the source, though both *)
(* are looked up by address only.                                          *)
THEOREM AssemblerRefsFollow == Spec => []RefsFollowSource
<1>1. Init => RefsFollowSource
  <2> SUFFICES ASSUME Init PROVE RefsFollowSource OBVIOUS
  <2>1. stage = "pass1" \/ stage = "source" BY DEF Init
  <2> QED BY <2>1 DEF RefsFollowSource, Done
<1>2. ASSUME WellFormed, InStep, RefsFollowSource, [Next]_vars PROVE RefsFollowSource'
  <2>1. CASE Next
    <3>1. CASE stage' = "done"
      <4>1. stage = "errata" /\ fixErratum843419 BY <1>2, <2>1, <3>1, OnlyFixIsDone
      <4> QED BY <1>2, <4>1, FixLeavesRefs
    <3>2. CASE stage' # "done" BY <3>2 DEF RefsFollowSource, Done
    <3> QED BY <3>1, <3>2
  <2>2. CASE UNCHANGED vars
    <3>1. UNCHANGED <<stage, prog, res, image>> BY <2>2 DEF vars
    <3> QED BY <1>2, <3>1 DEF RefsFollowSource, Done, Nearest, Between
  <2> QED BY <1>2, <2>1, <2>2
<1> QED BY <1>1, <1>2, AssemblerWellFormed, AssemblerInStep, PTL DEF Spec

-----------------------------------------------------------------------------
(* The word a literal's load finds: a slot of its own width, in the pool.  *)
FoundWord(r, im, to, w, e, from, s) ==
  /\ im[s].k = "pool" /\ im[s].pc = to /\ im[s].len = w /\ im[s].pc % w = 0
  /\ e.op \notin {"dot", "local"} => {im[s].val} = Means(r, e, from)

(* The slot that a literal's load is given is there, with its value.       *)
LEMMA LoadFinds ==
  ASSUME NEW p, NEW r, NEW c, NEW im, Typed2(p, r, Len(p) + 2, c, <<>>, im), NEW A, Settled(p, r, A, im),
         NEW x, NEW l \in 1 .. Len(im), x = im[l], x.k = "code", p[x.rec].k = "ldr"
  PROVE  \E s \in 1 .. Len(im) : FoundWord(r, im, x.val, p[x.rec].w, p[x.rec].e, x.pc, s)
<1>1. /\ IsProgram(p) /\ ResOK(r) /\ Contig(im, r.origin, c) /\ ChunkOK(p, r, x)
  BY DEF Typed2
<1>2. LaidOut(p, r, A) /\ Pooled(p, r, A, Len(p) + 2, im) BY DEF Settled, Lock
<1>3. Len(p) \in Nat BY <1>1, ProgramFacts
<1>4. PICK h, i : h = x.rec /\ i = r.ldrPool[x.pc] OBVIOUS
<1>5. h \in 1 .. Len(p) /\ x.len = 4 /\ x.pc \in DOMAIN r.ldrPool /\ x.val = r.pool[i].pc BY <1>1, <1>4 DEF ChunkOK
<1>6. x.pc = A[h]
  <2>1. StandsAt(A, im[l]) BY <1>5, WordStands
  <2> QED BY <1>4, <2>1 DEF StandsAt
<1>7. h \in 1 .. Len(p) + 1 /\ RecAt(p, h) = p[h] BY <1>3, <1>5 DEF RecAt
<1>8. Moved(RecAt(p, h), HasPending(p, h), r, A[h], A[h + 1]) BY <1>1, <1>2, <1>7, LaidStep
<1>9. r.pool[i].w = p[h].w /\ r.pool[i].e = p[h].e BY <1>4, <1>6, <1>7, <1>8 DEF Moved
<1>10. i \in 1 .. Len(r.pool) BY <1>1, <1>4, <1>5 DEF ResOK
<1>11. /\ FlushSites(p, r, A, Len(p) + 2) /\ Slotting(r, <<>>)
  BY <1>2 DEF LaidOut, Laid
<1>12. PICK f \in DOMAIN r.flushes : InSlot(r, f, i)
  <2>1. DOMAIN <<>> = {} OBVIOUS
  <2>2. i \notin Range(<<>>) BY <2>1 DEF Range
  <2> QED BY <1>10, <1>11, <2>2 DEF Slotting
<1>13. PICK ids : ids = r.flushes[f].ids OBVIOUS
<1>14. i \in Range(ids) /\ r.pool[i].pc = SlotPC(r.pool, ids, f, i) BY <1>12, <1>13 DEF InSlot
<1>15. PICK g \in 1 .. (Len(p) + 2) - 1 : RecAt(p, g).k = "ltorg" /\ HasPending(p, g) /\ A[g] = f
  BY <1>11 DEF FlushSites
<1>16. HasSlot(im, r, r.flushes[A[g]].ids, A[g], i) BY <1>2, <1>13, <1>14, <1>15 DEF Pooled
<1>17. HasSlot(im, r, ids, f, i) BY <1>13, <1>15, <1>16
<1>18. PICK s \in 1 .. Len(im) : /\ im[s].k = "pool" /\ im[s].len = r.pool[i].w /\ EntryValue(r, i) = {im[s].val}
                                 /\ im[s].pc = SlotPC(r.pool, ids, f, i)
  BY <1>17 DEF HasSlot
<1>19. im[s].pc % r.pool[i].w = 0
  <2>1. IsPool(r.pool) BY <1>1, ResFacts
  <2>2. FlushOK(r) BY <1>1, ResFacts
  <2>3. ids \in Seq(1 .. Len(r.pool)) /\ f \in Int BY <1>13, <2>2 DEF FlushOK
  <2>4. SlotPC(r.pool, ids, f, i) % r.pool[i].w = 0 BY <1>14, <2>1, <2>3, SlotAligned
  <2> QED BY <1>18, <2>4
<1>20. ASSUME p[h].e.op \notin {"dot", "local"} PROVE {im[s].val} = Means(r, p[h].e, x.pc)
  <2>1. PICK e, sy, ld : e = p[h].e /\ sy = r.symbols /\ ld = r.localDefs OBVIOUS
  <2>2. IsRecord(p[h]) BY <1>1, <1>5, ProgramFacts
  <2>3. e.op \in {"int", "sym"} BY <1>20, <2>1, <2>2 DEF IsRecord, IsExpr
  <2>4. Eval(e, r.pool[i].evalPC, sy, ld) = Eval(e, x.pc, sy, ld) BY <2>3, SameFrom
  <2> QED BY <1>9, <1>18, <2>1, <2>4 DEF EntryValue, Means
<1>21. FoundWord(r, im, x.val, p[h].w, p[h].e, x.pc, s) BY <1>5, <1>9, <1>14, <1>18, <1>19, <1>20 DEF FoundWord
<1> QED BY <1>4, <1>21

(* Loads find their words when the assembly ends.                          *)
LEMMA FixLeavesLoads ==
  ASSUME WellFormed, InStep, stage = "errata", fixErratum843419
  PROVE  LdrFindsItsWord'
<1>1. stage' = "done" /\ prog' = prog /\ res' = res BY DEF fixErratum843419
<1>2. Typed2(prog, res, at, pc, pending, image) /\ at = Len(prog) + 2 BY DEF WellFormed
<1>3. Contig(image, res.origin, pc) /\ pending = <<>> BY <1>2 DEF Typed2
<1>4. DOMAIN image = 1 .. Len(image) BY <1>3 DEF Contig
<1>5. PICK im2 : im2 = image' OBVIOUS
<1>6. SameBut(image, im2) BY <1>2, <1>5, FixKeeps
<1>7. Typed2(prog, res, Len(prog) + 2, pc, <<>>, image) BY <1>2, <1>3
<1>8. ASSUME NamesOnce(prog), NEW c \in DOMAIN im2, im2[c].k = "code", prog[im2[c].rec].k = "ldr"
      PROVE  \E s \in DOMAIN im2 :
               /\ im2[s].k = "pool" /\ im2[s].pc = im2[c].val
               /\ im2[s].len = prog[im2[c].rec].w /\ im2[s].pc % prog[im2[c].rec].w = 0
               /\ prog[im2[c].rec].e.op \notin {"dot", "local"} =>
                    {im2[s].val} = Eval(prog[im2[c].rec].e, im2[c].pc, res.symbols, res.localDefs)
  <2>1. PICK A : Settled(prog, res, A, image) BY <1>8, ErrataSettled
  <2>2. PICK x, h : x = image[c] /\ h = x.rec OBVIOUS
  <2>3. /\ c \in 1 .. Len(image) /\ x.k = "code" /\ im2[c].rec = h /\ im2[c].val = x.val /\ im2[c].pc = x.pc
        /\ prog[h].k = "ldr"
    BY <1>4, <1>6, <1>8, <2>2 DEF SameBut
  <2>4. PICK s \in 1 .. Len(image) : FoundWord(res, image, x.val, prog[h].w, prog[h].e, x.pc, s)
    BY <1>7, <2>1, <2>2, <2>3, LoadFinds
  <2>5. s \in DOMAIN im2 /\ im2[s].k = image[s].k /\ im2[s].pc = image[s].pc /\ im2[s].len = image[s].len
        /\ im2[s].val = image[s].val
    BY <1>4, <1>6, <2>4 DEF SameBut
  <2> QED BY <2>3, <2>4, <2>5 DEF FoundWord, Means
<1> QED BY <1>1, <1>5, <1>8 DEF LdrFindsItsWord, Done, makeCtx

(* A load from the literal pool finds its word: of its width, aligned to   *)
(* it, with the value of its expression.                                   *)
THEOREM AssemblerLoadsFind == Spec => []LdrFindsItsWord
<1>1. Init => LdrFindsItsWord
  <2> SUFFICES ASSUME Init PROVE LdrFindsItsWord OBVIOUS
  <2>1. stage = "pass1" \/ stage = "source" BY DEF Init
  <2> QED BY <2>1 DEF LdrFindsItsWord, Done
<1>2. ASSUME WellFormed, InStep, LdrFindsItsWord, [Next]_vars PROVE LdrFindsItsWord'
  <2>1. CASE Next
    <3>1. CASE stage' = "done"
      <4>1. stage = "errata" /\ fixErratum843419 BY <1>2, <2>1, <3>1, OnlyFixIsDone
      <4> QED BY <1>2, <4>1, FixLeavesLoads
    <3>2. CASE stage' # "done" BY <3>2 DEF LdrFindsItsWord, Done
    <3> QED BY <3>1, <3>2
  <2>2. CASE UNCHANGED vars
    <3>1. UNCHANGED <<stage, prog, res, image>> BY <2>2 DEF vars
    <3> QED BY <1>2, <3>1 DEF LdrFindsItsWord, Done, makeCtx
  <2> QED BY <1>2, <2>1, <2>2
<1> QED BY <1>1, <1>2, AssemblerWellFormed, AssemblerInStep, PTL DEF Spec

-----------------------------------------------------------------------------
(* Erratum 835769 in the source: a load or store and a multiply-accumulate *)
(* with nothing in between that takes room.                                *)
NoRoom(p, j) ==
  \/ p[j].k \in {"label", "local", "set", "section"}
  \/ p[j].k = "data" /\ p[j].w = 0
  \/ p[j].k = "ltorg" /\ ~HasPending(p, j)
BarePair(p, h, g) ==
  /\ h \in 1 .. Len(p) /\ g \in 1 .. Len(p) /\ h < g
  /\ p[h].k \in {"inst", "ldr"} /\ p[h].n \in MemOp /\ p[g].k = "inst" /\ p[g].n = "mac"
  /\ \A j \in h + 1 .. g - 1 : NoRoom(p, j)
Padded(p, h, g) == \E j \in h .. g : p[j].k \in {"balign", "skip", "org"}

(* A place between two places of a list is a place of it.                  *)
LEMMA PlaceBetween ==
  ASSUME NEW n \in Nat, NEW h \in 1 .. n, NEW g \in 1 .. n, NEW j \in h + 1 .. g - 1
  PROVE  /\ j \in 1 .. n /\ j \in 1 .. n + 1 /\ j \in 1 .. n + 2
         /\ h < j /\ j < g /\ j \in h .. g
OBVIOUS

(* Two numbers between equal bounds are the same.                          *)
LEMMA NoGap ==
  ASSUME NEW a \in Int, NEW b \in Int, NEW low, NEW high, low = high, low <= a, a <= b, b <= high, low \in Int
  PROVE  b = a
OBVIOUS

(* Two words next to each other in the image come from records that only   *)
(* padding, or nothing that takes room, keeps apart.                       *)
LEMMA SequenceIsSource ==
  ASSUME NEW p, NEW r, NEW to, NEW im, Typed2(p, r, Len(p) + 2, to, <<>>, im), NEW A, Settled(p, r, A, im),
         NEW c \in 1 .. Len(im), NEW d \in 1 .. Len(im), im[c].k = "code", im[d].k = "code",
         im[c].n \in MemOp, im[d].n = "mac", im[d].pc = im[c].pc + 4
  PROVE  Padded(p, im[c].rec, im[d].rec) \/ BarePair(p, im[c].rec, im[d].rec)
<1>1. /\ IsProgram(p) /\ ResOK(r) /\ ChunkOK(p, r, im[c]) /\ ChunkOK(p, r, im[d])
  BY DEF Typed2
<1>2. LaidOut(p, r, A) BY DEF Settled
<1>3. Len(p) \in Nat BY <1>1, ProgramFacts
<1>4. PICK h, g : h = im[c].rec /\ g = im[d].rec OBVIOUS
<1>5. /\ h \in 1 .. Len(p) /\ im[c].len = 4 /\ p[h].k \in {"inst", "ldr"} /\ p[h].n \in MemOp
      /\ g \in 1 .. Len(p) /\ im[d].len = 4 /\ p[g].k \in {"inst", "ldr"} /\ p[g].n = "mac"
  BY <1>1, <1>4 DEF ChunkOK
<1>6. StandsAt(A, im[c]) /\ StandsAt(A, im[d])
  <2>1. StandsAt(A, im[c]) BY <1>5, WordStands
  <2>2. StandsAt(A, im[d]) BY <1>5, WordStands
  <2> QED BY <2>1, <2>2
<1>7. A[h] \in Nat /\ A[g] \in Nat /\ A[h + 1] \in Nat /\ A[g] = A[h] + 4 BY <1>4, <1>6 DEF StandsAt
<1>8. h \in 1 .. Len(p) + 1 /\ h \in 1 .. Len(p) + 2 /\ g \in 1 .. Len(p) + 2 BY <1>3, <1>5
<1>9. A[h + 1] = A[g]
  <2>1. Moved(RecAt(p, h), HasPending(p, h), r, A[h], A[h + 1]) BY <1>1, <1>2, <1>8, LaidStep
  <2>2. RecAt(p, h) = p[h] BY <1>5 DEF RecAt
  <2> QED BY <1>5, <1>7, <2>1, <2>2 DEF Moved
<1>10. h < g
  <2>1. h # g BY <1>7
  <2>2. ~(g < h)
    <3>1. SUFFICES ASSUME g < h PROVE FALSE OBVIOUS
    <3>2. A[g] <= A[h] BY <1>1, <1>2, <1>8, <3>1, LaidBefore
    <3> QED BY <1>7, <3>2
  <2> QED BY <1>8, <2>1, <2>2
<1>11. p[g].k = "inst"
  <2>1. IsRecord(p[g]) BY <1>1, <1>5, ProgramFacts
  <2> QED BY <1>5, <2>1 DEF IsRecord
<1>12. ASSUME ~Padded(p, h, g), NEW j \in h + 1 .. g - 1 PROVE NoRoom(p, j)
  <2>0. h \in 1 .. Len(p) /\ g \in 1 .. Len(p) BY <1>5, Zenon
  <2>1. j \in 1 .. Len(p) /\ j \in 1 .. Len(p) + 1 /\ j \in 1 .. Len(p) + 2 /\ h < j /\ j < g /\ j \in h .. g
    BY <1>3, <2>0, PlaceBetween, Zenon
  <2>2. p[j].k \notin {"balign", "skip", "org"} BY <1>12, <2>1 DEF Padded
  <2>3. RecAt(p, j) = p[j] BY <2>1 DEF RecAt
  <2>4. Moved(p[j], HasPending(p, j), r, A[j], A[j + 1])
    <3>1. Moved(RecAt(p, j), HasPending(p, j), r, A[j], A[j + 1]) BY <1>1, <1>2, <2>1, LaidStep
    <3> QED BY <2>3, <3>1
  <2>5. A[h + 1] <= A[j] BY <1>1, <1>2, <1>8, <2>1, LaidBefore
  <2>6. A[j] <= A[j + 1] /\ A[j + 1] <= A[g] BY <1>1, <1>2, <1>8, <2>1, LaidBefore
  <2>7. A[j] \in Nat /\ A[j + 1] \in Nat BY <1>1, <1>2, <2>1, LaidStep
  <2>8. A[j + 1] = A[j]
    <3>1. A[j] \in Int /\ A[j + 1] \in Int /\ A[h + 1] \in Int BY <1>7, <2>7
    <3> QED BY <1>9, <2>5, <2>6, <3>1, NoGap, Zenon
  <2>9. IsRecord(p[j]) BY <1>1, <2>1, ProgramFacts
  <2>10. p[j].k \notin {"inst", "ldr"} BY <2>4, <2>7, <2>8 DEF Moved
  <2>11. ASSUME p[j].k = "data" PROVE p[j].w = 0
    <3>1. A[j + 1] = A[j] + p[j].w BY <2>4, <2>11 DEF Moved
    <3>2. p[j].w \in Nat BY <2>9 DEF IsRecord
    <3> QED BY <2>7, <2>8, <3>1, <3>2
  <2>12. ASSUME p[j].k = "ltorg" PROVE ~HasPending(p, j)
    <3>1. HasPending(p, j) => A[j] < A[j + 1] BY <2>4, <2>12 DEF Moved
    <3> QED BY <2>7, <2>8, <3>1
  <2> QED BY <2>2, <2>9, <2>10, <2>11, <2>12 DEF IsRecord, NoRoom
<1> QED BY <1>4, <1>5, <1>10, <1>11, <1>12 DEF BarePair

(* Nothing in between takes room: the pair is four bytes apart.            *)
LEMMA PairIsAdjacent ==
  ASSUME NEW p, IsProgram(p), NEW r, NEW A, LaidOut(p, r, A), NEW h, NEW g, BarePair(p, h, g)
  PROVE  A[g] = A[h + 1]
<1>1. h \in 1 .. Len(p) /\ g \in 1 .. Len(p) /\ h < g /\ Len(p) \in Nat BY ProgramFacts DEF BarePair
<1>2. ASSUME NEW j \in h + 1 .. g - 1 PROVE A[j + 1] = A[j]
  <2>1. NoRoom(p, j) BY DEF BarePair
  <2>2. j \in 1 .. Len(p) /\ j \in 1 .. Len(p) + 1 BY <1>1
  <2>3. RecAt(p, j) = p[j] BY <2>2 DEF RecAt
  <2>4. Moved(p[j], HasPending(p, j), r, A[j], A[j + 1])
    <3>1. Moved(RecAt(p, j), HasPending(p, j), r, A[j], A[j + 1]) BY <2>2, LaidStep
    <3> QED BY <2>3, <3>1
  <2>5. A[j] \in Nat BY <2>2, LaidStep
  <2> QED BY <2>1, <2>4, <2>5 DEF NoRoom, Moved
<1>3. PICK S : S = {n \in Nat : (h + 1) + n <= g => A[(h + 1) + n] = A[h + 1]} OBVIOUS
<1>4. 0 \in S
  <2>1. (h + 1) + 0 = h + 1 BY <1>1
  <2> QED BY <1>3, <2>1
<1>5. ASSUME NEW n \in Nat, n \in S PROVE n + 1 \in S
  <2>1. ASSUME (h + 1) + (n + 1) <= g PROVE A[(h + 1) + (n + 1)] = A[h + 1]
    <3>1. PICK j : j = (h + 1) + n OBVIOUS
    <3>2. j \in h + 1 .. g - 1 /\ (h + 1) + n <= g /\ j + 1 = (h + 1) + (n + 1) BY <1>1, <2>1, <3>1
    <3>3. A[j] = A[h + 1] BY <1>3, <1>5, <3>1, <3>2
    <3>4. A[j + 1] = A[j] BY <1>2, <3>2
    <3> QED BY <3>2, <3>3, <3>4
  <2>2. n + 1 \in Nat OBVIOUS
  <2> QED BY <1>3, <2>1, <2>2
<1>6. \A n \in Nat : n \in S BY <1>4, <1>5, Climb
<1>7. PICK n : n = g - (h + 1) OBVIOUS
<1>8. n \in Nat /\ (h + 1) + n = g /\ (h + 1) + n <= g BY <1>1, <1>7
<1>9. n \in S BY <1>6, <1>8
<1> QED BY <1>3, <1>8, <1>9

(* The workaround finds every such pair.                                   *)
LEMMA PairIsFound ==
  ASSUME WellFormed, InStep, stage = "errata", NamesOnce(prog), NEW h, NEW g, BarePair(prog, h, g)
  PROVE  g \in insertSet
<1>1. Typed2(prog, res, at, pc, pending, image) /\ at = Len(prog) + 2 BY DEF WellFormed
<1>2. IsProgram(prog) /\ ResOK(res) /\ Contig(image, res.origin, pc) /\ pending = <<>> BY <1>1 DEF Typed2
<1>3. Typed2(prog, res, Len(prog) + 2, pc, <<>>, image) BY <1>1, <1>2
<1>4. PICK A : Settled(prog, res, A, image) BY ErrataSettled
<1>5. LaidOut(prog, res, A) /\ Coded(prog, Len(prog) + 2, image) BY <1>4 DEF Settled, Lock
<1>6. /\ h \in 1 .. Len(prog) /\ g \in 1 .. Len(prog) /\ h < g
      /\ prog[h].k \in {"inst", "ldr"} /\ prog[h].n \in MemOp /\ prog[g].k = "inst" /\ prog[g].n = "mac"
  BY DEF BarePair
<1>7. Len(prog) \in Nat BY <1>2, ProgramFacts
<1>8. h \in 1 .. (Len(prog) + 2) - 1 /\ g \in 1 .. (Len(prog) + 2) - 1 /\ h \in 1 .. Len(prog) + 1 BY <1>6, <1>7
<1>9. RecAt(prog, h) = prog[h] /\ RecAt(prog, g) = prog[g] BY <1>6 DEF RecAt
<1>10. PICK c \in 1 .. Len(image) : image[c].k = "code" /\ image[c].rec = h BY <1>5, <1>6, <1>8, <1>9 DEF Coded
<1>11. PICK d \in 1 .. Len(image) : image[d].k = "code" /\ image[d].rec = g BY <1>5, <1>6, <1>8, <1>9 DEF Coded
<1>12. image[c].len = 4 /\ image[c].n = prog[h].n /\ image[d].len = 4 /\ image[d].n = prog[g].n
  BY <1>1, <1>10, <1>11 DEF Typed2, ChunkOK
<1>13. image[c].pc = A[h] /\ image[d].pc = A[g]
  <2>1. StandsAt(A, image[c]) BY <1>3, <1>4, <1>10, <1>12, WordStands
  <2>2. StandsAt(A, image[d]) BY <1>3, <1>4, <1>11, <1>12, WordStands
  <2> QED BY <1>10, <1>11, <2>1, <2>2 DEF StandsAt
<1>14. A[g] = A[h] + 4
  <2>1. Moved(RecAt(prog, h), HasPending(prog, h), res, A[h], A[h + 1]) BY <1>2, <1>5, <1>8, LaidStep
  <2>2. A[h + 1] = A[h] + 4 BY <1>6, <1>9, <2>1 DEF Moved
  <2>3. A[g] = A[h + 1] BY <1>2, <1>5, PairIsAdjacent
  <2> QED BY <2>2, <2>3
<1>15. image[d].pc = image[c].pc + 4 /\ image[c].pc \in Int /\ image[d].pc \in Int
  <2>1. image[c].pc \in Int BY <1>1, CodeChunks
  <2>2. image[d].pc \in Int BY <1>1, CodeChunks
  <2> QED BY <1>13, <1>14, <2>1, <2>2
<1>16. c < d
  <2>1. image[c].pc < image[d].pc => c < d BY <1>2, ContigOrder
  <2> QED BY <1>15, <2>1
<1>17. /\ Len(CodeMap) \in Nat /\ DOMAIN CodeMap = 1 .. Len(CodeMap)
       /\ DOMAIN image = 1 .. Len(image) /\ Len(image) \in Nat
  BY <1>1, CodeMapLists
<1>18. PICK pos : Lists(CodeMap, image, Codes(image), pos) BY <1>1, CodeMapLists
<1>19. c \in Codes(image) /\ d \in Codes(image) BY <1>10, <1>11, <1>17 DEF Codes
<1>20. PICK w \in 1 .. Len(CodeMap) : pos[w] = c BY <1>18, <1>19 DEF Lists
<1>21. NoneBetween(Codes(image), c, d)
  <2>1. ASSUME NEW m \in Codes(image), c < m, m < d PROVE FALSE
    <3>1. m \in 1 .. Len(image) /\ image[m].k = "code" BY <1>17 DEF Codes
    <3>2. image[m].len = 4 /\ image[m].pc \in Int BY <1>1, <3>1, CodeChunks
    <3>3. image[c].pc + image[c].len <= image[m].pc BY <1>2, <2>1, <3>1, ContigOrder
    <3>4. image[m].pc + image[m].len <= image[d].pc BY <1>2, <2>1, <3>1, ContigOrder
    <3> QED BY <1>12, <1>15, <3>2, <3>3, <3>4
  <2> QED BY <1>16, <2>1 DEF NoneBetween
<1>22. GoesOn(CodeMap, pos, w, d)
  <2>1. Codes(image) \in SUBSET Nat BY <1>17 DEF Codes
  <2>2. NoneBetween(Codes(image), pos[w], d) BY <1>20, <1>21
  <2> QED BY <1>17, <1>18, <1>19, <1>20, <2>1, <2>2, ListsNext
<1>23. PICK v : v = w + 1 OBVIOUS
<1>24. v \in 1 .. Len(CodeMap) /\ pos[v] = d BY <1>22, <1>23 DEF GoesOn
<1>25. CodeMap[w] = image[c] /\ CodeMap[v] = image[d] BY <1>18, <1>20, <1>24 DEF Lists
<1>26. Adjacent(w, v)
  <2>1. 4 * (v - w) = 4 BY <1>17, <1>20, <1>23
  <2>2. CodeMap[v].pc = CodeMap[w].pc + 4 * (v - w) BY <1>15, <1>25, <2>1
  <2> QED BY <1>17, <1>20, <1>24, <2>2 DEF Adjacent
<1>27. aarch64ErratumSequence(w) /\ w \in DOMAIN CodeMap
  BY <1>6, <1>12, <1>17, <1>20, <1>23, <1>24, <1>25, <1>26 DEF aarch64ErratumSequence, Word
<1>28. CodeMap[w + 1].rec = g BY <1>11, <1>23, <1>25
<1> QED BY <1>27, <1>28 DEF insertSet

-----------------------------------------------------------------------------
(* The order of the records and that of their copies are one.              *)
LEMMA CopiesKeepOrder ==
  ASSUME NEW p, IsProgram(p), NEW S, NEW q, IsProgram(q), NEW src, NopsIn(p, S, q, src, Len(p)),
         NEW j \in 1 .. Len(q), NEW k \in 1 .. Len(q), src[j] # 0, src[k] # 0
  PROVE  src[j] \in 1 .. Len(p) /\ src[k] \in 1 .. Len(p) /\ (src[j] < src[k] <=> j < k)
<1>1. Len(p) \in Nat /\ Len(q) \in Nat BY ProgramFacts
<1>2. src[j] \in 0 .. Len(p) /\ src[k] \in 0 .. Len(p) BY DEF NopsIn
<1>3. src[j] \in 1 .. Len(p) /\ src[k] \in 1 .. Len(p) BY <1>1, <1>2
<1>4. j < k => src[j] < src[k] BY DEF NopsIn
<1>5. k < j => src[k] < src[j] BY DEF NopsIn
<1>6. ASSUME src[j] < src[k] PROVE j < k
  <2>1. j # k BY <1>3, <1>6
  <2>2. ~(k < j) BY <1>3, <1>5, <1>6
  <2> QED BY <1>1, <2>1, <2>2
<1> QED BY <1>3, <1>4, <1>6

(* A copy of a record is that record.                                      *)
LEMMA CopyIs ==
  ASSUME NEW p, IsProgram(p), NEW S, NEW q, IsProgram(q), NEW src, NopsIn(p, S, q, src, Len(p)),
         NEW j \in 1 .. Len(q), src[j] # 0
  PROVE  src[j] \in 1 .. Len(p) /\ q[j] = p[src[j]]
<1>1. Len(p) \in Nat /\ src[j] \in 0 .. Len(p) BY ProgramFacts DEF NopsIn
<1>2. q[j] = p[src[j]] BY DEF NopsIn
<1> QED BY <1>1, <1>2

(* A literal that waits in the first layout waits in the second.           *)
LEMMA CopiesWait ==
  ASSUME NEW p, IsProgram(p), NEW S, NEW q, IsProgram(q), NEW src, NopsIn(p, S, q, src, Len(p)),
         NEW j \in 1 .. Len(q), src[j] # 0, HasPending(p, src[j])
  PROVE  HasPending(q, j)
<1>1. Len(p) \in Nat /\ Len(q) \in Nat BY ProgramFacts
<1>2. PICK i : i = src[j] OBVIOUS
<1>3. i \in 1 .. Len(p) BY <1>1, <1>2, CopiesKeepOrder
<1>4. PICK d \in 1 .. i - 1 : RecAt(p, d).k = "ldr" /\ \A h \in d + 1 .. i - 1 : RecAt(p, h).k # "ltorg"
  BY <1>2 DEF HasPending
<1>5. d \in 1 .. Len(p) /\ d < i /\ d # 0 BY <1>1, <1>3, <1>4
<1>6. PICK e \in 1 .. Len(q) : src[e] = d BY <1>5 DEF NopsIn
<1>7. e < j /\ q[e] = p[d]
  <2>1. src[e] < src[j] <=> e < j BY <1>5, <1>6, CopiesKeepOrder
  <2>2. q[e] = p[src[e]] BY <1>5, <1>6, CopyIs
  <2> QED BY <1>2, <1>5, <1>6, <2>1, <2>2
<1>8. e \in 1 .. j - 1 /\ RecAt(q, e).k = "ldr"
  <2>1. RecAt(p, d) = p[d] /\ RecAt(q, e) = q[e] BY <1>5, <1>6 DEF RecAt
  <2> QED BY <1>1, <1>4, <1>7, <2>1
<1>9. ASSUME NEW h \in e + 1 .. j - 1 PROVE RecAt(q, h).k # "ltorg"
  <2>1. h \in 1 .. Len(q) /\ e < h /\ h < j BY <1>1
  <2>2. RecAt(q, h) = q[h] BY <2>1 DEF RecAt
  <2>3. CASE src[h] = 0
    <3>1. q[h] = Nop BY <2>1, <2>3 DEF NopsIn
    <3> QED BY <2>2, <3>1 DEF Nop, Record
  <2>4. CASE src[h] # 0
    <3>1. PICK m : m = src[h] OBVIOUS
    <3>2. m \in 1 .. Len(p) /\ q[h] = p[m]
      <4>1. src[h] \in 1 .. Len(p) BY <2>1, <2>4, CopyIs
      <4>2. q[h] = p[src[h]] BY <2>1, <2>4, CopyIs
      <4> QED BY <3>1, <4>1, <4>2
    <3>3. d < m
      <4>1. src[e] < src[h] <=> e < h BY <1>5, <1>6, <2>1, <2>4, CopiesKeepOrder
      <4> QED BY <1>6, <2>1, <3>1, <4>1
    <3>4. m < i
      <4>1. src[h] < src[j] <=> h < j BY <2>1, <2>4, CopiesKeepOrder
      <4> QED BY <1>2, <2>1, <3>1, <4>1
    <3>5. m \in d + 1 .. i - 1 BY <1>3, <1>5, <3>2, <3>3, <3>4
    <3>6. RecAt(p, m) = p[m] BY <3>2 DEF RecAt
    <3> QED BY <1>4, <2>2, <3>2, <3>5, <3>6
  <2> QED BY <2>3, <2>4
<1> QED BY <1>8, <1>9 DEF HasPending

(* A bare pair with the NOPs in it was one without them.                   *)
LEMMA PairWasBare ==
  ASSUME NEW p, IsProgram(p), NEW S, NEW q, IsProgram(q), NEW src, NopsIn(p, S, q, src, Len(p)),
         NEW h, NEW g, BarePair(q, h, g)
  PROVE  src[h] # 0 /\ src[g] # 0 /\ BarePair(p, src[h], src[g])
<1>1. Len(p) \in Nat /\ Len(q) \in Nat BY ProgramFacts
<1>2. /\ h \in 1 .. Len(q) /\ g \in 1 .. Len(q) /\ h < g
      /\ q[h].k \in {"inst", "ldr"} /\ q[h].n \in MemOp /\ q[g].k = "inst" /\ q[g].n = "mac"
  BY DEF BarePair
<1>3. Nop.n \notin MemOp /\ Nop.n # "mac" BY DEF Nop, Record, MemOp
<1>4. src[h] # 0
  <2>1. src[h] = 0 => q[h] = Nop BY <1>2 DEF NopsIn
  <2> QED BY <1>2, <1>3, <2>1
<1>5. src[g] # 0
  <2>1. src[g] = 0 => q[g] = Nop BY <1>2 DEF NopsIn
  <2> QED BY <1>2, <1>3, <2>1
<1>6. PICK a, b : a = src[h] /\ b = src[g] OBVIOUS
<1>7. a \in 1 .. Len(p) /\ b \in 1 .. Len(p) /\ a < b
  <2>1. src[h] \in 1 .. Len(p) BY <1>2, <1>4, CopyIs
  <2>2. src[g] \in 1 .. Len(p) BY <1>2, <1>5, CopyIs
  <2>3. src[h] < src[g] <=> h < g BY <1>2, <1>4, <1>5, CopiesKeepOrder
  <2> QED BY <1>2, <1>6, <2>1, <2>2, <2>3
<1>8. q[h] = p[a] /\ q[g] = p[b]
  <2>1. q[h] = p[src[h]] BY <1>2, <1>4, CopyIs
  <2>2. q[g] = p[src[g]] BY <1>2, <1>5, CopyIs
  <2> QED BY <1>6, <2>1, <2>2
<1>9. ASSUME NEW i \in a + 1 .. b - 1 PROVE NoRoom(p, i)
  <2>1. i \in 1 .. Len(p) /\ a < i /\ i < b /\ i # 0 BY <1>1, <1>7
  <2>2. PICK j \in 1 .. Len(q) : src[j] = i BY <2>1 DEF NopsIn
  <2>3. h < j
    <3>1. src[h] < src[j] <=> h < j BY <1>2, <1>4, <2>1, <2>2, CopiesKeepOrder
    <3> QED BY <1>6, <2>1, <2>2, <3>1
  <2>4. j < g
    <3>1. src[j] < src[g] <=> j < g BY <1>2, <1>5, <2>1, <2>2, CopiesKeepOrder
    <3> QED BY <1>6, <2>1, <2>2, <3>1
  <2>5. j \in h + 1 .. g - 1 BY <1>1, <1>2, <2>3, <2>4
  <2>6. NoRoom(q, j) BY <2>5 DEF BarePair
  <2>7. q[j] = p[i]
    <3>1. src[j] # 0 BY <2>1, <2>2
    <3>2. q[j] = p[src[j]] BY <3>1 DEF NopsIn
    <3> QED BY <2>2, <3>2
  <2>8. HasPending(p, i) => HasPending(q, j)
    <3>1. HasPending(p, src[j]) => HasPending(q, j) BY <2>1, <2>2, CopiesWait
    <3> QED BY <2>2, <3>1
  <2> QED BY <2>6, <2>7, <2>8 DEF NoRoom
<1>10. BarePair(p, a, b) BY <1>2, <1>7, <1>8, <1>9 DEF BarePair
<1> QED BY <1>4, <1>5, <1>6, <1>10

(* With a NOP before each of their MACs, no bare pair is left.             *)
LEMMA NopsSeparate ==
  ASSUME NEW p, IsProgram(p), NEW S, \A h, g : BarePair(p, h, g) => g \in S,
         NEW q, IsProgram(q), NEW src, NopsIn(p, S, q, src, Len(p)), NEW h, NEW g, BarePair(q, h, g)
  PROVE  FALSE
<1>1. Len(p) \in Nat /\ Len(q) \in Nat BY ProgramFacts
<1>2. h \in 1 .. Len(q) /\ g \in 1 .. Len(q) /\ h < g BY DEF BarePair
<1>3. src[h] # 0 BY PairWasBare
<1>4. src[g] # 0 BY PairWasBare
<1>5. BarePair(p, src[h], src[g]) BY PairWasBare
<1>6. PICK b : b = src[g] OBVIOUS
<1>7. b \in S BY <1>5, <1>6
<1>8. b \in 1 .. Len(p)
  <2>1. src[g] \in 1 .. Len(p) BY <1>2, <1>4, CopyIs
  <2> QED BY <1>6, <2>1
<1>9. PICK j \in 1 .. Len(q) : src[j] = b /\ j - 1 \in 1 .. Len(q) /\ src[j - 1] = 0 BY <1>7, <1>8 DEF NopsIn
<1>10. j = g
  <2>1. src[j] < src[g] <=> j < g BY <1>2, <1>4, <1>6, <1>9, CopiesKeepOrder
  <2>2. src[g] < src[j] <=> g < j BY <1>2, <1>4, <1>6, <1>9, CopiesKeepOrder
  <2> QED BY <1>2, <1>6, <1>8, <1>9, <2>1, <2>2
<1>11. PICK k : k = g - 1 OBVIOUS
<1>12. k \in 1 .. Len(q) /\ src[k] = 0 /\ k # h BY <1>3, <1>9, <1>10, <1>11
<1>13. k \in h + 1 .. g - 1 BY <1>1, <1>2, <1>11, <1>12
<1>14. NoRoom(q, k) BY <1>13 DEF BarePair
<1>15. q[k] = Nop BY <1>12 DEF NopsIn
<1> QED BY <1>14, <1>15 DEF NoRoom, Nop, Record

(* A NOP has no name another record could have.                            *)
LEMMA NopsNameNothing ==
  ASSUME NEW p, IsProgram(p), NEW S, NEW q, IsProgram(q), NEW src, NopsIn(p, S, q, src, Len(p)), NamesOnce(q)
  PROVE  NamesOnce(p)
<1>1. DOMAIN p = 1 .. Len(p) /\ DOMAIN q = 1 .. Len(q) /\ Len(p) \in Nat BY ProgramFacts
<1>2. ASSUME NEW i \in 1 .. Len(p), NEW j \in 1 .. Len(p), i < j, p[i].k \in {"label", "set"}, p[j].k = "label"
      PROVE  p[i].n # p[j].n
  <2>1. i # 0 /\ j # 0 OBVIOUS
  <2>2. PICK a \in 1 .. Len(q) : src[a] = i BY DEF NopsIn
  <2>3. PICK b \in 1 .. Len(q) : src[b] = j BY DEF NopsIn
  <2>4. a < b
    <3>1. src[a] < src[b] <=> a < b BY <2>1, <2>2, <2>3, CopiesKeepOrder
    <3> QED BY <1>2, <2>2, <2>3, <3>1
  <2>5. q[a] = p[i] /\ q[b] = p[j]
    <3>1. src[a] # 0 /\ src[b] # 0 BY <2>1, <2>2, <2>3
    <3>2. q[a] = p[src[a]] BY <3>1 DEF NopsIn
    <3>3. q[b] = p[src[b]] BY <3>1 DEF NopsIn
    <3> QED BY <2>2, <2>3, <3>2, <3>3
  <2> QED BY <1>1, <1>2, <2>4, <2>5 DEF NamesOnce
<1> QED BY <1>1, <1>2 DEF NamesOnce

-----------------------------------------------------------------------------
(* Once the NOPs are in, the source has no bare pair.                      *)
Spaced ==
  /\ stage \in {"source", "flatten"} => ~relaid
  /\ stage \in {"pass1", "pass2", "errata"} /\ relaid /\ NamesOnce(prog) => \A h, g : ~BarePair(prog, h, g)

(* With the NOPs in, the source has no bare pair.                          *)
LEMMA NopsSpace ==
  ASSUME WellFormed, InStep, fixErratum835769
  PROVE  Spaced'
<1>1. stage = "errata" /\ prog' = WithNops(prog, insertSet) /\ stage' = "pass1" BY DEF fixErratum835769
<1>2. IsProgram(prog) BY <1>1 DEF WellFormed, Typed2
<1>3. PICK q : q = WithNops(prog, insertSet) OBVIOUS
<1>4. IsProgram(q) BY <1>2, <1>3, WithNopsIs
<1>5. PICK src : NopsIn(prog, insertSet, q, src, Len(prog))
  <2>1. \E src : NopsIn(prog, insertSet, q, src, Len(prog)) BY <1>2, <1>3, WithNopsIs
  <2> QED BY <2>1
<1>6. PICK S : S = insertSet OBVIOUS
<1>7. ASSUME NamesOnce(q), NEW h, NEW g, BarePair(q, h, g) PROVE FALSE
  <2>1. NopsIn(prog, S, q, src, Len(prog)) BY <1>5, <1>6
  <2>2. NamesOnce(prog) BY <1>2, <1>4, <1>7, <2>1, NopsNameNothing
  <2>3. \A a, b : BarePair(prog, a, b) => b \in S BY <1>1, <1>6, <2>2, PairIsFound
  <2> QED BY <1>2, <1>4, <1>7, <2>1, <2>3, NopsSeparate
<1>8. \A h, g : NamesOnce(q) => ~BarePair(q, h, g) BY <1>7
<1>9. prog' = q BY <1>1, <1>3
<1> QED BY <1>1, <1>8, <1>9 DEF Spaced, NamesOnce, BarePair, NoRoom, HasPending, RecAt

(* No step brings a bare pair back.                                        *)
LEMMA StepSpaced == ASSUME WellFormed, InStep, Spaced, Next PROVE Spaced'
<1>1. CASE Quiet
  <2>1. CASE Gone BY <2>1 DEF Gone, Spaced
  <2>2. CASE Reads BY <2>2 DEF Reads, Spaced
  <2> QED BY <1>1, <2>1, <2>2 DEF Quiet
<1>2. CASE Begins BY <1>2 DEF Begins, Spaced
<1>3. CASE Walks1
  <2>1. stage = "pass1" /\ stage' = "pass1" /\ prog' = prog /\ relaid' = relaid BY <1>3 DEF Walks1, WalkedOn
  <2> QED BY <2>1 DEF Spaced
<1>4. CASE Ends1
  <2>1. stage = "pass1" /\ stage' = "pass2" /\ prog' = prog /\ relaid' = relaid BY <1>4 DEF Ends1
  <2> QED BY <2>1 DEF Spaced
<1>5. CASE Emits2
  <2>1. stage = "pass2" /\ stage' \in {"pass2", "errata"} /\ prog' = prog /\ relaid' = relaid BY <1>5 DEF Emits2
  <2> QED BY <2>1 DEF Spaced
<1>6. CASE fixErratum835769 BY <1>6, NopsSpace
<1>7. CASE fixErratum843419
  <2>1. stage' = "done" BY <1>7 DEF fixErratum843419
  <2> QED BY <2>1 DEF Spaced
<1> QED BY <1>1, <1>2, <1>3, <1>4, <1>5, <1>6, <1>7, StepCases

(* After the workaround for 835769 has put in its NOPs, no load or store   *)
(* stands right before a multiply-accumulate in the source.                *)
THEOREM AssemblerSpaced == Spec => []Spaced
<1>1. Init => Spaced BY DEF Init, Spaced
<1>2. ASSUME Spaced, UNCHANGED vars PROVE Spaced'
  <2>1. UNCHANGED <<stage, prog, relaid>> BY <1>2 DEF vars
  <2> QED BY <1>2, <2>1 DEF Spaced
<1>3. WellFormed /\ InStep /\ Spaced /\ [Next]_vars => Spaced' BY <1>2, StepSpaced
<1> QED BY <1>1, <1>3, AssemblerWellFormed, AssemblerInStep, PTL DEF Spec

-----------------------------------------------------------------------------
(* A word of the image that is done, as it was before its last step.       *)
LEMMA FixKeepsNames ==
  ASSUME fixErratum843419, NEW c \in DOMAIN image, \A s \in DOMAIN image : IsChunk(image[s]),
         image'[c].n \in MemOp \cup {"mac"}
  PROVE  image'[c].n = image[c].n
<1>1. PICK fixed : fixed = [s \in DOMAIN image |-> IF image[s].k = "code" /\ image[s].pc \in Hit
                              THEN [image[s] EXCEPT !.n = "adr"] ELSE image[s]]
  OBVIOUS
<1>2. image' = image \/ image' = fixed BY <1>1 DEF fixErratum843419, Hit
<1>3. CASE image' = image BY <1>3
<1>4. CASE image' = fixed
  <2>1. PICK x : x = image[c] OBVIOUS
  <2>2. PICK y : y = [x EXCEPT !.n = "adr"] OBVIOUS
  <2>3. fixed[c] = x \/ fixed[c] = y BY <1>1, <2>1, <2>2
  <2>4. x = [k |-> x.k, n |-> x.n, pc |-> x.pc, len |-> x.len, rec |-> x.rec, val |-> x.val]
    BY <2>1 DEF IsChunk
  <2>5. y.n = "adr" BY <2>2, <2>4
  <2>6. fixed[c] # y BY <1>4, <2>5 DEF MemOp
  <2> QED BY <1>4, <2>1, <2>3, <2>6
<1> QED BY <1>2, <1>3, <1>4

(* The instruction words of the image that is done, and a sequence of them. *)
LEMMA FixLeavesPairs ==
  ASSUME WellFormed, stage = "errata", fixErratum843419,
         NEW i, i \in DOMAIN CodeMap', aarch64ErratumSequence(i)'
  PROVE  \E c, d \in 1 .. Len(image) :
           /\ CodeMap'[i].rec = image[c].rec /\ CodeMap'[i + 1].rec = image[d].rec
           /\ image[c].k = "code" /\ image[d].k = "code" /\ image[c].n \in MemOp /\ image[d].n = "mac"
           /\ image[d].pc = image[c].pc + 4
<1>1. Typed2(prog, res, at, pc, pending, image) BY DEF WellFormed
<1>2. /\ image \in Seq(Range(image)) /\ Len(image) \in Nat /\ DOMAIN image = 1 .. Len(image)
      /\ \A s \in 1 .. Len(image) : IsChunk(image[s])
  BY <1>1 DEF Typed2, Contig
<1>3. PICK im2 : im2 = image' OBVIOUS
<1>4. SameBut(image, im2) BY <1>1, <1>3, FixKeeps
<1>5. im2 \in Seq(Range(im2))
  <2>1. image' = image \/ image' \in [1 .. Len(image) -> Range(image')]
    <3>1. PICK hit : hit = Hit OBVIOUS
    <3>2. PICK fixed : fixed = [s \in DOMAIN image |-> IF image[s].k = "code" /\ image[s].pc \in hit
                                  THEN [image[s] EXCEPT !.n = "adr"] ELSE image[s]]
      OBVIOUS
    <3>3. image' = image \/ image' = fixed BY <3>1, <3>2 DEF fixErratum843419, Hit
    <3>4. fixed \in [1 .. Len(image) -> Range(fixed)] BY <1>2, <3>2 DEF Range
    <3> QED BY <3>3, <3>4
  <2>2. image' \in Seq(Range(image'))
    <3>1. CASE image' = image BY <1>2, <3>1
    <3>2. CASE image' \in [1 .. Len(image) -> Range(image')] BY <1>2, <3>2
    <3> QED BY <2>1, <3>1, <3>2
  <2> QED BY <1>3, <2>2
<1>6. PICK words : words = Kept(im2, Codes(im2)) OBVIOUS
<1>7. words = CodeMap' BY <1>3, <1>6 DEF CodeMap, Codes
<1>8. Codes(im2) \subseteq DOMAIN im2 BY DEF Codes
<1>9. words \in Seq(Range(im2)) /\ \E pos : Lists(words, im2, Codes(im2), pos)
  <2>1. Kept(im2, Codes(im2)) \in Seq(Range(im2)) /\ \E pos : Lists(Kept(im2, Codes(im2)), im2, Codes(im2), pos)
    BY <1>5, <1>8, KeptLists
  <2> QED BY <1>6, <2>1
<1>10. PICK pos : Lists(words, im2, Codes(im2), pos) BY <1>9
<1>11. DOMAIN words = 1 .. Len(words) /\ Len(words) \in Nat BY <1>9
<1>12. PICK j : j = i + 1 OBVIOUS
<1>13. /\ i \in DOMAIN words /\ j \in DOMAIN words /\ words[i].n \in MemOp /\ words[j].n = "mac"
       /\ words[j].pc = words[i].pc + 4 * (j - i)
  BY <1>7, <1>12 DEF aarch64ErratumSequence, Word, Adjacent
<1>14. i \in Nat /\ j - i = 1 BY <1>11, <1>12, <1>13
<1>15. PICK c, d : c = pos[i] /\ d = pos[j] OBVIOUS
<1>16. c \in Codes(im2) /\ d \in Codes(im2) /\ words[i] = im2[c] /\ words[j] = im2[d]
  BY <1>10, <1>11, <1>13, <1>15 DEF Lists
<1>17. c \in DOMAIN image /\ d \in DOMAIN image /\ im2[c].k = "code" /\ im2[d].k = "code"
  BY <1>4, <1>16 DEF Codes, SameBut
<1>18. /\ im2[c].k = image[c].k /\ im2[c].pc = image[c].pc /\ im2[c].rec = image[c].rec
       /\ im2[d].k = image[d].k /\ im2[d].pc = image[d].pc /\ im2[d].rec = image[d].rec
  BY <1>4, <1>17 DEF SameBut
<1>19. image[c].n \in MemOp /\ image[d].n = "mac"
  <2>1. image'[c].n \in MemOp /\ image'[d].n = "mac" BY <1>3, <1>13, <1>16
  <2>2. image'[c].n = image[c].n BY <1>2, <1>17, <2>1, FixKeepsNames
  <2>3. image'[d].n = image[d].n BY <1>2, <1>17, <2>1, FixKeepsNames
  <2> QED BY <2>1, <2>2, <2>3
<1>20. image[c].pc \in Int BY <1>2, <1>17 DEF IsChunk
<1>21. image[d].pc = image[c].pc + 4 BY <1>13, <1>14, <1>16, <1>18, <1>20
<1>22. CodeMap'[i].rec = image[c].rec /\ CodeMap'[i + 1].rec = image[d].rec BY <1>7, <1>12, <1>16, <1>18
<1> QED BY <1>2, <1>17, <1>18, <1>19, <1>21, <1>22

(* Hazards are separated when the assembly ends.                           *)
LEMMA FixLeavesSeparated ==
  ASSUME WellFormed, InStep, Spaced, stage = "errata", fixErratum843419
  PROVE  HazardsSeparated'
<1>1. stage' = "done" /\ prog' = prog /\ opts' = opts /\ ~MayInsert BY DEF fixErratum843419, given
<1>2. Typed2(prog, res, at, pc, pending, image) /\ at = Len(prog) + 2 BY DEF WellFormed
<1>3. Typed2(prog, res, Len(prog) + 2, pc, <<>>, image) BY <1>2 DEF Typed2
<1>4. ASSUME NamesOnce(prog), "835769" \in opts.fixes, NEW h, NEW g, BarePair(prog, h, g) PROVE FALSE
  <2>1. ~relaid BY <1>4 DEF Spaced
  <2>2. g \in insertSet BY <1>4, PairIsFound
  <2> QED BY <1>1, <1>4, <2>1, <2>2 DEF MayInsert
<1>5. ASSUME NamesOnce(prog), "835769" \in opts.fixes,
             NEW i \in DOMAIN CodeMap', aarch64ErratumSequence(i)'
      PROVE  \E r \in CodeMap'[i].rec .. CodeMap'[i + 1].rec : prog[r].k \in {"balign", "skip", "org"}
  <2>1. PICK A : Settled(prog, res, A, image) BY <1>5, ErrataSettled
  <2>2. PICK c, d \in 1 .. Len(image) :
          /\ CodeMap'[i].rec = image[c].rec /\ CodeMap'[i + 1].rec = image[d].rec
          /\ image[c].k = "code" /\ image[d].k = "code" /\ image[c].n \in MemOp /\ image[d].n = "mac"
          /\ image[d].pc = image[c].pc + 4
    BY <1>5, FixLeavesPairs
  <2>3. Padded(prog, image[c].rec, image[d].rec) \/ BarePair(prog, image[c].rec, image[d].rec)
    BY <1>3, <2>1, <2>2, SequenceIsSource
  <2>4. Padded(prog, image[c].rec, image[d].rec) BY <1>4, <1>5, <2>3
  <2> QED BY <2>2, <2>4 DEF Padded
<1> QED BY <1>1, <1>5 DEF HazardsSeparated, Done, NamesOnce

(* With the workaround for 835769, only padding keeps a load or store from *)
(* the multiply-accumulate right behind it.                                *)
THEOREM AssemblerHazards == Spec => []HazardsSeparated
<1>1. Init => HazardsSeparated
  <2> SUFFICES ASSUME Init PROVE HazardsSeparated OBVIOUS
  <2>1. stage = "pass1" \/ stage = "source" BY DEF Init
  <2> QED BY <2>1 DEF HazardsSeparated, Done
<1>2. ASSUME WellFormed, InStep, Spaced, HazardsSeparated, [Next]_vars PROVE HazardsSeparated'
  <2>1. CASE Next
    <3>1. CASE stage' = "done"
      <4>1. stage = "errata" /\ fixErratum843419 BY <1>2, <2>1, <3>1, OnlyFixIsDone
      <4> QED BY <1>2, <4>1, FixLeavesSeparated
    <3>2. CASE stage' # "done" BY <3>2 DEF HazardsSeparated, Done
    <3> QED BY <3>1, <3>2
  <2>2. CASE UNCHANGED vars
    <3>1. UNCHANGED <<stage, prog, opts, image>> BY <2>2 DEF vars, given
    <3> QED BY <1>2, <3>1 DEF HazardsSeparated, Done, NamesOnce, CodeMap, aarch64ErratumSequence, Word, Adjacent
  <2> QED BY <1>2, <2>1, <2>2
<1> QED BY <1>1, <1>2, AssemblerWellFormed, AssemblerInStep, AssemblerSpaced, PTL DEF Spec

=============================================================================
