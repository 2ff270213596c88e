-------------------------- MODULE EditModelProofs --------------------------
(***************************************************************************)
(* The editor's document, for every size of blocks, of the journal and of  *)
(* the lines: the id table is exact, Undo and Redo cannot panic, and the   *)
(* whole is a TextDocument, with exact undo, whatever blocks it is in.     *)
(***************************************************************************)
EXTENDS EditModel, SequenceTheorems, FiniteSetTheorems, WellFoundedInduction, TLAPS

(* Sequences that are joined.                                              *)
LEMMA Joins ==
  ASSUME NEW T
  PROVE  /\ \A x, y \in Seq(T) : x \o y \in Seq(T)
         /\ \A x, y \in Seq(T) : Len(x \o y) = Len(x) + Len(y)
<1>1. \A x, y \in Seq(T) : x \o y \in Seq(T) BY ConcatProperties
<1>2. \A x, y \in Seq(T) : Len(x \o y) = Len(x) + Len(y) BY ConcatProperties
<1> QED BY <1>1, <1>2, Zenon

Regroup(x, y, z) == (x \o y) \o z = x \o (y \o z)

LEMMA JoinsAssociate ==
  ASSUME NEW T
  PROVE  \A x, y, z \in Seq(T) : Regroup(x, y, z)
BY ConcatAssociative DEF Regroup

LEMMA JoinsEmpty ==
  ASSUME NEW T
  PROVE  <<>> \in Seq(T) /\ \A x \in Seq(T) : x \o <<>> = x /\ <<>> \o x = x
BY EmptySeq, ConcatEmptySeq

LEMMA Lengths ==
  ASSUME NEW T
  PROVE  \A x \in Seq(T) : Len(x) \in Nat /\ DOMAIN x = 1..Len(x)
BY LenProperties

LEMMA Single ==
  ASSUME NEW T
  PROVE  \A e \in T : <<e>> \in Seq(T) /\ Len(<<e>>) = 1 /\ <<e>>[1] = e
OBVIOUS

LEMMA First ==
  ASSUME NEW T, NEW x \in Seq(T), NEW y \in Seq(T), NEW i \in 1..Len(x)
  PROVE  (x \o y)[i] = x[i]
<1>1. Len(x) \in Nat /\ Len(y) \in Nat BY LenProperties
<1>2. i \in 1..Len(x) + Len(y) /\ i <= Len(x) BY <1>1
<1> QED BY <1>2, ConcatProperties

LEMMA Second ==
  ASSUME NEW T, NEW x \in Seq(T), NEW y \in Seq(T), NEW i \in 1..Len(y)
  PROVE  (x \o y)[Len(x) + i] = y[i]
<1>1. Len(x) \in Nat /\ Len(y) \in Nat BY LenProperties
<1>2. PICK k \in 1..Len(x) + Len(y) : k = Len(x) + i /\ ~(k <= Len(x)) /\ k - Len(x) = i BY <1>1
<1>3. (x \o y)[k] = IF k <= Len(x) THEN x[k] ELSE y[k - Len(x)] BY ConcatProperties
<1> QED BY <1>2, <1>3, Zenon

HoldsBoth(t, x, y) ==
  (\A i \in 1..Len(x) : t[i] = x[i]) /\ (\A i \in 1..Len(y) : t[Len(x) + i] = y[i])

LEMMA Elements ==
  ASSUME NEW T
  PROVE  \A x, y \in Seq(T) : HoldsBoth(x \o y, x, y)
<1> SUFFICES ASSUME NEW x \in Seq(T), NEW y \in Seq(T) PROVE HoldsBoth(x \o y, x, y) BY Zenon
<1>1. ASSUME NEW i \in 1..Len(x) PROVE (x \o y)[i] = x[i] BY First
<1>2. ASSUME NEW i \in 1..Len(y) PROVE (x \o y)[Len(x) + i] = y[i] BY Second
<1> QED BY <1>1, <1>2, Zenon DEF HoldsBoth

(* A sequence is its first i elements and the others.                      *)
LEMMA Split ==
  ASSUME NEW T, NEW s \in Seq(T), NEW i \in 0..Len(s)
  PROVE  /\ SubSeq(s, 1, i) \in Seq(T) /\ Len(SubSeq(s, 1, i)) = i
         /\ SubSeq(s, i + 1, Len(s)) \in Seq(T)
         /\ SubSeq(s, 1, i) \o SubSeq(s, i + 1, Len(s)) = s
<1>1. Len(s) \in Nat BY LenProperties
<1>2. SubSeq(s, 1, i) \in Seq(T) /\ Len(SubSeq(s, 1, i)) = i
  <2>1. \A j \in 1..i : s[j] \in T BY <1>1, ElementOfSeq
  <2>2. SubSeq(s, 1, i) \in Seq(T) /\ Len(SubSeq(s, 1, i)) = IF 1 <= i THEN i - 1 + 1 ELSE 0
    BY <1>1, <2>1, SubSeqProperties
  <2> QED BY <2>2
<1>3. SubSeq(s, i + 1, Len(s)) \in Seq(T)
  <2>1. i + 1 \in Int /\ Len(s) \in Int /\ \A j \in i + 1..Len(s) : s[j] \in T BY <1>1, ElementOfSeq
  <2> QED BY <2>1, SubSeqProperties
<1>4. SubSeq(s, 1, i) \o SubSeq(s, i + 1, Len(s)) = SubSeq(s, 1, Len(s))
  <2>1. 1 \in 1..Len(s) + 1 /\ i \in (1 - 1)..Len(s) /\ Len(s) \in i..Len(s) BY <1>1
  <2> QED BY <2>1, ConcatAdjacentSubSeq
<1>5. SubSeq(s, 1, Len(s)) = s BY SubSeqFull
<1> QED BY <1>2, <1>3, <1>4, <1>5, Zenon

(* And two sequences joined are the first elements and the others.         *)
LEMMA Parts ==
  ASSUME NEW T
  PROVE  \A x, y \in Seq(T) : /\ SubSeq(x \o y, 1, Len(x)) = x
                              /\ SubSeq(x \o y, Len(x) + 1, Len(x \o y)) = y
<1> SUFFICES ASSUME NEW x \in Seq(T), NEW y \in Seq(T)
             PROVE  /\ SubSeq(x \o y, 1, Len(x)) = x
                    /\ SubSeq(x \o y, Len(x) + 1, Len(x \o y)) = y
  BY Zenon
<1>1. PICK s \in Seq(T) : /\ s = x \o y /\ Len(s) = Len(x) + Len(y) BY ConcatProperties
<1>2. /\ \A i \in 1..Len(x) : s[i] = x[i]
      /\ \A i \in 1..Len(y) : s[Len(x) + i] = y[i]
  <2>1. HoldsBoth(x \o y, x, y) BY Elements, Zenon
  <2>2. HoldsBoth(s, x, y) BY <1>1, <2>1, Zenon
  <2> QED BY <2>2, Zenon DEF HoldsBoth
<1>3. Len(x) \in Nat /\ Len(y) \in Nat /\ Len(x) \in 0..Len(s) BY <1>1, LenProperties
<1>4. PICK n \in 0..Len(s) : n = Len(x) BY <1>3
<1>5. /\ SubSeq(s, 1, n) \in Seq(T) /\ Len(SubSeq(s, 1, n)) = n
      /\ SubSeq(s, n + 1, Len(s)) \in Seq(T)
      /\ SubSeq(s, 1, n) \o SubSeq(s, n + 1, Len(s)) = s
  BY Split
<1>6. PICK u \in Seq(T), v \in Seq(T) :
        /\ u = SubSeq(s, 1, n) /\ v = SubSeq(s, n + 1, Len(s)) /\ s = u \o v /\ Len(u) = n
  BY <1>5, Zenon
<1>7. /\ \A i \in 1..Len(u) : s[i] = u[i]
      /\ \A i \in 1..Len(v) : s[Len(u) + i] = v[i]
  <2>1. HoldsBoth(u \o v, u, v) BY Elements, Zenon
  <2>2. HoldsBoth(s, u, v) BY <1>6, <2>1, Zenon
  <2> QED BY <2>2, Zenon DEF HoldsBoth
<1>8. u = x
  <2>1. \A i \in 1..Len(u) : u[i] = x[i] BY <1>2, <1>4, <1>6, <1>7, Zenon
  <2>2. Len(u) = Len(x) BY <1>4, <1>6
  <2> QED BY <2>1, <2>2, SeqEqual
<1>9. Len(v) = Len(y)
  <2>1. Len(u \o v) = Len(u) + Len(v) /\ Len(v) \in Nat BY Joins, Lengths, Zenon
  <2>2. Len(s) = Len(u) + Len(v) BY <1>6, <2>1, Zenon
  <2>3. Len(u) = Len(x) BY <1>4, <1>6
  <2> QED BY <1>1, <1>3, <2>1, <2>2, <2>3
<1>10. v = y
  <2>1. ASSUME NEW i \in 1..Len(v) PROVE v[i] = y[i]
    <3>1. i \in 1..Len(y) BY <1>9, Zenon
    <3>2. s[Len(x) + i] = y[i] BY <1>2, <3>1, Zenon
    <3>3. s[Len(u) + i] = v[i] BY <1>7, Zenon
    <3>4. Len(u) = Len(x) BY <1>4, <1>6
    <3> QED BY <3>2, <3>3, <3>4, Zenon
  <2> QED BY <1>9, <2>1, SeqEqual
<1> QED BY <1>1, <1>4, <1>6, <1>8, <1>10, Zenon

(* An element among others: put in, taken out, read, replaced.             *)
Puts(x, e, y) == InsertAt(x \o y, Len(x) + 1, e) = x \o (<<e>> \o y)
Takes(x, e, y) == RemoveAt(x \o (<<e>> \o y), Len(x) + 1) = x \o y
Reads(x, e, y) == /\ (x \o (<<e>> \o y))[Len(x) + 1] = e
                  /\ Len(x \o (<<e>> \o y)) = Len(x) + Len(y) + 1
Rings(x, e, y) == Puts(x, e, y) /\ Takes(x, e, y) /\ Reads(x, e, y)

LEMMA Around ==
  ASSUME NEW T
  PROVE  \A x, y \in Seq(T), e \in T : Rings(x, e, y)
<1> SUFFICES ASSUME NEW x \in Seq(T), NEW y \in Seq(T), NEW e \in T PROVE Rings(x, e, y)
  BY Zenon
<1>1. PICK n \in Nat : n = Len(x) + 1 /\ n - 1 = Len(x) BY LenProperties
<1>2. PICK one \in Seq(T) : one = <<e>> /\ Len(one) = 1 /\ one[1] = e BY Single, Zenon
<1>3. PICK s \in Seq(T) : s = x \o y BY Joins, Zenon
<1>4. SubSeq(s, 1, n - 1) = x /\ SubSeq(s, n, Len(s)) = y BY <1>1, <1>3, Parts, Zenon
<1>5. InsertAt(s, n, e) = x \o (one \o y)
  <2>1. InsertAt(s, n, e) = (x \o one) \o y BY <1>2, <1>4, Zenon DEF InsertAt
  <2>2. Regroup(x, one, y) BY JoinsAssociate, Zenon
  <2> QED BY <2>1, <2>2, Zenon DEF Regroup
<1>6. PICK w \in Seq(T) : w = x \o one BY Joins, Zenon
<1>7. Len(w) = n
  <2>1. Len(w) = Len(x) + Len(one) BY <1>6, Joins, Zenon
  <2> QED BY <1>1, <1>2, <2>1
<1>8. PICK z \in Seq(T) : z = w \o y BY Joins, Zenon
<1>9. z = x \o (one \o y)
  <2>1. Regroup(x, one, y) BY JoinsAssociate, Zenon
  <2> QED BY <1>6, <1>8, <2>1, Zenon DEF Regroup
<1>10. SubSeq(z, n + 1, Len(z)) = y BY <1>7, <1>8, Parts, Zenon
<1>11. SubSeq(z, 1, n - 1) = x
  <2>1. one \o y \in Seq(T) BY Joins, Zenon
  <2> QED BY <1>1, <1>9, <2>1, Parts, Zenon
<1>12. RemoveAt(z, n) = s BY <1>3, <1>10, <1>11, Zenon DEF RemoveAt
<1>13. z[n] = e
  <2>1. n \in 1..Len(w) BY <1>1, <1>7
  <2>2. z[n] = w[n]
    <3>1. (w \o y)[n] = w[n] BY <2>1, First
    <3> QED BY <1>8, <3>1, Zenon
  <2>3. (x \o one)[Len(x) + 1] = one[1]
    <3>1. 1 \in 1..Len(one) BY <1>2
    <3> QED BY <3>1, First, Second
  <2> QED BY <1>1, <1>2, <1>6, <2>2, <2>3, Zenon
<1>14. Len(z) = Len(x) + Len(y) + 1
  <2>1. Len(z) = Len(w) + Len(y) BY <1>8, Joins, Zenon
  <2>2. Len(x) \in Nat /\ Len(y) \in Nat BY Lengths, Zenon
  <2> QED BY <1>1, <1>7, <2>1, <2>2
<1>15. Puts(x, e, y) BY <1>1, <1>2, <1>3, <1>5, Zenon DEF Puts
<1>16. Takes(x, e, y) BY <1>1, <1>2, <1>3, <1>9, <1>12, Zenon DEF Takes
<1>17. Reads(x, e, y) BY <1>1, <1>2, <1>9, <1>13, <1>14, Zenon DEF Reads
<1> QED BY <1>15, <1>16, <1>17, Zenon DEF Rings

(* A sequence around its i-th element ...                                  *)
Ring(s, x, e, y) == s = x \o (<<e>> \o y)

LEMMA Middle ==
  ASSUME NEW T, NEW s \in Seq(T), NEW i \in 1..Len(s)
  PROVE  \E x, y \in Seq(T) : x = SubSeq(s, 1, i - 1) /\ Len(x) = i - 1 /\ Ring(s, x, s[i], y)
<1>1. Len(s) \in Nat /\ s[i] \in T BY LenProperties, ElementOfSeq
<1>2. PICK m \in Nat : m = i - 1 /\ m + 1 = i /\ m \in 0..Len(s) /\ i \in 0..Len(s) BY <1>1
<1>3. /\ SubSeq(s, 1, m) \in Seq(T) /\ Len(SubSeq(s, 1, m)) = m
      /\ SubSeq(s, m + 1, Len(s)) \in Seq(T)
      /\ SubSeq(s, 1, m) \o SubSeq(s, m + 1, Len(s)) = s
  BY <1>2, Split
<1>4. PICK x \in Seq(T), w \in Seq(T) : x = SubSeq(s, 1, m) /\ s = x \o w /\ Len(x) = m
  BY <1>3, Zenon
<1>5. Len(w) \in Nat /\ Len(w) # 0 /\ 1 \in 0..Len(w) /\ 1 \in 1..Len(w)
  <2>1. Len(s) = Len(x) + Len(w) /\ Len(w) \in Nat BY <1>4, Joins, Lengths, Zenon
  <2> QED BY <1>2, <1>4, <2>1
<1>6. /\ SubSeq(w, 1, 1) \in Seq(T) /\ Len(SubSeq(w, 1, 1)) = 1
      /\ SubSeq(w, 1 + 1, Len(w)) \in Seq(T)
      /\ SubSeq(w, 1, 1) \o SubSeq(w, 1 + 1, Len(w)) = w
  BY <1>5, Split
<1>7. PICK o \in Seq(T), y \in Seq(T) : w = o \o y /\ Len(o) = 1 BY <1>6, Zenon
<1>8. o = <<s[i]>>
  <2>1. o[1] = s[i]
    <3>1. (o \o y)[1] = o[1]
      <4>1. 1 \in 1..Len(o) BY <1>7
      <4> QED BY <4>1, First, Second
    <3>2. (x \o w)[Len(x) + 1] = w[1] BY <1>5, Second
    <3>3. s[i] = w[1] BY <1>2, <1>4, <3>2, Zenon
    <3> QED BY <1>7, <3>1, <3>3, Zenon
  <2>2. PICK q \in Seq(T) : q = <<s[i]>> /\ Len(q) = 1 /\ q[1] = s[i] BY <1>1, Single, Zenon
  <2>3. Len(o) = Len(q) BY <1>7, <2>2
  <2>4. \A j \in 1..Len(o) : o[j] = q[j]
    <3>1. \A j \in 1..Len(o) : j = 1 BY <1>7
    <3> QED BY <2>1, <2>2, <3>1, Zenon
  <2>5. o = q BY <2>3, <2>4, SeqEqual
  <2> QED BY <2>2, <2>5, Zenon
<1>9. s = x \o (<<s[i]>> \o y) BY <1>4, <1>7, <1>8, Zenon
<1> QED BY <1>2, <1>4, <1>9, Zenon DEF Ring

(* ... which another may replace.                                          *)
LEMMA Replaces ==
  ASSUME NEW T
  PROVE  \A x, y \in Seq(T), e, f \in T :
           \A z : Ring(z, x, e, y) => Ring([z EXCEPT ![Len(x) + 1] = f], x, f, y)
<1> SUFFICES ASSUME NEW x \in Seq(T), NEW y \in Seq(T), NEW e \in T, NEW f \in T,
                    NEW z, Ring(z, x, e, y)
             PROVE  Ring([z EXCEPT ![Len(x) + 1] = f], x, f, y)
  BY Zenon
<1> DEFINE Is(o, v, u) == o \in Seq(T) /\ Len(o) = 1 /\ v \in Seq(T) /\ u \in Seq(T)
                          /\ v = o \o y /\ u = x \o v
<1>1. PICK o \in Seq(T), v \in Seq(T), s \in Seq(T) : o = <<e>> /\ Is(o, v, s) BY Joins, Single, Zenon
<1>2. PICK p \in Seq(T), w \in Seq(T), t \in Seq(T) : p = <<f>> /\ p[1] = f /\ Is(p, w, t)
  BY Joins, Single, Zenon
<1>3. PICK m \in Nat, k \in Nat : m = Len(x) /\ k = Len(y) BY Lengths, Zenon
<1>4. ASSUME NEW a, NEW b, NEW c, Is(a, b, c)
      PROVE  /\ Len(b) = 1 + k /\ Len(c) = m + (1 + k)
             /\ \A j \in 1..m : c[j] = x[j]
             /\ c[m + 1] = a[1]
             /\ \A j \in 1..k : c[m + (1 + j)] = y[j]
  <2>1. Len(b) = 1 + k
    <3>1. Len(a \o y) = Len(a) + Len(y) BY <1>4, Joins, Zenon
    <3> QED BY <1>3, <1>4, <3>1, Zenon
  <2>2. Len(c) = m + (1 + k)
    <3>1. Len(x \o b) = Len(x) + Len(b) BY <1>4, Joins, Zenon
    <3> QED BY <1>3, <1>4, <2>1, <3>1, Zenon
  <2>3. ASSUME NEW j \in 1..m PROVE c[j] = x[j]
    <3>1. j \in 1..Len(x) BY <1>3, Zenon
    <3>2. (x \o b)[j] = x[j] BY <1>4, <3>1, First
    <3> QED BY <1>4, <3>2, Zenon
  <2>4. c[m + 1] = a[1]
    <3>1. 1 \in 1..Len(a) /\ 1 \in 1..Len(b) /\ a \in Seq(T) BY <1>4, <2>1
    <3>2. (a \o y)[1] = a[1] BY <3>1, First
    <3>3. (x \o b)[Len(x) + 1] = b[1] BY <1>4, <3>1, Second
    <3> QED BY <1>3, <1>4, <3>2, <3>3, Zenon
  <2>5. ASSUME NEW j \in 1..k PROVE c[m + (1 + j)] = y[j]
    <3>1. j \in 1..Len(y) BY <1>3, Zenon
    <3>2. 1 + j \in 1..Len(b) BY <2>1
    <3>0. a \in Seq(T) BY <1>4
    <3>3. (a \o y)[Len(a) + j] = y[j] BY <3>0, <3>1, Second
    <3>4. (x \o b)[Len(x) + (1 + j)] = b[1 + j] BY <1>4, <3>2, Second
    <3> QED BY <1>3, <1>4, <3>3, <3>4, Zenon
  <2> QED BY <2>1, <2>2, <2>3, <2>4, <2>5, Zenon
<1> HIDE DEF Is
<1>5. /\ Len(s) = m + (1 + k) /\ Len(t) = m + (1 + k)
      /\ \A j \in 1..m : s[j] = x[j] /\ t[j] = x[j]
      /\ t[m + 1] = f
      /\ \A j \in 1..k : s[m + (1 + j)] = y[j] /\ t[m + (1 + j)] = y[j]
  <2>1. /\ Len(s) = m + (1 + k) /\ \A j \in 1..m : s[j] = x[j]
        /\ \A j \in 1..k : s[m + (1 + j)] = y[j]
    <3>1. Is(o, v, s) BY <1>1
    <3> QED BY <1>4, <3>1
  <2>2. /\ Len(t) = m + (1 + k) /\ \A j \in 1..m : t[j] = x[j]
        /\ t[m + 1] = p[1] /\ \A j \in 1..k : t[m + (1 + j)] = y[j]
    <3>1. Is(p, w, t) BY <1>2
    <3> QED BY <1>4, <3>1
  <2> QED BY <1>2, <2>1, <2>2, Zenon
<1>6. PICK r : r = [s EXCEPT ![m + 1] = f] OBVIOUS
<1>7. r \in Seq(T) /\ Len(r) = Len(s) /\ \A j \in 1..Len(s) : r[j] = IF j = m + 1 THEN f ELSE s[j]
  <2>1. PICK i \in 1..Len(s) : i = m + 1 BY <1>5
  <2>2. PICK u \in Seq(T) : u = s OBVIOUS
  <2>3. /\ [u EXCEPT ![i] = f] \in Seq(T) /\ Len([u EXCEPT ![i] = f]) = Len(u)
        /\ \A j \in 1..Len(u) : [u EXCEPT ![i] = f][j] = IF j = i THEN f ELSE u[j]
    BY <2>1, <2>2, ExceptSeq
  <2> QED BY <1>6, <2>1, <2>2, <2>3, Zenon
<1>8. ASSUME NEW j \in 1..Len(r) PROVE r[j] = t[j]
  <2>1. j \in 1..Len(s) /\ (j \in 1..m \/ j = m + 1 \/ \E h \in 1..k : j = m + (1 + h))
    <3>1. j \in 1..m + (1 + k) BY <1>5, <1>7, <1>8, Zenon
    <3>2. ASSUME ~(j \in 1..m), j # m + 1 PROVE \E h \in 1..k : j = m + (1 + h)
      <4>1. PICK h \in Nat : h = j - (m + 1) /\ h \in 1..k /\ j = m + (1 + h) BY <3>1, <3>2
      <4> QED BY <4>1, Zenon
    <3> QED BY <1>5, <3>1, <3>2, Zenon
  <2>2. CASE j = m + 1 BY <1>5, <1>7, <2>1, <2>2, Zenon
  <2>3. CASE j \in 1..m
    <3>1. j # m + 1 BY <2>3
    <3> QED BY <1>5, <1>7, <2>1, <2>3, <3>1, Zenon
  <2>4. ASSUME NEW h \in 1..k, j = m + (1 + h) PROVE r[j] = t[j]
    <3>1. j # m + 1 BY <2>4
    <3> QED BY <1>5, <1>7, <2>1, <2>4, <3>1, Zenon
  <2> QED BY <2>1, <2>2, <2>3, <2>4, Zenon
<1>9. Len(r) = Len(t) BY <1>5, <1>7, Zenon
<1>10. r = t BY <1>7, <1>8, <1>9, SeqEqual
<1>11. s = x \o (<<e>> \o y) /\ t = x \o (<<f>> \o y) BY <1>1, <1>2, Zenon DEF Is
<1>12. z = s BY <1>11, Zenon DEF Ring
<1> QED BY <1>3, <1>6, <1>10, <1>11, <1>12, Zenon DEF Ring

(* Where the elements of a joined sequence come from.                      *)
LEMMA Places ==
  ASSUME NEW T, NEW x \in Seq(T), NEW y \in Seq(T), NEW t, t = x \o y
  PROVE  /\ \A j \in DOMAIN t : \/ j \in DOMAIN x /\ t[j] = x[j]
                                \/ \E h \in DOMAIN y : j = Len(x) + h /\ t[j] = y[h]
         /\ \A j \in DOMAIN x : j \in DOMAIN t /\ t[j] = x[j]
         /\ \A h \in DOMAIN y : Len(x) + h \in DOMAIN t /\ t[Len(x) + h] = y[h]
<1>1. PICK m \in Nat, n \in Nat : m = Len(x) /\ n = Len(y) BY LenProperties
<1>2. DOMAIN x = 1..m /\ DOMAIN y = 1..n BY <1>1, LenProperties
<1>3. DOMAIN t = 1..m + n
  <2>1. x \o y \in Seq(T) /\ Len(x \o y) = Len(x) + Len(y) BY Joins, Zenon
  <2>2. t \in Seq(T) /\ Len(t) = m + n BY <1>1, <2>1, Zenon
  <2> QED BY <2>2, LenProperties
<1>4. ASSUME NEW j \in 1..m PROVE j \in 1..m + n /\ t[j] = x[j]
  <2>1. j \in 1..Len(x) BY <1>1, Zenon
  <2>2. (x \o y)[j] = x[j] BY <2>1, First
  <2>3. j \in 1..m + n BY <1>4
  <2> QED BY <2>2, <2>3, Zenon
<1>5. ASSUME NEW h \in 1..n PROVE m + h \in 1..m + n /\ t[m + h] = y[h]
  <2>1. h \in 1..Len(y) BY <1>1, Zenon
  <2>2. (x \o y)[Len(x) + h] = y[h] BY <2>1, Second
  <2>3. m + h \in 1..m + n BY <1>5
  <2> QED BY <1>1, <2>2, <2>3, Zenon
<1>6. \A j \in 1..m + n : j \in 1..m \/ \E h \in 1..n : j = m + h
  <2> SUFFICES ASSUME NEW j \in 1..m + n, ~(j \in 1..m) PROVE \E h \in 1..n : j = m + h
    BY Zenon
  <2>1. PICK h \in 1..n : h = j - m /\ j = m + h OBVIOUS
  <2> QED BY <2>1, Zenon
<1>7. \A j \in 1..m + n : \/ j \in 1..m /\ t[j] = x[j]
                          \/ \E h \in 1..n : j = m + h /\ t[j] = y[h]
  BY <1>4, <1>5, <1>6, Zenon
<1>8. \A j \in DOMAIN x : j \in DOMAIN t /\ t[j] = x[j] BY <1>2, <1>3, <1>4, Zenon
<1>9. \A h \in DOMAIN y : Len(x) + h \in DOMAIN t /\ t[Len(x) + h] = y[h]
  BY <1>1, <1>2, <1>3, <1>5, Zenon
<1>10. \A j \in DOMAIN t : \/ j \in DOMAIN x /\ t[j] = x[j]
                           \/ \E h \in DOMAIN y : j = Len(x) + h /\ t[j] = y[h]
  <2> SUFFICES ASSUME NEW j \in DOMAIN t
               PROVE \/ j \in DOMAIN x /\ t[j] = x[j]
                     \/ \E h \in DOMAIN y : j = Len(x) + h /\ t[j] = y[h]
    BY Zenon
  <2>1. j \in 1..m + n BY <1>3, Zenon
  <2>2. CASE j \in 1..m /\ t[j] = x[j] BY <1>2, <2>2, Zenon
  <2>3. ASSUME NEW h \in 1..n, j = m + h, t[j] = y[h]
        PROVE \E k \in DOMAIN y : j = Len(x) + k /\ t[j] = y[k]
    <3>1. h \in DOMAIN y /\ j = Len(x) + h BY <1>1, <1>2, <2>3, Zenon
    <3> QED BY <2>3, <3>1, Zenon
  <2> QED BY <1>7, <2>1, <2>2, <2>3, Zenon
<1> QED BY <1>8, <1>9, <1>10, Zenon
-----------------------------------------------------------------------------
(* Documents, and the ids of their lines, which no two lines share.        *)
AnyLine == [id : Nat, text : Nat]
Docs == Seq(AnyLine)
Unique(x) == \A i, j \in DOMAIN x : x[i].id = x[j].id => i = j

LEMMA IdsOfJoin ==
  ASSUME NEW x \in Docs, NEW y \in Docs
  PROVE  Ids(x \o y) = Ids(x) \cup Ids(y)
<1>1. PICK t : t = x \o y OBVIOUS
<1>2. /\ \A j \in DOMAIN t : \/ j \in DOMAIN x /\ t[j] = x[j]
                             \/ \E h \in DOMAIN y : j = Len(x) + h /\ t[j] = y[h]
      /\ \A j \in DOMAIN x : j \in DOMAIN t /\ t[j] = x[j]
      /\ \A h \in DOMAIN y : Len(x) + h \in DOMAIN t /\ t[Len(x) + h] = y[h]
  BY <1>1, Places DEF Docs
<1>3. \A j \in DOMAIN t : t[j].id \in Ids(x) \/ t[j].id \in Ids(y) BY <1>2, Zenon DEF Ids
<1>4. \A j \in DOMAIN x : x[j].id \in Ids(t) BY <1>2, Zenon DEF Ids
<1>5. \A j \in DOMAIN y : y[j].id \in Ids(t) BY <1>2, Zenon DEF Ids
<1>6. Ids(t) \subseteq Ids(x) \cup Ids(y) BY <1>3, Zenon DEF Ids
<1>7. Ids(x) \cup Ids(y) \subseteq Ids(t) BY <1>4, <1>5, Zenon DEF Ids
<1> QED BY <1>1, <1>6, <1>7, Zenon

LEMMA UniqueJoin ==
  ASSUME NEW x \in Docs, NEW y \in Docs
  PROVE  Unique(x \o y) <=> (Unique(x) /\ Unique(y) /\ Ids(x) \cap Ids(y) = {})
<1>1. PICK t : t = x \o y OBVIOUS
<1>2. /\ \A j \in DOMAIN t : \/ j \in DOMAIN x /\ t[j] = x[j]
                             \/ \E h \in DOMAIN y : j = Len(x) + h /\ t[j] = y[h]
      /\ \A j \in DOMAIN x : j \in DOMAIN t /\ t[j] = x[j]
      /\ \A h \in DOMAIN y : Len(x) + h \in DOMAIN t /\ t[Len(x) + h] = y[h]
  BY <1>1, Places DEF Docs
<1>3. /\ \A j \in DOMAIN x, h \in DOMAIN y : j # Len(x) + h
      /\ \A h, g \in DOMAIN y : Len(x) + h = Len(x) + g => h = g
  <2>1. /\ Len(x) \in Nat /\ Len(y) \in Nat /\ DOMAIN x = 1..Len(x) /\ DOMAIN y = 1..Len(y)
    BY Lengths, Zenon DEF Docs
  <2> QED BY <2>1
<1>4. ASSUME Unique(t) PROVE Unique(x) /\ Unique(y) /\ Ids(x) \cap Ids(y) = {}
  <2>1. Unique(x) BY <1>2, <1>4, Zenon DEF Unique
  <2>2. Unique(y)
    <3> SUFFICES ASSUME NEW h \in DOMAIN y, NEW g \in DOMAIN y, y[h].id = y[g].id PROVE h = g
      BY Zenon DEF Unique
    <3>1. PICK i \in DOMAIN t, j \in DOMAIN t :
            i = Len(x) + h /\ j = Len(x) + g /\ t[i] = y[h] /\ t[j] = y[g]
      BY <1>2, Zenon
    <3>2. i = j
      <4>1. t[i].id = t[j].id BY <3>1, Zenon
      <4> QED BY <1>4, <4>1, Zenon DEF Unique
    <3>3. Len(x) + h = Len(x) + g BY <3>1, <3>2, Zenon
    <3> QED BY <1>3, <3>3, Zenon
  <2>3. ASSUME NEW k \in Ids(x), k \in Ids(y) PROVE FALSE
    <3>1. PICK j \in DOMAIN x, h \in DOMAIN y : k = x[j].id /\ k = y[h].id BY <2>3, Zenon DEF Ids
    <3>2. PICK i \in DOMAIN t : i = Len(x) + h /\ t[i] = y[h] BY <1>2, Zenon
    <3>3. j \in DOMAIN t /\ t[j] = x[j] BY <1>2, Zenon
    <3>4. j = i
      <4>1. t[i].id = t[j].id BY <3>1, <3>2, <3>3, Zenon
      <4> QED BY <1>4, <3>3, <4>1, Zenon DEF Unique
    <3> QED BY <1>3, <3>2, <3>4, Zenon
  <2> QED BY <2>1, <2>2, <2>3, Zenon
<1>5. ASSUME Unique(x), Unique(y), Ids(x) \cap Ids(y) = {} PROVE Unique(t)
  <2>1. \A j \in DOMAIN x, h \in DOMAIN y : x[j].id # y[h].id BY <1>5, Zenon DEF Ids
  <2>2. \A j, i \in DOMAIN x : x[j].id = x[i].id => j = i BY <1>5, Zenon DEF Unique
  <2>3. \A j, i \in DOMAIN y : y[j].id = y[i].id => j = i BY <1>5, Zenon DEF Unique
  <2>4. ASSUME NEW i \in DOMAIN t, NEW j \in DOMAIN t, t[i].id = t[j].id PROVE i = j
    <3>1. CASE i \in DOMAIN x /\ t[i] = x[i]
      <4>1. CASE j \in DOMAIN x /\ t[j] = x[j] BY <2>2, <2>4, <3>1, <4>1, Zenon
      <4>2. CASE \E h \in DOMAIN y : t[j] = y[h] BY <2>1, <2>4, <3>1, <4>2, Zenon
      <4> QED BY <1>2, <4>1, <4>2, Zenon
    <3>2. ASSUME NEW h \in DOMAIN y, i = Len(x) + h, t[i] = y[h] PROVE i = j
      <4>1. CASE j \in DOMAIN x /\ t[j] = x[j] BY <2>1, <2>4, <3>2, <4>1, Zenon
      <4>2. ASSUME NEW k \in DOMAIN y, j = Len(x) + k, t[j] = y[k] PROVE i = j
        <5>1. h = k BY <2>3, <2>4, <3>2, <4>2, Zenon
        <5> QED BY <3>2, <4>2, <5>1, Zenon
      <4> QED BY <1>2, <4>1, <4>2, Zenon
    <3> QED BY <1>2, <3>1, <3>2, Zenon
  <2> QED BY <2>4, Zenon DEF Unique
<1> QED BY <1>1, <1>4, <1>5, Zenon

LEMMA IdsOfOne ==
  ASSUME NEW l \in AnyLine
  PROVE  <<l>> \in Docs /\ Ids(<<l>>) = {l.id} /\ Unique(<<l>>)
<1>1. PICK o : o = <<l>> /\ o \in Docs /\ DOMAIN o = {1} /\ o[1] = l
  <2>1. <<l>> \in Docs /\ <<l>>[1] = l BY Single, Zenon DEF Docs
  <2>2. DOMAIN <<l>> = {1} OBVIOUS
  <2> QED BY <2>1, <2>2, Zenon
<1>2. Ids(o) = {l.id} BY <1>1, Zenon DEF Ids
<1>3. Unique(o) BY <1>1, Zenon DEF Unique
<1> QED BY <1>1, <1>2, <1>3, Zenon

LEMMA IdsOfNone ==
  <<>> \in Docs /\ Ids(<<>>) = {} /\ Unique(<<>>)
<1>1. <<>> \in Docs BY JoinsEmpty, Zenon DEF Docs
<1>2. DOMAIN <<>> = {} OBVIOUS
<1> QED BY <1>1, <1>2, Zenon DEF Ids, Unique

-----------------------------------------------------------------------------
(* What holds of 0, and of n + 1 when it does of n, holds of every number. *)
LEMMA Climb ==
  ASSUME NEW S, 0 \in S, \A n \in Nat : n \in S => n + 1 \in S
  PROVE  \A n \in Nat : n \in S
<1> DEFINE Bad == {n \in Nat : n \notin S}
<1> SUFFICES ASSUME Bad # {} PROVE FALSE OBVIOUS
<1>1. Bad \subseteq Nat OBVIOUS
<1>2. PICK lo \in Bad : \A m \in Bad : ~(<<m, lo>> \in OpToRel(<, Nat))
  <2> HIDE DEF Bad
  <2> QED BY <1>1, NatLessThanWellFounded, WFMin
<1>3. lo \in Nat /\ lo \notin S OBVIOUS
<1>4. PICK m \in Nat : lo = m + 1 /\ m < lo
  <2>1. lo # 0 BY <1>3
  <2> QED BY <1>3, <2>1
<1>5. <<m, lo>> \in OpToRel(<, Nat) BY <1>3, <1>4 DEF OpToRel
<1>6. m \notin Bad
  <2> HIDE DEF Bad
  <2> QED BY <1>2, <1>5, Zenon
<1>7. m \in S BY <1>6
<1> QED BY <1>3, <1>4, <1>7, Zenon

(* A value for each of n steps, given the first and how each is made.      *)
Stepped(g, n, V, v, s) ==
  g \in [0..n -> V] /\ g[0] = v /\ \A i \in 1..n : g[i] = s[i][g[i - 1]]

LEMMA Recursion ==
  ASSUME NEW n \in Nat, NEW V, NEW v \in V, NEW s \in [1..n -> [V -> V]]
  PROVE  \E g : Stepped(g, n, V, v, s)
<1> DEFINE S == {m \in Nat : m <= n => \E g : Stepped(g, m, V, v, s)}
<1>1. 0 \in S
  <2>1. PICK g : g = [i \in 0..0 |-> v] OBVIOUS
  <2>2. g \in [0..0 -> V] /\ g[0] = v BY <2>1
  <2>3. \A i \in 1..0 : FALSE OBVIOUS
  <2>4. Stepped(g, 0, V, v, s) BY <2>2, <2>3, Zenon DEF Stepped
  <2> QED BY <2>4
<1>2. ASSUME NEW m \in Nat, m \in S PROVE m + 1 \in S
  <2> SUFFICES ASSUME m + 1 <= n PROVE \E g : Stepped(g, m + 1, V, v, s) OBVIOUS
  <2>1. PICK p \in 1..n : p = m + 1 /\ p - 1 = m /\ m <= n OBVIOUS
  <2>2. PICK g : Stepped(g, m, V, v, s) BY <1>2, <2>1
  <2>3. g \in [0..m -> V] /\ g[0] = v /\ \A i \in 1..m : g[i] = s[i][g[i - 1]]
    BY <2>2, Zenon DEF Stepped
  <2>4. m \in 0..m /\ 0 \in 0..m /\ m \in 0..p /\ 0 \in 0..p BY <2>1
  <2>5. PICK c \in V : c = s[p][g[m]]
    <3>1. g[m] \in V /\ s[p] \in [V -> V] BY <2>3, <2>4, Zenon
    <3> QED BY <3>1
  <2>6. PICK f : f = [i \in 0..p |-> IF i = p THEN c ELSE g[i]] OBVIOUS
  <2>7. \A i \in 0..p : i = p \/ i \in 0..m BY <2>1
  <2>8. \A i \in 0..m : i # p /\ i \in 0..p BY <2>1
  <2>9. \A i \in 0..m : f[i] = g[i] BY <2>6, <2>8, Zenon
  <2>10. p \in 0..p /\ f[p] = c
    <3>1. p \in 0..p BY <2>1
    <3> QED BY <2>6, <3>1, Zenon
  <2>11. f \in [0..p -> V]
    <3>1. \A i \in 0..p : f[i] \in V BY <2>3, <2>7, <2>9, <2>10, Zenon
    <3> QED BY <2>6, <3>1, Zenon
  <2>12. f[0] = v BY <2>3, <2>4, <2>9, Zenon
  <2>13. ASSUME NEW i \in 1..p PROVE f[i] = s[i][f[i - 1]]
    <3>1. CASE i = p
      <4>1. f[m] = g[m] BY <2>4, <2>9, Zenon
      <4> QED BY <2>1, <2>5, <2>10, <3>1, <4>1, Zenon
    <3>2. CASE i # p
      <4>1. i \in 1..m /\ i \in 0..m /\ i - 1 \in 0..m BY <2>1, <3>2
      <4>2. f[i] = g[i] /\ f[i - 1] = g[i - 1] BY <2>9, <4>1, Zenon
      <4> QED BY <2>3, <4>1, <4>2, Zenon
    <3> QED BY <3>1, <3>2
  <2>14. Stepped(f, p, V, v, s) BY <2>11, <2>12, <2>13, Zenon DEF Stepped
  <2> QED BY <2>1, <2>14, Zenon
<1>3. \A m \in Nat : m \in S
  <2> HIDE DEF S
  <2> QED BY <1>1, <1>2, Climb
<1>4. n \in S BY <1>3, Zenon
<1> QED BY <1>4

(* Two such lists of values are the same as far as both go.                *)
SameStep(f, g, n) == f[0] = g[0] /\ \A i \in 1..n : f[i - 1] = g[i - 1] => f[i] = g[i]

LEMMA SameSteps ==
  ASSUME NEW n \in Nat, NEW f, NEW g, SameStep(f, g, n)
  PROVE  \A i \in 0..n : f[i] = g[i]
<1> DEFINE S == {m \in Nat : m <= n => f[m] = g[m]}
<1>1. 0 \in S BY DEF SameStep
<1>2. ASSUME NEW m \in Nat, m \in S PROVE m + 1 \in S
  <2> SUFFICES ASSUME m + 1 <= n PROVE f[m + 1] = g[m + 1] OBVIOUS
  <2>1. PICK p \in 1..n : p = m + 1 /\ p - 1 = m /\ m <= n OBVIOUS
  <2>2. f[m] = g[m] BY <1>2, <2>1
  <2> QED BY <2>1, <2>2, Zenon DEF SameStep
<1>3. \A m \in Nat : m \in S
  <2> HIDE DEF S
  <2> QED BY <1>1, <1>2, Climb
<1>4. ASSUME NEW i \in 0..n PROVE f[i] = g[i]
  <2>1. i \in Nat /\ i <= n OBVIOUS
  <2>2. i \in S BY <1>3, <2>1, Zenon
  <2> QED BY <2>1, <2>2
<1> QED BY <1>4, Zenon

-----------------------------------------------------------------------------
(* The lines of blocks joined are the lines of the ones, then the others.  *)
Block == [ptr : Nat, lines : Docs]
Blocks == Seq(Block)

LEMMA DocFacts ==
  /\ \A x, y \in Docs : x \o y \in Docs /\ Len(x \o y) = Len(x) + Len(y)
  /\ \A x \in Docs : x \o <<>> = x /\ <<>> \o x = x
  /\ \A x \in Docs : Len(x) \in Nat /\ DOMAIN x = 1..Len(x)
  /\ <<>> \in Docs /\ \A l \in AnyLine : <<l>> \in Docs
<1>1. \A x, y \in Docs : x \o y \in Docs /\ Len(x \o y) = Len(x) + Len(y)
  BY Joins, Zenon DEF Docs
<1>2. \A x \in Docs : x \o <<>> = x /\ <<>> \o x = x BY JoinsEmpty, Zenon DEF Docs
<1>3. \A x \in Docs : Len(x) \in Nat /\ DOMAIN x = 1..Len(x) BY Lengths, Zenon DEF Docs
<1>4. <<>> \in Docs /\ \A l \in AnyLine : <<l>> \in Docs BY JoinsEmpty, Single, Zenon DEF Docs
<1> QED BY <1>1, <1>2, <1>3, <1>4, Zenon

LEMMA DocsAssociate ==
  \A x, y, z \in Docs : Regroup(x, y, z)
BY JoinsAssociate, Zenon DEF Docs

LEMMA DocsAround ==
  \A x, y \in Docs, l \in AnyLine : Rings(x, l, y)
BY Around, Zenon DEF Docs

LEMMA BlockFacts ==
  /\ \A x, y \in Blocks : x \o y \in Blocks /\ Len(x \o y) = Len(x) + Len(y)
  /\ \A x \in Blocks : x \o <<>> = x /\ <<>> \o x = x
  /\ \A x \in Blocks : Len(x) \in Nat /\ DOMAIN x = 1..Len(x)
  /\ <<>> \in Blocks /\ \A b \in Block : <<b>> \in Blocks
<1>1. \A x, y \in Blocks : x \o y \in Blocks /\ Len(x \o y) = Len(x) + Len(y)
  BY Joins, Zenon DEF Blocks
<1>2. \A x \in Blocks : x \o <<>> = x /\ <<>> \o x = x BY JoinsEmpty, Zenon DEF Blocks
<1>3. \A x \in Blocks : Len(x) \in Nat /\ DOMAIN x = 1..Len(x) BY Lengths, Zenon DEF Blocks
<1>4. <<>> \in Blocks /\ \A b \in Block : <<b>> \in Blocks BY JoinsEmpty, Single, Zenon DEF Blocks
<1> QED BY <1>1, <1>2, <1>3, <1>4, Zenon

LEMMA BlocksAssociate ==
  \A x, y, z \in Blocks : Regroup(x, y, z)
BY JoinsAssociate, Zenon DEF Blocks

LEMMA BlocksAround ==
  \A x, y \in Blocks, b \in Block : Rings(x, b, y)
BY Around, Zenon DEF Blocks

LEMMA BlockAt ==
  ASSUME NEW bs \in Blocks, NEW i \in 1..Len(bs)
  PROVE  bs[i] \in Block /\ bs[i].lines \in Docs /\ bs[i].ptr \in Nat
<1>1. bs[i] \in Block BY ElementOfSeq DEF Blocks
<1> QED BY <1>1 DEF Block

(* The documents FlattenSeq makes, one for each block so far.              *)
Gathered(bs, n, g) ==
  /\ \A i \in 0..n : g[i] \in Docs
  /\ g[0] = <<>> /\ \A i \in 1..n : g[i] = g[i - 1] \o bs[i].lines

LEMMA Gathering ==
  ASSUME NEW bs \in Blocks, NEW n \in 0..Len(bs)
  PROVE  \E g : Gathered(bs, n, g)
<1>1. n \in Nat /\ Len(bs) \in Nat BY BlockFacts
<1>2. PICK s : s = [i \in 1..n |-> [d \in Docs |-> d \o bs[i].lines]] OBVIOUS
<1>3. s \in [1..n -> [Docs -> Docs]]
  <2>1. ASSUME NEW i \in 1..n PROVE [d \in Docs |-> d \o bs[i].lines] \in [Docs -> Docs]
    <3>1. i \in 1..Len(bs) BY <1>1
    <3>2. PICK l \in Docs : l = bs[i].lines BY <3>1, BlockAt, Zenon
    <3>3. \A d \in Docs : d \o bs[i].lines \in Docs BY <3>2, DocFacts, Zenon
    <3> QED BY <3>3, Zenon
  <2> QED BY <1>2, <2>1, Zenon
<1>4. PICK g : Stepped(g, n, Docs, <<>>, s) BY <1>1, <1>3, DocFacts, Recursion
<1>5. g \in [0..n -> Docs] /\ g[0] = <<>> /\ \A i \in 1..n : g[i] = s[i][g[i - 1]]
  BY <1>4, Zenon DEF Stepped
<1>6. \A i \in 1..n : g[i] = g[i - 1] \o bs[i].lines
  <2> SUFFICES ASSUME NEW i \in 1..n PROVE g[i] = g[i - 1] \o bs[i].lines OBVIOUS
  <2>1. i - 1 \in 0..n BY <1>1
  <2>2. g[i - 1] \in Docs BY <1>5, <2>1, Zenon
  <2>3. s[i] = [d \in Docs |-> d \o bs[i].lines] BY <1>2, Zenon
  <2>4. s[i][g[i - 1]] = g[i - 1] \o bs[i].lines BY <2>2, <2>3, Zenon
  <2> QED BY <1>5, <2>4, Zenon
<1>7. Gathered(bs, n, g)
  <2>1. \A i \in 0..n : g[i] \in Docs BY <1>5, Zenon
  <2> QED BY <1>5, <1>6, <2>1, Zenon DEF Gathered
<1> QED BY <1>7, Zenon

LEMMA GatheredOnce ==
  ASSUME NEW a \in Blocks, NEW b \in Blocks, NEW n \in Nat, NEW f, NEW g,
         Gathered(a, n, f), Gathered(b, n, g), \A i \in 1..n : a[i] = b[i]
  PROVE  f[n] = g[n]
<1>1. f[0] = g[0] BY Zenon DEF Gathered
<1>2. \A i \in 1..n : f[i - 1] = g[i - 1] => f[i] = g[i] BY Zenon DEF Gathered
<1>3. \A i \in 0..n : f[i] = g[i]
  <2>1. SameStep(f, g, n) BY <1>1, <1>2, Zenon DEF SameStep
  <2> QED BY <2>1, SameSteps
<1>4. n \in 0..n OBVIOUS
<1> QED BY <1>3, <1>4, Zenon

LEMMA LinesGathered ==
  ASSUME NEW bs \in Blocks, NEW g, Gathered(bs, Len(bs), g)
  PROVE  Lines(bs) = g[Len(bs)]
<1>1. PICK n \in Nat : n = Len(bs) /\ DOMAIN bs = 1..n BY BlockFacts, Zenon
<1>2. PICK ls : ls = [i \in DOMAIN bs |-> bs[i].lines] OBVIOUS
<1>3. ls \in Seq(Docs) /\ Len(ls) = n /\ \A i \in 1..n : ls[i] = bs[i].lines
  <2>1. \A i \in 1..n : bs[i].lines \in Docs BY <1>1, BlockAt
  <2>2. ls = [i \in 1..n |-> bs[i].lines] BY <1>1, <1>2, Zenon
  <2>3. ls \in [1..n -> Docs] BY <2>1, <2>2, Zenon
  <2>4. \A i \in 1..n : ls[i] = bs[i].lines BY <2>2, Zenon
  <2> QED BY <2>3, <2>4
<1>4. Lines(bs) = FlattenSeq(ls) BY <1>2, Zenon DEF Lines
<1>5. \A i \in 0..n : g[i] \in Docs BY <1>1, Zenon DEF Gathered
<1>6. g[0] = <<>> /\ \A i \in 1..n : g[i] = g[i - 1] \o bs[i].lines BY <1>1, Zenon DEF Gathered
<1>7. CASE n = 0
  <2>1. ls = <<>> BY <1>3, <1>7
  <2>2. FlattenSeq(ls) = ls BY <1>3, <1>7, Zenon DEF FlattenSeq
  <2> QED BY <1>1, <1>4, <1>6, <1>7, <2>1, <2>2, Zenon
<1>8. CASE n # 0
  <2> DEFINE E(f) == f = [i \in 1..Len(ls) |-> IF i = 1 THEN ls[i] ELSE f[i - 1] \o ls[i]]
  <2>1. PICK h : h = [i \in 1..n |-> g[i]] OBVIOUS
  <2>2. \A i \in 1..n : h[i] = g[i] BY <2>1, Zenon
  <2>3. \A i \in 1..n : h[i] = IF i = 1 THEN ls[i] ELSE h[i - 1] \o ls[i]
    <3> SUFFICES ASSUME NEW i \in 1..n PROVE h[i] = IF i = 1 THEN ls[i] ELSE h[i - 1] \o ls[i]
      BY Zenon
    <3>1. g[i] = g[i - 1] \o ls[i] BY <1>3, <1>6, Zenon
    <3>2. CASE i = 1
      <4>1. i - 1 = 0 BY <3>2
      <4>2. g[i] = <<>> \o ls[i] BY <1>6, <3>1, <4>1, Zenon
      <4>3. ls[i] \in Docs BY <1>3, ElementOfSeq
      <4>4. <<>> \o ls[i] = ls[i] BY <4>3, DocFacts, Zenon
      <4> QED BY <2>2, <3>2, <4>2, <4>4, Zenon
    <3>3. CASE i # 1
      <4>1. i - 1 \in 1..n BY <3>3
      <4> QED BY <2>2, <3>1, <3>3, <4>1, Zenon
    <3> QED BY <3>2, <3>3
  <2>4. E(h)
    <3>1. h = [i \in 1..n |-> h[i]] BY <2>1, Zenon
    <3>2. [i \in 1..n |-> h[i]] = [i \in 1..n |-> IF i = 1 THEN ls[i] ELSE h[i - 1] \o ls[i]]
      BY <2>3, Zenon
    <3> QED BY <1>3, <3>1, <3>2, Zenon
  <2>5. PICK f : f = CHOOSE k : E(k) OBVIOUS
  <2>6. FlattenSeq(ls) = f[n] BY <1>3, <1>8, <2>5, Zenon DEF FlattenSeq
  <2>7. E(f)
    <3> HIDE DEF E
    <3> QED BY <2>4, <2>5, Zenon
  <2>8. \A i \in 1..n : f[i] = IF i = 1 THEN ls[i] ELSE f[i - 1] \o ls[i]
    BY <1>3, <2>7, Zenon
  <2>9. PICK z : z = [i \in 0..n |-> IF i = 0 THEN <<>> ELSE f[i]] OBVIOUS
  <2>10. \A i \in 0..n : z[i] = g[i]
    <3>1. 0 \in 0..n /\ \A i \in 1..n : i # 0 /\ i \in 0..n OBVIOUS
    <3>2. z[0] = <<>> /\ \A i \in 1..n : z[i] = f[i] BY <2>9, <3>1, Zenon
    <3>3. z[0] = g[0] BY <1>6, <3>2, Zenon
    <3>4. ASSUME NEW i \in 1..n, z[i - 1] = g[i - 1] PROVE z[i] = g[i]
      <4>1. CASE i = 1
        <5>1. 1 \in 1..n BY <1>8
        <5>2. h[1] = ls[1] /\ f[1] = ls[1] BY <2>3, <2>8, <5>1, Zenon
        <5> QED BY <2>2, <3>2, <4>1, <5>1, <5>2, Zenon
      <4>2. CASE i # 1
        <5>1. i - 1 \in 1..n BY <4>2
        <5>2. f[i] = f[i - 1] \o ls[i] /\ h[i] = h[i - 1] \o ls[i] BY <2>3, <2>8, <4>2, Zenon
        <5>3. f[i - 1] = g[i - 1] /\ h[i - 1] = g[i - 1] BY <2>2, <3>2, <3>4, <5>1, Zenon
        <5> QED BY <2>2, <3>2, <5>2, <5>3, Zenon
      <4> QED BY <4>1, <4>2
    <3>5. SameStep(z, g, n) BY <3>3, <3>4, Zenon DEF SameStep
    <3> QED BY <3>5, SameSteps
  <2>11. n \in 0..n /\ n # 0 BY <1>8
  <2> QED BY <1>1, <1>4, <2>6, <2>9, <2>10, <2>11, Zenon
<1> QED BY <1>7, <1>8

(* A sequence that is not empty ends in its last element.                  *)
Ends(s, x, e) == s = x \o <<e>> /\ Len(s) = Len(x) + 1 /\ Last(s) = e /\ Front(s) = x

LEMMA Ending ==
  ASSUME NEW T, NEW s \in Seq(T), s # <<>>
  PROVE  \E x \in Seq(T), e \in T : Ends(s, x, e)
<1>1. PICK x \in Seq(T), e \in T : s = Append(x, e) BY SequenceEmptyOrAppend
<1>2. PICK o \in Seq(T) : o = <<e>> /\ Len(o) = 1 /\ o[1] = e BY Single, Zenon
<1>3. Append(x, e) = x \o o BY <1>2, AppendIsConcat
<1>4. s = x \o o BY <1>1, <1>3, Zenon
<1>5. PICK m \in Nat, n \in Nat : m = Len(x) /\ n = Len(s) /\ n = m + 1 /\ n - 1 = m
  <2>1. Len(s) = Len(x) + Len(o) /\ Len(x) \in Nat BY <1>4, Joins, Lengths, Zenon
  <2> QED BY <1>2, <2>1
<1>6. Front(s) = x
  <2>1. SubSeq(s, 1, m) = x BY <1>4, <1>5, Parts, Zenon
  <2> QED BY <1>5, <2>1, Zenon DEF Front
<1>7. Last(s) = e
  <2>1. 1 \in 1..Len(o) BY <1>2
  <2>2. (x \o o)[Len(x) + 1] = o[1] BY <2>1, Second
  <2> QED BY <1>2, <1>4, <1>5, <2>2, Zenon DEF Last
<1> QED BY <1>2, <1>4, <1>5, <1>6, <1>7, Zenon DEF Ends

LEMMA BlocksEnd ==
  \A s \in Blocks : s # <<>> => \E x \in Blocks, e \in Block : Ends(s, x, e)
BY Ending, Zenon DEF Blocks

LEMMA LinesType ==
  \A bs \in Blocks : Lines(bs) \in Docs
<1> SUFFICES ASSUME NEW bs \in Blocks PROVE Lines(bs) \in Docs OBVIOUS
<1>1. Len(bs) \in Nat BY BlockFacts, Zenon
<1>2. Len(bs) \in 0..Len(bs) BY <1>1
<1>3. PICK g : Gathered(bs, Len(bs), g) BY <1>2, Gathering
<1>4. Lines(bs) = g[Len(bs)] BY <1>3, LinesGathered
<1> QED BY <1>2, <1>3, <1>4, Zenon DEF Gathered

LEMMA LinesAppend ==
  ASSUME NEW bs \in Blocks, NEW b \in Block
  PROVE  Lines(bs \o <<b>>) = Lines(bs) \o b.lines
<1>1. PICK c \in Blocks : c = bs \o <<b>> BY BlockFacts, Zenon
<1>2. PICK n \in Nat, p \in Nat : n = Len(bs) /\ p = n + 1 /\ p - 1 = n BY BlockFacts
<1>3. PICK o \in Blocks : o = <<b>> /\ Len(o) = 1 /\ o[1] = b BY Single, Zenon DEF Blocks
<1>4. Len(c) = p
  <2>1. Len(c) = Len(bs) + Len(o) BY <1>1, <1>3, BlockFacts, Zenon
  <2> QED BY <1>2, <1>3, <2>1
<1>5. n \in 0..Len(bs) /\ p \in 0..Len(c) /\ p \in 1..p /\ n \in 0..p BY <1>2, <1>4
<1>6. PICK f : Gathered(bs, n, f) BY <1>5, Gathering
<1>7. PICK g : Gathered(c, p, g) BY <1>5, Gathering
<1>8. \A i \in 1..n : bs[i] = c[i]
  <2> SUFFICES ASSUME NEW i \in 1..n PROVE bs[i] = c[i] OBVIOUS
  <2>1. i \in 1..Len(bs) /\ bs \in Seq(Block) /\ o \in Seq(Block) BY <1>2, Zenon DEF Blocks
  <2>2. (bs \o o)[i] = bs[i] BY <2>1, First
  <2> QED BY <1>1, <1>3, <2>2, Zenon
<1>9. c[p] = b
  <2>1. 1 \in 1..Len(o) /\ bs \in Seq(Block) /\ o \in Seq(Block) BY <1>3 DEF Blocks
  <2>2. (bs \o o)[Len(bs) + 1] = o[1] BY <2>1, Second
  <2> QED BY <1>1, <1>2, <1>3, <2>2, Zenon
<1>10. Gathered(c, n, g)
  <2>1. \A i \in 1..n : i \in 1..p BY <1>2
  <2>2. \A i \in 0..n : i \in 0..p BY <1>2
  <2> QED BY <1>7, <2>1, <2>2, Zenon DEF Gathered
<1>11. f[n] = g[n] BY <1>6, <1>8, <1>10, GatheredOnce
<1>12. Lines(bs) = f[n] /\ Lines(c) = g[p] BY <1>2, <1>4, <1>6, <1>7, LinesGathered, Zenon
<1>13. g[p] = g[n] \o b.lines BY <1>2, <1>5, <1>7, <1>9, Zenon DEF Gathered
<1> QED BY <1>1, <1>11, <1>12, <1>13, Zenon

LEMMA LinesNone == Lines(<<>>) = <<>>
<1>1. <<>> \in Blocks /\ Len(<<>>) = 0 BY BlockFacts
<1>2. Len(<<>>) \in 0..Len(<<>>) BY <1>1
<1>3. PICK g : Gathered(<<>>, Len(<<>>), g) BY <1>1, <1>2, Gathering
<1>4. Lines(<<>>) = g[Len(<<>>)] BY <1>1, <1>3, LinesGathered
<1> QED BY <1>1, <1>3, <1>4, Zenon DEF Gathered

LEMMA LinesOne ==
  ASSUME NEW b \in Block
  PROVE  Lines(<<b>>) = b.lines
<1>1. Lines(<<>> \o <<b>>) = Lines(<<>>) \o b.lines BY LinesAppend, BlockFacts
<1>2. <<>> \o <<b>> = <<b>> BY BlockFacts, Zenon
<1>3. b.lines \in Docs BY DEF Block
<1>4. <<>> \o b.lines = b.lines BY <1>3, DocFacts, Zenon
<1> QED BY <1>1, <1>2, <1>4, LinesNone, Zenon

LEMMA LinesJoin ==
  \A a, b \in Blocks : Lines(a \o b) = Lines(a) \o Lines(b)
<1> SUFFICES ASSUME NEW a \in Blocks
             PROVE  \A b \in Blocks : Lines(a \o b) = Lines(a) \o Lines(b)
  BY Zenon
<1> DEFINE Good(b) == Lines(a \o b) = Lines(a) \o Lines(b)
           S == {n \in Nat : \A b \in Blocks : Len(b) = n => Good(b)}
<1>1. Good(<<>>)
  <2>1. a \o <<>> = a BY BlockFacts, Zenon
  <2>2. Lines(a) \o <<>> = Lines(a) BY LinesType, DocFacts, Zenon
  <2> QED BY <2>1, <2>2, LinesNone, Zenon
<1>2. ASSUME NEW b \in Blocks, NEW e \in Block, Good(b) PROVE Good(b \o <<e>>)
  <2>1. PICK o \in Blocks : o = <<e>> BY BlockFacts, Zenon
  <2>2. PICK l \in Docs : l = e.lines BY DEF Block
  <2>3. PICK j \in Blocks : j = a \o b BY BlockFacts, Zenon
  <2>4. Lines(j \o o) = Lines(j) \o l BY <2>1, <2>2, LinesAppend, Zenon
  <2>5. Lines(b \o o) = Lines(b) \o l BY <2>1, <2>2, LinesAppend, Zenon
  <2>6. j \o o = a \o (b \o o)
    <3>1. Regroup(a, b, o) BY BlocksAssociate, Zenon
    <3> QED BY <2>3, <3>1, Zenon DEF Regroup
  <2>7. Lines(j) = Lines(a) \o Lines(b) BY <1>2, <2>3, Zenon
  <2>8. (Lines(a) \o Lines(b)) \o l = Lines(a) \o (Lines(b) \o l)
    <3>1. PICK u \in Docs, v \in Docs : u = Lines(a) /\ v = Lines(b) BY LinesType, Zenon
    <3>2. Regroup(u, v, l) BY DocsAssociate, Zenon
    <3> QED BY <3>1, <3>2, Zenon DEF Regroup
  <2>9. Lines(a \o (b \o o)) = Lines(a) \o Lines(b \o o)
    BY <2>4, <2>5, <2>6, <2>7, <2>8, Zenon
  <2> QED BY <2>1, <2>9, Zenon
<1> HIDE DEF Good
<1>3. 0 \in S
  <2>1. \A b \in Blocks : Len(b) = 0 => b = <<>> BY EmptySeq DEF Blocks
  <2> QED BY <1>1, <2>1
<1>4. ASSUME NEW n \in Nat, n \in S PROVE n + 1 \in S
  <2> SUFFICES ASSUME NEW b \in Blocks, Len(b) = n + 1 PROVE Good(b) OBVIOUS
  <2>1. b # <<>>
    <3>1. Len(<<>>) = 0 OBVIOUS
    <3>2. n + 1 # 0 OBVIOUS
    <3> QED BY <3>1, <3>2, Zenon DEF Blocks
  <2>2. PICK x \in Blocks, e \in Block : b = x \o <<e>> /\ Len(b) = Len(x) + 1
    BY <2>1, BlocksEnd, Zenon DEF Ends
  <2>3. Len(x) = n
    <3>1. Len(x) \in Nat BY BlockFacts, Zenon
    <3> QED BY <2>2, <3>1
  <2>4. Good(x) BY <1>4, <2>3
  <2> QED BY <1>2, <2>2, <2>4, Zenon
<1>5. \A n \in Nat : n \in S
  <2> HIDE DEF S
  <2> QED BY <1>3, <1>4, Climb
<1>6. ASSUME NEW b \in Blocks PROVE Good(b)
  <2>1. Len(b) \in Nat BY BlockFacts, Zenon
  <2>2. Len(b) \in S BY <1>5, <2>1, Zenon
  <2> QED BY <2>2
<1> QED BY <1>6, Zenon DEF Good

-----------------------------------------------------------------------------
(* The blocks' addresses, which no two blocks share, and an id table that  *)
(* gives each line of each block that block's address.                     *)
Ptrs(bs) == {bs[i].ptr : i \in DOMAIN bs}
Distinct(bs) == \A i, j \in DOMAIN bs : bs[i].ptr = bs[j].ptr => i = j
At(bs, m) == \A i \in DOMAIN bs : \A id \in Ids(bs[i].lines) : m[id] = bs[i].ptr

LEMMA PtrsOfJoin ==
  ASSUME NEW x \in Blocks, NEW y \in Blocks
  PROVE  /\ Ptrs(x \o y) = Ptrs(x) \cup Ptrs(y)
         /\ \A m : At(x \o y, m) <=> (At(x, m) /\ At(y, m))
<1>1. PICK t : t = x \o y OBVIOUS
<1>2. /\ \A j \in DOMAIN t : \/ j \in DOMAIN x /\ t[j] = x[j]
                             \/ \E h \in DOMAIN y : j = Len(x) + h /\ t[j] = y[h]
      /\ \A j \in DOMAIN x : j \in DOMAIN t /\ t[j] = x[j]
      /\ \A h \in DOMAIN y : Len(x) + h \in DOMAIN t /\ t[Len(x) + h] = y[h]
  BY <1>1, Places DEF Blocks
<1>3. \A j \in DOMAIN t : t[j].ptr \in Ptrs(x) \/ t[j].ptr \in Ptrs(y) BY <1>2, Zenon DEF Ptrs
<1>4. \A j \in DOMAIN x : x[j].ptr \in Ptrs(t) BY <1>2, Zenon DEF Ptrs
<1>5. \A j \in DOMAIN y : y[j].ptr \in Ptrs(t) BY <1>2, Zenon DEF Ptrs
<1>6. Ptrs(t) \subseteq Ptrs(x) \cup Ptrs(y) BY <1>3, Zenon DEF Ptrs
<1>7. Ptrs(x) \cup Ptrs(y) \subseteq Ptrs(t) BY <1>4, <1>5, Zenon DEF Ptrs
<1>8. ASSUME NEW m PROVE At(t, m) <=> (At(x, m) /\ At(y, m))
  <2> DEFINE P(b) == \A id \in Ids(b.lines) : m[id] = b.ptr
  <2>1. \A u : At(u, m) <=> \A i \in DOMAIN u : P(u[i]) BY Zenon DEF At
  <2> HIDE DEF P
  <2>2. ASSUME At(t, m) PROVE At(x, m) /\ At(y, m)
    <3>1. \A j \in DOMAIN t : P(t[j]) BY <2>1, <2>2, Zenon
    <3>2. \A j \in DOMAIN x : P(x[j]) BY <1>2, <3>1, Zenon
    <3>3. \A j \in DOMAIN y : P(y[j]) BY <1>2, <3>1, Zenon
    <3> QED BY <2>1, <3>2, <3>3, Zenon
  <2>3. ASSUME At(x, m), At(y, m) PROVE At(t, m)
    <3>1. (\A j \in DOMAIN x : P(x[j])) /\ (\A j \in DOMAIN y : P(y[j])) BY <2>1, <2>3, Zenon
    <3>2. \A j \in DOMAIN t : P(t[j]) BY <1>2, <3>1, Zenon
    <3> QED BY <2>1, <3>2, Zenon
  <2> QED BY <2>2, <2>3, Zenon
<1> QED BY <1>1, <1>6, <1>7, <1>8, Zenon

LEMMA DistinctJoin ==
  ASSUME NEW x \in Blocks, NEW y \in Blocks
  PROVE  Distinct(x \o y) <=> (Distinct(x) /\ Distinct(y) /\ Ptrs(x) \cap Ptrs(y) = {})
<1>1. PICK t : t = x \o y OBVIOUS
<1>2. /\ \A j \in DOMAIN t : \/ j \in DOMAIN x /\ t[j] = x[j]
                             \/ \E h \in DOMAIN y : j = Len(x) + h /\ t[j] = y[h]
      /\ \A j \in DOMAIN x : j \in DOMAIN t /\ t[j] = x[j]
      /\ \A h \in DOMAIN y : Len(x) + h \in DOMAIN t /\ t[Len(x) + h] = y[h]
  BY <1>1, Places DEF Blocks
<1>3. /\ \A j \in DOMAIN x, h \in DOMAIN y : j # Len(x) + h
      /\ \A h, g \in DOMAIN y : Len(x) + h = Len(x) + g => h = g
  <2>1. /\ Len(x) \in Nat /\ Len(y) \in Nat /\ DOMAIN x = 1..Len(x) /\ DOMAIN y = 1..Len(y)
    BY Lengths, Zenon DEF Blocks
  <2> QED BY <2>1
<1>4. ASSUME Distinct(t) PROVE Distinct(x) /\ Distinct(y) /\ Ptrs(x) \cap Ptrs(y) = {}
  <2>1. Distinct(x) BY <1>2, <1>4, Zenon DEF Distinct
  <2>2. Distinct(y)
    <3> SUFFICES ASSUME NEW h \in DOMAIN y, NEW g \in DOMAIN y, y[h].ptr = y[g].ptr PROVE h = g
      BY Zenon DEF Distinct
    <3>1. PICK i \in DOMAIN t, j \in DOMAIN t :
            i = Len(x) + h /\ j = Len(x) + g /\ t[i] = y[h] /\ t[j] = y[g]
      BY <1>2, Zenon
    <3>2. i = j
      <4>1. t[i].ptr = t[j].ptr BY <3>1, Zenon
      <4> QED BY <1>4, <4>1, Zenon DEF Distinct
    <3>3. Len(x) + h = Len(x) + g BY <3>1, <3>2, Zenon
    <3> QED BY <1>3, <3>3, Zenon
  <2>3. ASSUME NEW k \in Ptrs(x), k \in Ptrs(y) PROVE FALSE
    <3>1. PICK j \in DOMAIN x, h \in DOMAIN y : k = x[j].ptr /\ k = y[h].ptr BY <2>3, Zenon DEF Ptrs
    <3>2. PICK i \in DOMAIN t : i = Len(x) + h /\ t[i] = y[h] BY <1>2, Zenon
    <3>3. j \in DOMAIN t /\ t[j] = x[j] BY <1>2, Zenon
    <3>4. j = i
      <4>1. t[i].ptr = t[j].ptr BY <3>1, <3>2, <3>3, Zenon
      <4> QED BY <1>4, <3>3, <4>1, Zenon DEF Distinct
    <3> QED BY <1>3, <3>2, <3>4, Zenon
  <2> QED BY <2>1, <2>2, <2>3, Zenon
<1>5. ASSUME Distinct(x), Distinct(y), Ptrs(x) \cap Ptrs(y) = {} PROVE Distinct(t)
  <2>1. \A j \in DOMAIN x, h \in DOMAIN y : x[j].ptr # y[h].ptr BY <1>5, Zenon DEF Ptrs
  <2>2. \A j, i \in DOMAIN x : x[j].ptr = x[i].ptr => j = i BY <1>5, Zenon DEF Distinct
  <2>3. \A j, i \in DOMAIN y : y[j].ptr = y[i].ptr => j = i BY <1>5, Zenon DEF Distinct
  <2>4. ASSUME NEW i \in DOMAIN t, NEW j \in DOMAIN t, t[i].ptr = t[j].ptr PROVE i = j
    <3>1. CASE i \in DOMAIN x /\ t[i] = x[i]
      <4>1. CASE j \in DOMAIN x /\ t[j] = x[j] BY <2>2, <2>4, <3>1, <4>1, Zenon
      <4>2. CASE \E h \in DOMAIN y : t[j] = y[h] BY <2>1, <2>4, <3>1, <4>2, Zenon
      <4> QED BY <1>2, <4>1, <4>2, Zenon
    <3>2. ASSUME NEW h \in DOMAIN y, i = Len(x) + h, t[i] = y[h] PROVE i = j
      <4>1. CASE j \in DOMAIN x /\ t[j] = x[j] BY <2>1, <2>4, <3>2, <4>1, Zenon
      <4>2. ASSUME NEW k \in DOMAIN y, j = Len(x) + k, t[j] = y[k] PROVE i = j
        <5>1. h = k BY <2>3, <2>4, <3>2, <4>2, Zenon
        <5> QED BY <3>2, <4>2, <5>1, Zenon
      <4> QED BY <1>2, <4>1, <4>2, Zenon
    <3> QED BY <1>2, <3>1, <3>2, Zenon
  <2> QED BY <2>4, Zenon DEF Distinct
<1> QED BY <1>1, <1>4, <1>5, Zenon

LEMMA PtrsOfOne ==
  ASSUME NEW b \in Block
  PROVE  /\ Ptrs(<<b>>) = {b.ptr} /\ Distinct(<<b>>)
         /\ \A m : At(<<b>>, m) <=> \A id \in Ids(b.lines) : m[id] = b.ptr
<1>1. PICK o : o = <<b>> /\ DOMAIN o = {1} /\ o[1] = b
  <2>1. DOMAIN <<b>> = {1} /\ <<b>>[1] = b OBVIOUS
  <2> QED BY <2>1, Zenon
<1>2. Ptrs(o) = {b.ptr} BY <1>1, Zenon DEF Ptrs
<1>3. Distinct(o) BY <1>1, Zenon DEF Distinct
<1>4. \A m : At(o, m) <=> \A id \in Ids(b.lines) : m[id] = b.ptr BY <1>1, Zenon DEF At
<1> QED BY <1>1, <1>2, <1>3, <1>4, Zenon

LEMMA PtrsOfNone ==
  Ptrs(<<>>) = {} /\ Distinct(<<>>) /\ \A m : At(<<>>, m)
<1>1. DOMAIN <<>> = {} OBVIOUS
<1> QED BY <1>1, Zenon DEF Ptrs, Distinct, At
-----------------------------------------------------------------------------
(* A document is sound when no line and no address is there twice and the  *)
(* table knows its lines and no others.                                    *)
Sound(bs, m) ==
  /\ bs \in Blocks /\ Unique(Lines(bs)) /\ Distinct(bs)
  /\ DOMAIN m = Ids(Lines(bs)) /\ At(bs, m)

(* The same, said of one block and what is around it.                      *)
Pieces(a, b, z, m) ==
  /\ Unique(Lines(a)) /\ Unique(b.lines) /\ Unique(Lines(z))
  /\ Ids(Lines(a)) \cap Ids(b.lines) = {} /\ Ids(Lines(a)) \cap Ids(Lines(z)) = {}
  /\ Ids(b.lines) \cap Ids(Lines(z)) = {}
  /\ Distinct(a) /\ Distinct(z) /\ b.ptr \notin Ptrs(a) /\ b.ptr \notin Ptrs(z)
  /\ Ptrs(a) \cap Ptrs(z) = {}
  /\ DOMAIN m = Ids(Lines(a)) \cup Ids(b.lines) \cup Ids(Lines(z))
  /\ At(a, m) /\ At(z, m) /\ \A id \in Ids(b.lines) : m[id] = b.ptr

LEMMA LinesAround ==
  ASSUME NEW a \in Blocks, NEW b \in Block, NEW z \in Blocks
  PROVE  /\ a \o (<<b>> \o z) \in Blocks
         /\ Lines(a \o (<<b>> \o z)) = Lines(a) \o (b.lines \o Lines(z))
         /\ Lines(a) \in Docs /\ b.lines \in Docs /\ Lines(z) \in Docs
<1>1. PICK o \in Blocks : o = <<b>> /\ Lines(o) = b.lines BY BlockFacts, LinesOne, Zenon
<1>2. PICK y \in Blocks : y = o \o z BY BlockFacts, Zenon
<1>3. Lines(y) = b.lines \o Lines(z) BY <1>1, <1>2, LinesJoin, Zenon
<1>4. Lines(a \o y) = Lines(a) \o Lines(y) BY LinesJoin, Zenon
<1>5. a \o y \in Blocks BY BlockFacts, Zenon
<1>6. b.lines \in Docs BY DEF Block
<1> QED BY <1>1, <1>2, <1>3, <1>4, <1>5, <1>6, LinesType, Zenon

LEMMA SoundAround ==
  ASSUME NEW a \in Blocks, NEW b \in Block, NEW z \in Blocks, NEW m
  PROVE  Sound(a \o (<<b>> \o z), m) <=> Pieces(a, b, z, m)
<1>1. PICK o \in Blocks : o = <<b>> /\ Ptrs(o) = {b.ptr} /\ Distinct(o)
        /\ (At(o, m) <=> \A id \in Ids(b.lines) : m[id] = b.ptr)
  BY BlockFacts, PtrsOfOne, Zenon
<1>2. PICK y \in Blocks : y = o \o z BY BlockFacts, Zenon
<1>3. PICK t \in Blocks : t = a \o y BY BlockFacts, Zenon
<1>4. PICK la \in Docs, lb \in Docs, lz \in Docs : la = Lines(a) /\ lb = b.lines /\ lz = Lines(z)
  BY LinesAround, Zenon
<1>5. PICK ly \in Docs, lt \in Docs : ly = lb \o lz /\ lt = la \o ly BY DocFacts, Zenon
<1>6. Lines(t) = lt BY <1>1, <1>2, <1>3, <1>4, <1>5, LinesAround, ZenonT(60)
<1>7. Ids(lt) = Ids(la) \cup Ids(ly) /\ Ids(ly) = Ids(lb) \cup Ids(lz) BY <1>5, IdsOfJoin, Zenon
<1>8. Unique(lt) <=> (Unique(la) /\ Unique(ly) /\ Ids(la) \cap Ids(ly) = {})
  <2>1. Unique(la \o ly) <=> (Unique(la) /\ Unique(ly) /\ Ids(la) \cap Ids(ly) = {}) BY UniqueJoin
  <2> QED BY <1>5, <2>1, Zenon
<1>9. Unique(ly) <=> (Unique(lb) /\ Unique(lz) /\ Ids(lb) \cap Ids(lz) = {})
  <2>1. Unique(lb \o lz) <=> (Unique(lb) /\ Unique(lz) /\ Ids(lb) \cap Ids(lz) = {}) BY UniqueJoin
  <2> QED BY <1>5, <2>1, Zenon
<1>10. Distinct(t) <=> (Distinct(a) /\ Distinct(y) /\ Ptrs(a) \cap Ptrs(y) = {})
  <2>1. Distinct(a \o y) <=> (Distinct(a) /\ Distinct(y) /\ Ptrs(a) \cap Ptrs(y) = {}) BY DistinctJoin
  <2> QED BY <1>3, <2>1, Zenon
<1>11. Distinct(y) <=> (Distinct(o) /\ Distinct(z) /\ Ptrs(o) \cap Ptrs(z) = {})
  <2>1. Distinct(o \o z) <=> (Distinct(o) /\ Distinct(z) /\ Ptrs(o) \cap Ptrs(z) = {}) BY DistinctJoin
  <2> QED BY <1>2, <2>1, Zenon
<1>12. Ptrs(y) = {b.ptr} \cup Ptrs(z)
  <2>1. Ptrs(o \o z) = Ptrs(o) \cup Ptrs(z) BY PtrsOfJoin
  <2> QED BY <1>1, <1>2, <2>1, Zenon
<1>13. At(t, m) <=> (At(a, m) /\ At(z, m) /\ \A id \in Ids(b.lines) : m[id] = b.ptr)
  <2>1. At(a \o y, m) <=> (At(a, m) /\ At(y, m)) BY PtrsOfJoin
  <2>2. At(o \o z, m) <=> (At(o, m) /\ At(z, m)) BY PtrsOfJoin
  <2> QED BY <1>1, <1>2, <1>3, <2>1, <2>2, Zenon
<1>14. Sound(t, m) <=> /\ Unique(la) /\ Unique(ly) /\ Ids(la) \cap Ids(ly) = {}
                       /\ Distinct(a) /\ Distinct(y) /\ Ptrs(a) \cap Ptrs(y) = {}
                       /\ DOMAIN m = Ids(lt) /\ At(t, m)
  BY <1>6, <1>8, <1>10, Zenon DEF Sound
<1>15. /\ Ids(la) \cap Ids(ly) = {} <=> (Ids(la) \cap Ids(lb) = {} /\ Ids(la) \cap Ids(lz) = {})
       /\ Ids(lt) = Ids(la) \cup Ids(lb) \cup Ids(lz)
  BY <1>7
<1>16. /\ Ptrs(a) \cap Ptrs(y) = {} <=> (b.ptr \notin Ptrs(a) /\ Ptrs(a) \cap Ptrs(z) = {})
       /\ Ptrs(o) \cap Ptrs(z) = {} <=> b.ptr \notin Ptrs(z)
  BY <1>1, <1>12
<1>17. Sound(t, m) <=> Pieces(a, b, z, m)
  BY <1>1, <1>4, <1>9, <1>11, <1>13, <1>14, <1>15, <1>16, Zenon DEF Pieces
<1> QED BY <1>1, <1>2, <1>3, <1>17, Zenon

Flat(ls, a, b, z) == ls = Lines(a) \o (b.lines \o Lines(z))

LEMMA RingFacts ==
  ASSUME NEW a \in Blocks, NEW b \in Block, NEW z \in Blocks, NEW bs, Ring(bs, a, b, z)
  PROVE  /\ bs \in Blocks /\ Flat(Lines(bs), a, b, z)
         /\ Lines(a) \in Docs /\ b.lines \in Docs /\ Lines(z) \in Docs
         /\ \A m : Sound(bs, m) <=> Pieces(a, b, z, m)
BY LinesAround, SoundAround, Zenon DEF Ring, Flat

(* A table that keeps its addresses for a block's lines stays right there. *)
LEMMA BlockIds ==
  ASSUME NEW bs \in Blocks, NEW i \in 1..Len(bs)
  PROVE  Ids(bs[i].lines) \subseteq Ids(Lines(bs))
<1>1. bs \in Seq(Block) BY DEF Blocks
<1>2. \E a, z \in Seq(Block) : a = SubSeq(bs, 1, i - 1) /\ Len(a) = i - 1 /\ Ring(bs, a, bs[i], z)
  BY <1>1, Middle
<1>3. PICK b \in Block : b = bs[i] BY BlockAt, Zenon
<1>4. PICK a \in Blocks, z \in Blocks : Ring(bs, a, b, z) BY <1>2, <1>3, Zenon DEF Blocks
<1>5. /\ Flat(Lines(bs), a, b, z)
      /\ Lines(a) \in Docs /\ b.lines \in Docs /\ Lines(z) \in Docs
  BY <1>4, RingFacts, Zenon
<1>6. PICK y \in Docs : y = b.lines \o Lines(z) BY <1>5, DocFacts, Zenon
<1>7. Ids(Lines(a) \o y) = Ids(Lines(a)) \cup Ids(y) BY <1>5, IdsOfJoin
<1>8. Ids(b.lines \o Lines(z)) = Ids(b.lines) \cup Ids(Lines(z)) BY <1>5, IdsOfJoin
<1> QED BY <1>3, <1>5, <1>6, <1>7, <1>8, Zenon DEF Flat

LEMMA AtKept ==
  ASSUME NEW bs \in Blocks, NEW m, NEW n, At(bs, m), \A id \in Ids(Lines(bs)) : n[id] = m[id]
  PROVE  At(bs, n)
<1>1. DOMAIN bs = 1..Len(bs) BY BlockFacts, Zenon
<1>2. \A i \in DOMAIN bs : \A id \in Ids(bs[i].lines) : id \in Ids(Lines(bs))
  BY <1>1, BlockIds, Zenon
<1> QED BY <1>2, Zenon DEF At

-----------------------------------------------------------------------------
(* Block i is where its lines are, after the lines of the blocks before.   *)
LEMMA BlockMiddle ==
  ASSUME NEW bs \in Blocks, NEW i \in 1..Len(bs)
  PROVE  \E a, z \in Blocks : /\ Ring(bs, a, bs[i], z) /\ Len(a) = i - 1
                              /\ Start(bs, i) = Len(Lines(a))
<1>1. bs \in Seq(Block) BY DEF Blocks
<1>2. \E a, z \in Seq(Block) : a = SubSeq(bs, 1, i - 1) /\ Len(a) = i - 1 /\ Ring(bs, a, bs[i], z)
  BY <1>1, Middle
<1> QED BY <1>2, Zenon DEF Blocks, Start

LEMMA MiddleBlock ==
  ASSUME NEW a \in Blocks, NEW b \in Block, NEW z \in Blocks,
         NEW bs, Ring(bs, a, b, z)
  PROVE  /\ bs \in Blocks /\ Len(a) + 1 \in 1..Len(bs) /\ bs[Len(a) + 1] = b
         /\ Start(bs, Len(a) + 1) = Len(Lines(a))
         /\ \A c \in Block : Ring([bs EXCEPT ![Len(a) + 1] = c], a, c, z)
<1>0. bs = a \o (<<b>> \o z) BY DEF Ring
<1>1. PICK n \in Nat : n = Len(a) + 1 /\ n - 1 = Len(a) BY BlockFacts
<1>2. PICK y \in Blocks : y = <<b>> \o z BY BlockFacts, Zenon
<1>3. bs = a \o y /\ bs \in Blocks BY <1>0, <1>2, BlockFacts, Zenon
<1>4. bs[n] = b /\ Len(bs) = Len(a) + Len(z) + 1
  <2>1. (a \o (<<b>> \o z))[Len(a) + 1] = b /\ Len(a \o (<<b>> \o z)) = Len(a) + Len(z) + 1
    BY BlocksAround, Zenon DEF Rings, Reads
  <2> QED BY <1>0, <1>1, <2>1, Zenon
<1>5. n \in 1..Len(bs)
  <2>1. Len(a) \in Nat /\ Len(z) \in Nat BY BlockFacts, Zenon
  <2> QED BY <1>1, <1>4, <2>1
<1>6. Start(bs, n) = Len(Lines(a))
  <2>1. SubSeq(bs, 1, Len(a)) = a BY <1>3, Parts, Zenon DEF Blocks
  <2> QED BY <1>1, <2>1, Zenon DEF Start
<1>7. \A c \in Block : Ring([bs EXCEPT ![n] = c], a, c, z)
  <2> SUFFICES ASSUME NEW c \in Block PROVE Ring([bs EXCEPT ![n] = c], a, c, z) BY Zenon
  <2>1. a \in Seq(Block) /\ z \in Seq(Block) BY DEF Blocks
  <2>2. Ring([bs EXCEPT ![Len(a) + 1] = c], a, c, z) BY <2>1, Replaces, Zenon
  <2> QED BY <1>1, <2>2, Zenon
<1> QED BY <1>1, <1>3, <1>4, <1>5, <1>6, <1>7, Zenon

(* There is a block for every line of the document.                        *)
Found(bs, at) ==
  \E a, z \in Blocks, b \in Block :
    /\ Ring(bs, a, b, z)
    /\ Len(Lines(a)) <= at /\ at < Len(Lines(a)) + Len(b.lines)

LEMMA FoundBefore ==
  ASSUME NEW x \in Blocks, NEW e \in Block, NEW at, Found(x, at)
  PROVE  Found(x \o <<e>>, at)
<1>1. PICK a \in Blocks, z \in Blocks, b \in Block :
        /\ x = a \o (<<b>> \o z)
        /\ Len(Lines(a)) <= at /\ at < Len(Lines(a)) + Len(b.lines)
  BY Zenon DEF Found, Ring
<1>2. PICK o \in Blocks, m \in Blocks : o = <<e>> /\ m = <<b>> BY BlockFacts, Zenon
<1>3. PICK y \in Blocks, w \in Blocks : y = m \o z /\ w = z \o o BY BlockFacts, Zenon
<1>4. Regroup(a, y, o) /\ Regroup(m, z, o) BY BlocksAssociate, Zenon
<1>5. (a \o y) \o o = a \o (y \o o) /\ (m \o z) \o o = m \o (z \o o) BY <1>4, Zenon DEF Regroup
<1>6. x \o o = a \o (<<b>> \o w) BY <1>1, <1>2, <1>3, <1>5, Zenon
<1> QED BY <1>1, <1>2, <1>6, Zenon DEF Found, Ring

LEMMA EveryLineIsFound ==
  ASSUME NEW bs \in Blocks, NEW at \in Nat, at < Len(Lines(bs))
  PROVE  Found(bs, at)
<1> DEFINE Ok(b) == at < Len(Lines(b)) => Found(b, at)
           S == {n \in Nat : \A b \in Blocks : Len(b) = n => Ok(b)}
<1>1. Ok(<<>>)
  <2>1. Len(Lines(<<>>)) = 0 BY LinesNone
  <2> QED BY <2>1
<1>2. ASSUME NEW x \in Blocks, NEW e \in Block, Ok(x) PROVE Ok(x \o <<e>>)
  <2>1. CASE at < Len(Lines(x)) BY <1>2, <2>1, FoundBefore, Zenon
  <2>2. CASE ~(at < Len(Lines(x)))
    <3>1. PICK lx \in Docs, le \in Docs : lx = Lines(x) /\ le = e.lines /\ Lines(x \o <<e>>) = lx \o le
      BY LinesAppend, LinesType DEF Block
    <3>2. PICK m \in Nat, k \in Nat : m = Len(lx) /\ k = Len(le) /\ Len(lx \o le) = m + k
      BY DocFacts, Zenon
    <3> SUFFICES ASSUME at < m + k PROVE Found(x \o <<e>>, at) BY <3>1, <3>2, Zenon
    <3>3. m <= at BY <2>2, <3>1, <3>2
    <3>4. <<e>> \o <<>> = <<e>> /\ <<>> \in Blocks BY BlockFacts, Zenon
    <3> QED BY <3>1, <3>2, <3>3, <3>4, Zenon DEF Found, Ring
  <2> QED BY <2>1, <2>2, Zenon
<1> HIDE DEF Ok
<1>3. 0 \in S
  <2>1. \A b \in Blocks : Len(b) = 0 => b = <<>> BY EmptySeq DEF Blocks
  <2> QED BY <1>1, <2>1
<1>4. ASSUME NEW n \in Nat, n \in S PROVE n + 1 \in S
  <2> SUFFICES ASSUME NEW b \in Blocks, Len(b) = n + 1 PROVE Ok(b) OBVIOUS
  <2>1. b # <<>>
    <3>1. Len(<<>>) = 0 OBVIOUS
    <3>2. n + 1 # 0 OBVIOUS
    <3> QED BY <3>1, <3>2, Zenon DEF Blocks
  <2>2. PICK x \in Blocks, e \in Block : b = x \o <<e>> /\ Len(b) = Len(x) + 1
    BY <2>1, BlocksEnd, Zenon DEF Ends
  <2>3. Len(x) = n
    <3>1. Len(x) \in Nat BY BlockFacts, Zenon
    <3> QED BY <2>2, <3>1
  <2>4. Ok(x) BY <1>4, <2>3
  <2> QED BY <1>2, <2>2, <2>4, Zenon
<1>5. \A n \in Nat : n \in S
  <2> HIDE DEF S
  <2> QED BY <1>3, <1>4, Climb
<1>6. Ok(bs)
  <2>1. Len(bs) \in Nat BY BlockFacts, Zenon
  <2>2. Len(bs) \in S BY <1>5, <2>1, Zenon
  <2> QED BY <2>2
<1> QED BY <1>6, Zenon DEF Ok

(* Locate finds the place: a block and how far into its lines.             *)
Spot(bs, at, i, w) ==
  /\ i \in 1..Len(bs) /\ w \in 0..Len(bs[i].lines) /\ Start(bs, i) + w = at
  /\ at < Len(Lines(bs)) => w < Len(bs[i].lines)

LEMMA Located ==
  ASSUME NEW bs \in Blocks, bs # <<>>, NEW at \in 0..Len(Lines(bs))
  PROVE  \E i, w : Locate(bs, at) = <<i, w>> /\ Spot(bs, at, i, w)
<1>1. PICK n \in Nat : n = Len(bs) /\ DOMAIN bs = 1..n BY BlockFacts, Zenon
<1>2. PICK k \in Nat : k = Len(Lines(bs)) BY LinesType, DocFacts, Zenon
<1>3. at \in Nat /\ at <= k BY <1>2
<1>4. CASE \E i \in DOMAIN bs : Holds(bs, i, at)
  <2>1. PICK i \in DOMAIN bs : i = (CHOOSE j \in DOMAIN bs : Holds(bs, j, at)) /\ Holds(bs, i, at)
    BY <1>4, Zenon
  <2>2. Locate(bs, at) = <<i, at - Start(bs, i)>> BY <1>4, <2>1, Zenon DEF Locate
  <2>3. PICK s \in Nat, l \in Nat : s = Start(bs, i) /\ l = Len(bs[i].lines)
    <3>1. i \in 1..Len(bs) BY <1>1, Zenon
    <3>2. PICK a \in Blocks : Start(bs, i) = Len(Lines(a)) BY <3>1, BlockMiddle
    <3>3. Start(bs, i) \in Nat BY <3>2, LinesType, DocFacts, Zenon
    <3>4. bs[i].lines \in Docs BY <3>1, BlockAt, Zenon
    <3>5. Len(bs[i].lines) \in Nat BY <3>4, DocFacts, Zenon
    <3> QED BY <3>3, <3>5, Zenon
  <2>4. s <= at /\ at < s + l BY <2>1, <2>3, Zenon DEF Holds
  <2>5. PICK w \in Nat : w = at - s /\ s + w = at /\ w \in 0..l /\ w < l BY <1>3, <2>4
  <2>6. i \in 1..Len(bs) BY <1>1, Zenon
  <2> QED BY <2>2, <2>3, <2>5, <2>6, Zenon DEF Spot
<1>5. CASE ~\E i \in DOMAIN bs : Holds(bs, i, at)
  <2>1. at = k
    <3> SUFFICES ASSUME at < k PROVE FALSE BY <1>3
    <3>1. Found(bs, at) BY <1>2, <1>3, EveryLineIsFound, Zenon
    <3>2. PICK a \in Blocks, z \in Blocks, b \in Block :
            /\ Ring(bs, a, b, z)
            /\ Len(Lines(a)) <= at /\ at < Len(Lines(a)) + Len(b.lines)
      BY <3>1, Zenon DEF Found
    <3>3. /\ Len(a) + 1 \in 1..Len(bs) /\ bs[Len(a) + 1] = b
          /\ Start(bs, Len(a) + 1) = Len(Lines(a))
      BY <3>2, MiddleBlock, Zenon
    <3>4. Holds(bs, Len(a) + 1, at) BY <3>2, <3>3, Zenon DEF Holds
    <3> QED BY <1>1, <1>5, <3>3, <3>4, Zenon
  <2>2. PICK x \in Blocks, e \in Block : bs = x \o <<e>> /\ Len(bs) = Len(x) + 1
    BY BlocksEnd, Zenon DEF Ends
  <2>3. /\ n \in 1..Len(bs) /\ bs[n] = e /\ Start(bs, n) = Len(Lines(x))
    <3>1. <<e>> \o <<>> = <<e>> /\ <<>> \in Blocks BY BlockFacts, Zenon
    <3>2. Ring(bs, x, e, <<>>) BY <2>2, <3>1, Zenon DEF Ring
    <3>3. Len(x) + 1 \in 1..Len(bs) /\ bs[Len(x) + 1] = e /\ Start(bs, Len(x) + 1) = Len(Lines(x))
      BY <3>1, <3>2, MiddleBlock, Zenon
    <3> QED BY <1>1, <2>2, <3>3, Zenon
  <2>4. Locate(bs, at) = <<n, Len(e.lines)>> BY <1>1, <1>5, <2>3, Zenon DEF Locate
  <2>5. PICK lx \in Docs, le \in Docs : lx = Lines(x) /\ le = e.lines /\ Lines(bs) = lx \o le
    BY <2>2, LinesAppend, LinesType DEF Block
  <2>6. PICK s \in Nat, w \in Nat : s = Len(lx) /\ w = Len(le) /\ k = s + w
    <3>1. Len(lx \o le) = Len(lx) + Len(le) /\ Len(lx) \in Nat /\ Len(le) \in Nat
      BY DocFacts, Zenon
    <3> QED BY <1>2, <2>5, <3>1, Zenon
  <2>7. w \in 0..w BY <2>6
  <2>8. ~(at < Len(Lines(bs))) BY <1>2, <2>1
  <2> QED BY <2>1, <2>3, <2>4, <2>5, <2>6, <2>7, <2>8, Zenon DEF Spot
<1> QED BY <1>4, <1>5

-----------------------------------------------------------------------------
(* One document is another with a line more.                               *)
Grown(x, at, l, y) ==
  \E p, q \in Docs : x = p \o q /\ Ring(y, p, l, q) /\ Len(p) = at

LEMMA GrownFacts ==
  ASSUME NEW x, NEW at, NEW l \in AnyLine, NEW y, Grown(x, at, l, y)
  PROVE  /\ x \in Docs /\ y \in Docs /\ at \in 0..Len(x) /\ at \in 0..Len(y) - 1
         /\ Len(x) \in Nat /\ Len(y) = Len(x) + 1
         /\ InsertAt(x, at + 1, l) = y /\ RemoveAt(y, at + 1) = x
         /\ y[at + 1] = l /\ Ids(y) = Ids(x) \cup {l.id}
         /\ Unique(y) <=> (Unique(x) /\ l.id \notin Ids(x))
<1>1. PICK p \in Docs, q \in Docs : x = p \o q /\ y = p \o (<<l>> \o q) /\ Len(p) = at
  BY Zenon DEF Grown, Ring
<1>2. /\ InsertAt(p \o q, Len(p) + 1, l) = p \o (<<l>> \o q)
      /\ RemoveAt(p \o (<<l>> \o q), Len(p) + 1) = p \o q
      /\ (p \o (<<l>> \o q))[Len(p) + 1] = l
      /\ Len(p \o (<<l>> \o q)) = Len(p) + Len(q) + 1
  BY DocsAround, Zenon DEF Rings, Puts, Takes, Reads
<1>3. PICK n \in Nat, k \in Nat : n = Len(p) /\ k = Len(q) /\ Len(x) = n + k /\ Len(y) = n + k + 1
  <2>1. Len(p \o q) = Len(p) + Len(q) /\ Len(p) \in Nat /\ Len(q) \in Nat BY DocFacts, Zenon
  <2> QED BY <1>1, <1>2, <2>1, Zenon
<1>4. at \in 0..Len(x) /\ at \in 0..Len(y) - 1 /\ Len(x) \in Nat /\ Len(y) = Len(x) + 1 BY <1>1, <1>3
<1>5. PICK o \in Docs, w \in Docs : o = <<l>> /\ w = o \o q BY DocFacts, Zenon
<1>6. x \in Docs /\ y \in Docs BY <1>1, <1>5, DocFacts, Zenon
<1>7. /\ Ids(o) = {l.id} /\ Unique(o) BY <1>5, IdsOfOne, Zenon
<1>8. /\ Ids(x) = Ids(p) \cup Ids(q) /\ Ids(w) = Ids(o) \cup Ids(q) /\ Ids(y) = Ids(p) \cup Ids(w)
  <2>1. Ids(p \o q) = Ids(p) \cup Ids(q) BY IdsOfJoin
  <2>2. Ids(o \o q) = Ids(o) \cup Ids(q) BY IdsOfJoin
  <2>3. Ids(p \o w) = Ids(p) \cup Ids(w) BY IdsOfJoin
  <2> QED BY <1>1, <1>5, <2>1, <2>2, <2>3, Zenon
<1>9. /\ Unique(x) <=> (Unique(p) /\ Unique(q) /\ Ids(p) \cap Ids(q) = {})
      /\ Unique(w) <=> (Unique(o) /\ Unique(q) /\ Ids(o) \cap Ids(q) = {})
      /\ Unique(y) <=> (Unique(p) /\ Unique(w) /\ Ids(p) \cap Ids(w) = {})
  <2>1. Unique(p \o q) <=> (Unique(p) /\ Unique(q) /\ Ids(p) \cap Ids(q) = {}) BY UniqueJoin
  <2>2. Unique(o \o q) <=> (Unique(o) /\ Unique(q) /\ Ids(o) \cap Ids(q) = {}) BY UniqueJoin
  <2>3. Unique(p \o w) <=> (Unique(p) /\ Unique(w) /\ Ids(p) \cap Ids(w) = {}) BY UniqueJoin
  <2> QED BY <1>1, <1>5, <2>1, <2>2, <2>3, Zenon
<1>10. Ids(y) = Ids(x) \cup {l.id} BY <1>7, <1>8
<1>11. /\ Ids(o) \cap Ids(q) = {} <=> l.id \notin Ids(q)
       /\ Ids(p) \cap Ids(w) = {} <=> (l.id \notin Ids(p) /\ Ids(p) \cap Ids(q) = {})
       /\ l.id \notin Ids(x) <=> (l.id \notin Ids(p) /\ l.id \notin Ids(q))
  BY <1>7, <1>8
<1>12. Unique(y) <=> (Unique(x) /\ l.id \notin Ids(x)) BY <1>7, <1>9, <1>11, Zenon
<1> QED BY <1>1, <1>2, <1>4, <1>6, <1>10, <1>12, Zenon

LEMMA GrownMoves ==
  ASSUME NEW x, NEW at, NEW l \in AnyLine, NEW y, Grown(x, at, l, y)
  PROVE  InsertAt(x, at + 1, l) = y /\ RemoveAt(y, at + 1) = x
BY GrownFacts

LEMMA GrownHas ==
  ASSUME NEW x, NEW at, NEW l \in AnyLine, NEW y, Grown(x, at, l, y)
  PROVE  y[at + 1] = l
<1>1. PICK p \in Docs, q \in Docs : y = p \o (<<l>> \o q) /\ Len(p) = at BY Zenon DEF Grown, Ring
<1>2. (p \o (<<l>> \o q))[Len(p) + 1] = l BY DocsAround, Zenon DEF Rings, Reads
<1> QED BY <1>1, <1>2, Zenon

LEMMA InsertAtGrows ==
  ASSUME NEW x \in Docs, NEW at \in 0..Len(x), NEW l \in AnyLine
  PROVE  Grown(x, at, l, InsertAt(x, at + 1, l))
<1>1. x \in Seq(AnyLine) BY DEF Docs
<1>2. /\ SubSeq(x, 1, at) \in Seq(AnyLine) /\ Len(SubSeq(x, 1, at)) = at
      /\ SubSeq(x, at + 1, Len(x)) \in Seq(AnyLine)
      /\ SubSeq(x, 1, at) \o SubSeq(x, at + 1, Len(x)) = x
  BY <1>1, Split
<1>3. PICK p \in Docs, q \in Docs : x = p \o q /\ Len(p) = at
  BY <1>2, Zenon DEF Docs
<1>4. InsertAt(p \o q, Len(p) + 1, l) = p \o (<<l>> \o q)
  BY DocsAround, Zenon DEF Rings, Puts
<1> QED BY <1>3, <1>4, Zenon DEF Grown, Ring

LEMMA RemoveAtShrinks ==
  ASSUME NEW y \in Docs, NEW at \in 0..Len(y) - 1
  PROVE  y[at + 1] \in AnyLine /\ Grown(RemoveAt(y, at + 1), at, y[at + 1], y)
<1>1. PICK k \in 1..Len(y) : k = at + 1 /\ k - 1 = at
  <2>1. Len(y) \in Nat BY DocFacts, Zenon
  <2> QED BY <2>1
<1>2. y \in Seq(AnyLine) BY DEF Docs
<1>3. \E p, q \in Seq(AnyLine) : p = SubSeq(y, 1, k - 1) /\ Len(p) = k - 1 /\ Ring(y, p, y[k], q)
  BY <1>2, Middle
<1>4. y[k] \in AnyLine BY <1>2, ElementOfSeq
<1>5. PICK p \in Docs, q \in Docs : Len(p) = at /\ Ring(y, p, y[k], q)
  BY <1>1, <1>3, Zenon DEF Docs
<1>6. RemoveAt(p \o (<<y[k]>> \o q), Len(p) + 1) = p \o q
  BY <1>4, DocsAround, Zenon DEF Rings, Takes
<1>7. RemoveAt(y, k) = p \o q BY <1>1, <1>5, <1>6, Zenon DEF Ring
<1> QED BY <1>1, <1>4, <1>5, <1>7, Zenon DEF Grown

(* What grows inside a document makes the whole grow.                      *)
LEMMA GrownInside ==
  ASSUME NEW a \in Docs, NEW z \in Docs, NEW x, NEW w, NEW l \in AnyLine, NEW y,
         Grown(x, w, l, y)
  PROVE  Grown(a \o (x \o z), Len(a) + w, l, a \o (y \o z))
<1>1. PICK p \in Docs, q \in Docs : x = p \o q /\ y = p \o (<<l>> \o q) /\ Len(p) = w
  BY Zenon DEF Grown, Ring
<1>2. PICK o \in Docs, b \in Docs, c \in Docs : o = <<l>> /\ b = a \o p /\ c = q \o z BY DocFacts, Zenon
<1>3. PICK v \in Docs, u \in Docs : v = o \o q /\ u = p \o c BY <1>2, DocFacts, Zenon
<1>4. PICK t \in Docs : t = v \o z BY DocFacts, Zenon
<1>5. /\ Regroup(p, q, z) /\ Regroup(a, p, c) /\ Regroup(p, v, z) /\ Regroup(o, q, z)
      /\ Regroup(a, p, t)
  BY DocsAssociate, Zenon
<1>6. a \o (x \o z) = b \o c BY <1>1, <1>2, <1>5, Zenon DEF Regroup
<1>7. t = o \o c BY <1>2, <1>3, <1>4, <1>5, Zenon DEF Regroup
<1>8. y \o z = p \o t BY <1>1, <1>2, <1>3, <1>4, <1>5, Zenon DEF Regroup
<1>9. a \o (y \o z) = b \o (<<l>> \o c) BY <1>2, <1>5, <1>7, <1>8, Zenon DEF Regroup
<1>10. Len(b) = Len(a) + w BY <1>1, <1>2, DocFacts, Zenon
<1> QED BY <1>2, <1>6, <1>9, <1>10, Zenon DEF Grown, Ring

-----------------------------------------------------------------------------
(* A block's lines are exchanged for others.                               *)
LEMMA DocParts ==
  \A bs, m : Doc(bs, m).blocks = bs /\ Doc(bs, m).loc = m
BY DEF Doc

LEMMA OtherLines ==
  ASSUME NEW b \in Block, NEW ls \in Docs
  PROVE  [b EXCEPT !.lines = ls] \in Block /\ [b EXCEPT !.lines = ls].ptr = b.ptr
         /\ [b EXCEPT !.lines = ls].lines = ls
BY DEF Block

Refill(bs, i, ls) == [bs EXCEPT ![i].lines = ls]

Swapped(bs, i, nb, a, b, c, z) ==
  /\ b = bs[i] /\ Ring(bs, a, b, z) /\ i = Len(a) + 1 /\ Start(bs, i) = Len(Lines(a))
  /\ c.ptr = b.ptr /\ Ring(nb, a, c, z)

LEMMA Refilled ==
  ASSUME NEW bs \in Blocks, NEW i \in 1..Len(bs), NEW ls \in Docs
  PROVE  \E a, z \in Blocks, b, c \in Block :
           c.lines = ls /\ Swapped(bs, i, Refill(bs, i, ls), a, b, c, z)
<1>1. PICK b \in Block : b = bs[i] BY BlockAt, Zenon
<1>2. PICK a \in Blocks, z \in Blocks :
        Ring(bs, a, b, z) /\ Len(a) = i - 1 /\ Start(bs, i) = Len(Lines(a))
  BY <1>1, BlockMiddle, Zenon
<1>3. i = Len(a) + 1
  <2>1. Len(bs) \in Nat BY BlockFacts, Zenon
  <2> QED BY <1>2, <2>1
<1>4. PICK c \in Block : c = [b EXCEPT !.lines = ls] /\ c.ptr = b.ptr /\ c.lines = ls
  BY OtherLines, Zenon
<1>5. Ring([bs EXCEPT ![Len(a) + 1] = c], a, c, z) BY <1>2, MiddleBlock, Zenon
<1>6. Refill(bs, i, ls) = [bs EXCEPT ![i] = c] BY <1>1, <1>4, Zenon DEF Refill
<1>7. Ring(Refill(bs, i, ls), a, c, z) BY <1>3, <1>5, <1>6, Zenon
<1>8. Swapped(bs, i, Refill(bs, i, ls), a, b, c, z)
  BY <1>1, <1>2, <1>3, <1>4, <1>7, Zenon DEF Swapped
<1> QED BY <1>4, <1>8, Zenon

Retabled(la, lc, lz, p, m, n) ==
  /\ Unique(lc) /\ Ids(lc) \cap Ids(la) = {} /\ Ids(lc) \cap Ids(lz) = {}
  /\ DOMAIN n = Ids(la) \cup Ids(lc) \cup Ids(lz)
  /\ \A id \in Ids(la) : n[id] = m[id]
  /\ \A id \in Ids(lz) : n[id] = m[id]
  /\ \A id \in Ids(lc) : n[id] = p

LEMMA OtherPiece ==
  ASSUME NEW a \in Blocks, NEW b \in Block, NEW z \in Blocks, NEW c \in Block, NEW m, NEW n,
         Pieces(a, b, z, m), c.ptr = b.ptr, Retabled(Lines(a), c.lines, Lines(z), b.ptr, m, n)
  PROVE  Pieces(a, c, z, n)
<1>1. /\ Unique(Lines(a)) /\ Unique(Lines(z)) /\ Ids(Lines(a)) \cap Ids(Lines(z)) = {}
      /\ Distinct(a) /\ Distinct(z) /\ b.ptr \notin Ptrs(a) /\ b.ptr \notin Ptrs(z)
      /\ Ptrs(a) \cap Ptrs(z) = {} /\ At(a, m) /\ At(z, m)
  BY Zenon DEF Pieces
<1>2. /\ Unique(c.lines)
      /\ Ids(c.lines) \cap Ids(Lines(a)) = {} /\ Ids(c.lines) \cap Ids(Lines(z)) = {}
      /\ DOMAIN n = Ids(Lines(a)) \cup Ids(c.lines) \cup Ids(Lines(z))
      /\ \A id \in Ids(Lines(a)) : n[id] = m[id]
      /\ \A id \in Ids(Lines(z)) : n[id] = m[id]
      /\ \A id \in Ids(c.lines) : n[id] = c.ptr
  BY Zenon DEF Retabled
<1>3. At(a, n) /\ At(z, n) BY <1>1, <1>2, AtKept
<1>4. Ids(Lines(a)) \cap Ids(c.lines) = {} BY <1>2
<1> QED BY <1>1, <1>2, <1>3, <1>4, Zenon DEF Pieces

(* A line is put into a block.                                             *)
LEMMA PutIn ==
  ASSUME NEW bs, NEW m, Sound(bs, m), NEW at, NEW i, NEW w, Spot(bs, at, i, w),
         NEW l \in AnyLine, l.id \notin Ids(Lines(bs))
  PROVE  LET ls == InsertAt(bs[i].lines, w + 1, l)
             nb == Refill(bs, i, ls)
         IN  /\ Sound(nb, Repoint(m, <<l>>, bs[i].ptr)) /\ Grown(Lines(bs), at, l, Lines(nb))
             /\ i \in 1..Len(nb)
<1>1. bs \in Blocks BY DEF Sound
<1>2. i \in 1..Len(bs) /\ w \in 0..Len(bs[i].lines) /\ Start(bs, i) + w = at BY Zenon DEF Spot
<1>3. PICK x \in Docs : x = bs[i].lines BY <1>1, <1>2, BlockAt, Zenon
<1>4. PICK y : y = InsertAt(x, w + 1, l) OBVIOUS
<1>5. Grown(x, w, l, y) BY <1>2, <1>3, <1>4, InsertAtGrows, Zenon
<1>6. y \in Docs /\ Ids(y) = Ids(x) \cup {l.id} /\ (Unique(y) <=> (Unique(x) /\ l.id \notin Ids(x)))
  BY <1>5, GrownFacts, Zenon
<1>7. PICK nb : nb = Refill(bs, i, y) OBVIOUS
<1>8. PICK a \in Blocks, z \in Blocks, b \in Block, c \in Block :
        c.lines = y /\ Swapped(bs, i, nb, a, b, c, z)
  BY <1>1, <1>2, <1>6, <1>7, Refilled, Zenon
<1>81. /\ b = bs[i] /\ Ring(bs, a, b, z) /\ i = Len(a) + 1 /\ Start(bs, i) = Len(Lines(a))
       /\ c.ptr = b.ptr /\ c.lines = y /\ Ring(nb, a, c, z)
  BY <1>8, Zenon DEF Swapped
<1>9. PICK n : n = Repoint(m, <<l>>, b.ptr) OBVIOUS
<1>10. Pieces(a, b, z, m) BY <1>81, RingFacts, Zenon
<1>11. PICK la \in Docs, lz \in Docs : la = Lines(a) /\ lz = Lines(z) BY LinesType, Zenon
<1>12. Lines(bs) = la \o (x \o lz) /\ Lines(nb) = la \o (y \o lz)
  <2>1. Flat(Lines(bs), a, b, z) /\ Flat(Lines(nb), a, c, z) BY <1>81, RingFacts, Zenon
  <2> QED BY <1>3, <1>81, <1>11, <2>1, Zenon DEF Flat
<1>13. Grown(Lines(bs), at, l, Lines(nb))
  <2>1. Grown(la \o (x \o lz), Len(la) + w, l, la \o (y \o lz)) BY <1>5, GrownInside, Zenon
  <2> QED BY <1>2, <1>81, <1>11, <1>12, <2>1, Zenon
<1>14. /\ Unique(x) /\ Ids(la) \cap Ids(x) = {} /\ Ids(x) \cap Ids(lz) = {}
       /\ Ids(la) \cap Ids(lz) = {}
       /\ DOMAIN m = Ids(la) \cup Ids(x) \cup Ids(lz) /\ \A id \in Ids(x) : m[id] = b.ptr
  BY <1>3, <1>81, <1>10, <1>11, Zenon DEF Pieces
<1>15. l.id \notin Ids(la) /\ l.id \notin Ids(x) /\ l.id \notin Ids(lz)
  <2>1. DOMAIN m = Ids(Lines(bs)) BY DEF Sound
  <2> QED BY <1>14, <2>1
<1>16. /\ DOMAIN n = DOMAIN m \cup {l.id} /\ n[l.id] = b.ptr
       /\ \A id \in DOMAIN m : id # l.id => n[id] = m[id]
  <2>1. Ids(<<l>>) = {l.id} BY IdsOfOne
  <2>2. n = [k \in DOMAIN m \cup {l.id} |-> IF k \in {l.id} THEN b.ptr ELSE m[k]]
    BY <1>9, <2>1, Zenon DEF Repoint
  <2> QED BY <2>2
<1>17. Pieces(a, c, z, n)
  <2>1. Unique(c.lines) BY <1>6, <1>81, <1>14, <1>15, Zenon
  <2>2. Ids(c.lines) \cap Ids(Lines(a)) = {} /\ Ids(c.lines) \cap Ids(Lines(z)) = {}
    <3>1. Ids(y) \cap Ids(la) = {} /\ Ids(y) \cap Ids(lz) = {} BY <1>6, <1>14, <1>15
    <3> QED BY <1>81, <1>11, <3>1, Zenon
  <2>3. DOMAIN n = Ids(Lines(a)) \cup Ids(c.lines) \cup Ids(Lines(z))
    <3>1. DOMAIN n = Ids(la) \cup Ids(y) \cup Ids(lz) BY <1>6, <1>14, <1>16
    <3> QED BY <1>81, <1>11, <3>1, Zenon
  <2>4. /\ \A id \in Ids(Lines(a)) : n[id] = m[id]
        /\ \A id \in Ids(Lines(z)) : n[id] = m[id]
        /\ \A id \in Ids(c.lines) : n[id] = b.ptr
    <3>1. /\ \A id \in Ids(la) : n[id] = m[id]
          /\ \A id \in Ids(lz) : n[id] = m[id]
          /\ \A id \in Ids(y) : n[id] = b.ptr
      BY <1>6, <1>14, <1>15, <1>16
    <3> QED BY <1>81, <1>11, <3>1, Zenon
  <2>5. Retabled(Lines(a), c.lines, Lines(z), b.ptr, m, n) BY <2>1, <2>2, <2>3, <2>4, Zenon DEF Retabled
  <2> QED BY <1>81, <1>10, <2>5, OtherPiece
<1>18. Sound(nb, n) BY <1>81, <1>17, RingFacts, Zenon
<1>19. i \in 1..Len(nb) BY <1>81, MiddleBlock, Zenon
<1> QED BY <1>3, <1>4, <1>7, <1>81, <1>9, <1>13, <1>18, <1>19, Zenon

(* A line is taken out of a block.                                         *)
LEMMA TakenOut ==
  ASSUME NEW bs, NEW m, Sound(bs, m), NEW at, NEW i, NEW w, Spot(bs, at, i, w),
         w < Len(bs[i].lines)
  PROVE  LET x == bs[i].lines
             l == x[w + 1]
             nb == Refill(bs, i, RemoveAt(x, w + 1))
         IN  /\ l \in AnyLine /\ RemoveAt(x, w + 1) \in Docs
             /\ Sound(nb, [k \in DOMAIN m \ {l.id} |-> m[k]])
             /\ Grown(Lines(nb), at, l, Lines(bs)) /\ i \in 1..Len(nb)
<1>1. bs \in Blocks BY DEF Sound
<1>2. i \in 1..Len(bs) /\ w \in 0..Len(bs[i].lines) /\ Start(bs, i) + w = at BY Zenon DEF Spot
<1>3. PICK x \in Docs : x = bs[i].lines BY <1>1, <1>2, BlockAt, Zenon
<1>4. w \in 0..Len(x) - 1
  <2>1. Len(x) \in Nat BY DocFacts, Zenon
  <2> QED BY <1>2, <1>3, <2>1
<1>50. x[w + 1] \in AnyLine /\ Grown(RemoveAt(x, w + 1), w, x[w + 1], x)
  BY <1>4, RemoveAtShrinks, Zenon
<1>51. PICK y : y = RemoveAt(x, w + 1) OBVIOUS
<1>5. PICK l \in AnyLine : y = RemoveAt(x, w + 1) /\ l = x[w + 1] /\ Grown(y, w, l, x)
  BY <1>50, <1>51, Zenon
<1>52. Grown(y, w, l, x) BY <1>5
<1>6. y \in Docs /\ Ids(x) = Ids(y) \cup {l.id} /\ (Unique(x) <=> (Unique(y) /\ l.id \notin Ids(y)))
  BY <1>52, GrownFacts, Zenon
<1>7. PICK nb : nb = Refill(bs, i, y) OBVIOUS
<1>8. PICK a \in Blocks, z \in Blocks, b \in Block, c \in Block :
        c.lines = y /\ Swapped(bs, i, nb, a, b, c, z)
  BY <1>1, <1>2, <1>6, <1>7, Refilled, Zenon
<1>81. /\ b = bs[i] /\ Ring(bs, a, b, z) /\ i = Len(a) + 1 /\ Start(bs, i) = Len(Lines(a))
       /\ c.ptr = b.ptr /\ c.lines = y /\ Ring(nb, a, c, z)
  BY <1>8, Zenon DEF Swapped
<1>9. PICK n : n = [k \in DOMAIN m \ {l.id} |-> m[k]] OBVIOUS
<1>10. Pieces(a, b, z, m) BY <1>81, RingFacts, Zenon
<1>11. PICK la \in Docs, lz \in Docs : la = Lines(a) /\ lz = Lines(z) BY LinesType, Zenon
<1>12. Lines(bs) = la \o (x \o lz) /\ Lines(nb) = la \o (y \o lz)
  <2>1. Flat(Lines(bs), a, b, z) /\ Flat(Lines(nb), a, c, z) BY <1>81, RingFacts, Zenon
  <2> QED BY <1>3, <1>81, <1>11, <2>1, Zenon DEF Flat
<1>13. Grown(Lines(nb), at, l, Lines(bs))
  <2>1. Grown(la \o (y \o lz), Len(la) + w, l, la \o (x \o lz)) BY <1>5, GrownInside, Zenon
  <2> QED BY <1>2, <1>81, <1>11, <1>12, <2>1, Zenon
<1>14. /\ Unique(x) /\ Ids(la) \cap Ids(x) = {} /\ Ids(x) \cap Ids(lz) = {}
       /\ DOMAIN m = Ids(la) \cup Ids(x) \cup Ids(lz) /\ \A id \in Ids(x) : m[id] = b.ptr
  BY <1>3, <1>81, <1>10, <1>11, Zenon DEF Pieces
<1>15. DOMAIN n = DOMAIN m \ {l.id} /\ \A id \in DOMAIN m \ {l.id} : n[id] = m[id]
  BY <1>9
<1>16. Unique(y) /\ l.id \notin Ids(y) BY <1>6, <1>14, Zenon
<1>17. Pieces(a, c, z, n)
  <2>1. Unique(c.lines) BY <1>81, <1>16, Zenon
  <2>2. Ids(c.lines) \cap Ids(Lines(a)) = {} /\ Ids(c.lines) \cap Ids(Lines(z)) = {}
    <3>1. Ids(y) \cap Ids(la) = {} /\ Ids(y) \cap Ids(lz) = {} BY <1>6, <1>14
    <3> QED BY <1>81, <1>11, <3>1, Zenon
  <2>3. DOMAIN n = Ids(Lines(a)) \cup Ids(c.lines) \cup Ids(Lines(z))
    <3>1. DOMAIN n = Ids(la) \cup Ids(y) \cup Ids(lz) BY <1>6, <1>14, <1>15, <1>16
    <3> QED BY <1>81, <1>11, <3>1, Zenon
  <2>4. /\ \A id \in Ids(Lines(a)) : n[id] = m[id]
        /\ \A id \in Ids(Lines(z)) : n[id] = m[id]
        /\ \A id \in Ids(c.lines) : n[id] = b.ptr
    <3>1. /\ \A id \in Ids(la) : n[id] = m[id]
          /\ \A id \in Ids(lz) : n[id] = m[id]
          /\ \A id \in Ids(y) : n[id] = b.ptr
      BY <1>6, <1>14, <1>15, <1>16
    <3> QED BY <1>81, <1>11, <3>1, Zenon
  <2>5. Retabled(Lines(a), c.lines, Lines(z), b.ptr, m, n) BY <2>1, <2>2, <2>3, <2>4, Zenon DEF Retabled
  <2> QED BY <1>81, <1>10, <2>5, OtherPiece
<1>18. Sound(nb, n) BY <1>81, <1>17, RingFacts, Zenon
<1>19. i \in 1..Len(nb) BY <1>81, MiddleBlock, Zenon
<1> QED BY <1>3, <1>5, <1>6, <1>7, <1>9, <1>13, <1>18, <1>19, Zenon

-----------------------------------------------------------------------------
(* A new block's address is no other's: there is one more to choose from   *)
(* than there are blocks.                                                  *)
LEMMA NewPtrIsNew ==
  ASSUME NEW bs \in Blocks
  PROVE  NewPtr(bs) \in Nat /\ NewPtr(bs) \notin Ptrs(bs)
<1>1. PICK n \in Nat : n = Len(bs) /\ DOMAIN bs = 1..n BY BlockFacts, Zenon
<1> DEFINE Free(p) == \A i \in 1..n : bs[i].ptr # p
<1>2. \E p \in 1..n + 1 : Free(p)
  <2> SUFFICES ASSUME \A p \in 1..n + 1 : \E i \in 1..n : bs[i].ptr = p PROVE FALSE OBVIOUS
  <2>1. PICK f : f = [p \in 1..n + 1 |-> CHOOSE i \in 1..n : bs[i].ptr = p] OBVIOUS
  <2>2. \A p \in 1..n + 1 : f[p] \in 1..n /\ bs[f[p]].ptr = p BY <2>1, Zenon
  <2>3. f \in [1..n + 1 -> 1..n] BY <2>1, <2>2, Zenon
  <2>4. PICK k \in Int : k = n + 1 OBVIOUS
  <2>5. /\ IsFiniteSet(1..n) /\ Cardinality(1..n) = IF 1 > n THEN 0 ELSE n - 1 + 1
        /\ IsFiniteSet(1..k) /\ Cardinality(1..k) = IF 1 > k THEN 0 ELSE k - 1 + 1
    BY FS_Interval
  <2>6. Cardinality(1..n) < Cardinality(1..k) BY <2>4, <2>5
  <2>7. PICK S, T : S = 1..k /\ T = 1..n OBVIOUS
  <2>8. IsFiniteSet(S) /\ IsFiniteSet(T) /\ Cardinality(T) < Cardinality(S) /\ f \in [S -> T]
    BY <2>3, <2>4, <2>5, <2>6, <2>7, Zenon
  <2>9. \E p, q \in S : p # q /\ f[p] = f[q] BY <2>8, FS_PigeonHole
  <2>10. PICK p \in 1..n + 1, q \in 1..n + 1 : p # q /\ f[p] = f[q] BY <2>4, <2>7, <2>9, Zenon
  <2>11. bs[f[p]].ptr = p /\ bs[f[q]].ptr = q BY <2>2, Zenon
  <2> QED BY <2>10, <2>11, Zenon
<1> HIDE DEF Free
<1>3. NewPtr(bs) = CHOOSE p \in 1..n + 1 : Free(p) BY <1>1, Zenon DEF NewPtr, Free
<1>4. NewPtr(bs) \in 1..n + 1 /\ Free(NewPtr(bs)) BY <1>2, <1>3, Zenon
<1>5. \A p \in 1..n + 1 : p \in Nat OBVIOUS
<1> QED BY <1>1, <1>4, <1>5, Zenon DEF Free, Ptrs

(* What is moved between blocks leaves the document as it is.              *)
Same(bs, d) == Sound(d.blocks, d.loc) /\ Lines(d.blocks) = Lines(bs)

LEMMA AppendBlock ==
  ASSUME NEW a \in Blocks, NEW b \in Block
  PROVE  /\ a \o <<b>> \in Blocks /\ Lines(a \o <<b>>) \in Docs
         /\ Ids(Lines(a \o <<b>>)) = Ids(Lines(a)) \cup Ids(b.lines)
         /\ Unique(Lines(a \o <<b>>)) <=>
              (Unique(Lines(a)) /\ Unique(b.lines) /\ Ids(Lines(a)) \cap Ids(b.lines) = {})
         /\ Ptrs(a \o <<b>>) = Ptrs(a) \cup {b.ptr}
         /\ Distinct(a \o <<b>>) <=> (Distinct(a) /\ b.ptr \notin Ptrs(a))
         /\ \A m : At(a \o <<b>>, m) <=> (At(a, m) /\ \A id \in Ids(b.lines) : m[id] = b.ptr)
<1>1. PICK o \in Blocks : o = <<b>> /\ Ptrs(o) = {b.ptr} /\ Distinct(o)
        /\ \A m : At(o, m) <=> \A id \in Ids(b.lines) : m[id] = b.ptr
  BY BlockFacts, PtrsOfOne, Zenon
<1>2. PICK la \in Docs, lb \in Docs : la = Lines(a) /\ lb = b.lines BY LinesType DEF Block
<1>3. Lines(a \o o) = la \o lb BY <1>1, <1>2, LinesAppend, Zenon
<1>4. a \o o \in Blocks BY BlockFacts, Zenon
<1>5. Ids(la \o lb) = Ids(la) \cup Ids(lb) BY IdsOfJoin
<1>6. Unique(la \o lb) <=> (Unique(la) /\ Unique(lb) /\ Ids(la) \cap Ids(lb) = {}) BY UniqueJoin
<1>7. Ptrs(a \o o) = Ptrs(a) \cup Ptrs(o) /\ \A m : At(a \o o, m) <=> (At(a, m) /\ At(o, m))
  BY PtrsOfJoin
<1>8. Distinct(a \o o) <=> (Distinct(a) /\ Distinct(o) /\ Ptrs(a) \cap Ptrs(o) = {}) BY DistinctJoin
<1>9. Ptrs(a) \cap Ptrs(o) = {} <=> b.ptr \notin Ptrs(a) BY <1>1
<1>10. Lines(a \o o) \in Docs BY <1>4, LinesType, Zenon
<1>11. Distinct(a \o o) <=> (Distinct(a) /\ b.ptr \notin Ptrs(a)) BY <1>1, <1>8, <1>9, Zenon
<1>12. \A m : At(a \o o, m) <=> (At(a, m) /\ \A id \in Ids(b.lines) : m[id] = b.ptr)
  BY <1>1, <1>7, Zenon
<1>13. Unique(Lines(a \o o)) <=>
         (Unique(Lines(a)) /\ Unique(b.lines) /\ Ids(Lines(a)) \cap Ids(b.lines) = {})
  BY <1>2, <1>3, <1>6, Zenon
<1>14. /\ Ids(Lines(a \o o)) = Ids(Lines(a)) \cup Ids(b.lines)
       /\ Ptrs(a \o o) = Ptrs(a) \cup {b.ptr}
  BY <1>1, <1>2, <1>3, <1>5, <1>7, Zenon
<1> QED BY <1>1, <1>4, <1>10, <1>11, <1>12, <1>13, <1>14, Zenon

(* One block's lines in two blocks ...                                     *)
LEMMA SplitInTwo ==
  ASSUME NEW a \in Blocks, NEW z \in Blocks, NEW b \in Block, NEW c \in Block, NEW r \in Block,
         NEW m, NEW n, Pieces(a, b, z, m),
         c.ptr = b.ptr, r.ptr # b.ptr, r.ptr \notin Ptrs(a), r.ptr \notin Ptrs(z),
         Ids(b.lines) = Ids(c.lines) \cup Ids(r.lines), Unique(c.lines), Unique(r.lines),
         Ids(c.lines) \cap Ids(r.lines) = {},
         DOMAIN n = DOMAIN m, \A id \in DOMAIN m \ Ids(r.lines) : n[id] = m[id],
         \A id \in Ids(r.lines) : n[id] = r.ptr
  PROVE  Pieces(a \o <<c>>, r, z, n)
<1>1. /\ Unique(Lines(a)) /\ Unique(b.lines) /\ Unique(Lines(z))
      /\ Ids(Lines(a)) \cap Ids(b.lines) = {} /\ Ids(Lines(a)) \cap Ids(Lines(z)) = {}
      /\ Ids(b.lines) \cap Ids(Lines(z)) = {}
      /\ Distinct(a) /\ Distinct(z) /\ b.ptr \notin Ptrs(a) /\ b.ptr \notin Ptrs(z)
      /\ Ptrs(a) \cap Ptrs(z) = {}
      /\ DOMAIN m = Ids(Lines(a)) \cup Ids(b.lines) \cup Ids(Lines(z))
      /\ At(a, m) /\ At(z, m) /\ \A id \in Ids(b.lines) : m[id] = b.ptr
  BY Zenon DEF Pieces
<1>2. PICK x \in Blocks : x = a \o <<c>>
        /\ Ids(Lines(x)) = Ids(Lines(a)) \cup Ids(c.lines)
        /\ (Unique(Lines(x)) <=>
              (Unique(Lines(a)) /\ Unique(c.lines) /\ Ids(Lines(a)) \cap Ids(c.lines) = {}))
        /\ Ptrs(x) = Ptrs(a) \cup {c.ptr}
        /\ (Distinct(x) <=> (Distinct(a) /\ c.ptr \notin Ptrs(a)))
        /\ \A k : At(x, k) <=> (At(a, k) /\ \A id \in Ids(c.lines) : k[id] = c.ptr)
  BY AppendBlock, Zenon
<1>3. At(a, n) /\ At(z, n)
  <2>1. /\ \A id \in Ids(Lines(a)) : n[id] = m[id]
        /\ \A id \in Ids(Lines(z)) : n[id] = m[id]
    BY <1>1
  <2> QED BY <1>1, <2>1, AtKept
<1>4. Unique(Lines(x))
  <2>1. Ids(Lines(a)) \cap Ids(c.lines) = {} BY <1>1
  <2> QED BY <1>1, <1>2, <2>1, Zenon
<1>5. /\ Ids(Lines(x)) \cap Ids(r.lines) = {} /\ Ids(Lines(x)) \cap Ids(Lines(z)) = {}
      /\ Ids(r.lines) \cap Ids(Lines(z)) = {}
      /\ DOMAIN n = Ids(Lines(x)) \cup Ids(r.lines) \cup Ids(Lines(z))
  <2> DEFINE ia == Ids(Lines(a)) ib == Ids(b.lines) ic == Ids(c.lines) ir == Ids(r.lines)
             iz == Ids(Lines(z)) ix == Ids(Lines(x))
  <2>1. /\ ib = ic \cup ir /\ ic \cap ir = {} /\ ia \cap ib = {} /\ ia \cap iz = {} /\ ib \cap iz = {}
        /\ ix = ia \cup ic /\ DOMAIN n = ia \cup ib \cup iz
    BY <1>1, <1>2, Zenon
  <2> HIDE DEF ia, ib, ic, ir, iz, ix
  <2>2. /\ ix \cap ir = {} /\ ix \cap iz = {} /\ ir \cap iz = {} /\ DOMAIN n = ix \cup ir \cup iz
    BY <2>1
  <2> QED BY <2>2 DEF ir, iz, ix
<1>6. /\ Distinct(x) /\ r.ptr \notin Ptrs(x) /\ Ptrs(x) \cap Ptrs(z) = {} BY <1>1, <1>2
<1>7. At(x, n)
  <2>1. \A id \in Ids(c.lines) : n[id] = c.ptr BY <1>1
  <2> QED BY <1>2, <1>3, <2>1, Zenon
<1>8. Pieces(x, r, z, n) BY <1>1, <1>3, <1>4, <1>5, <1>6, <1>7, Zenon DEF Pieces
<1> QED BY <1>2, <1>8, Zenon

LEMMA SplitKeeps ==
  ASSUME NEW bs, NEW m, Sound(bs, m), NEW i \in 1..Len(bs)
  PROVE  Same(bs, splitBlock(Doc(bs, m), i))
<1>1. bs \in Blocks BY DEF Sound
<1>2. PICK x \in Docs : x = bs[i].lines BY <1>1, BlockAt, Zenon
<1>3. PICK k \in Nat, h \in 0..Len(x) : k = Len(x) /\ h = k \div 2
  <2>1. PICK k \in Nat : k = Len(x) BY DocFacts, Zenon
  <2>2. k \div 2 \in 0..k BY <2>1
  <2> QED BY <2>1, <2>2, Zenon
<1>4. x \in Seq(AnyLine) BY DEF Docs
<1>5. /\ SubSeq(x, 1, h) \in Seq(AnyLine) /\ Len(SubSeq(x, 1, h)) = h
      /\ SubSeq(x, h + 1, Len(x)) \in Seq(AnyLine)
      /\ SubSeq(x, 1, h) \o SubSeq(x, h + 1, Len(x)) = x
  BY <1>4, Split
<1>6. PICK u \in Docs, v \in Docs : u = SubSeq(x, 1, h) /\ v = SubSeq(x, h + 1, k) /\ x = u \o v
  BY <1>3, <1>5, Zenon DEF Docs
<1>7. PICK r \in Block : /\ r = [ptr |-> NewPtr(bs), lines |-> v] /\ r.lines = v
                         /\ r.ptr = NewPtr(bs) /\ r.ptr \notin Ptrs(bs)
  <2>1. NewPtr(bs) \in Nat /\ NewPtr(bs) \notin Ptrs(bs) BY <1>1, NewPtrIsNew, Zenon
  <2>2. PICK p \in Nat : p = NewPtr(bs) BY <2>1, Zenon
  <2>3. PICK r : r = [ptr |-> p, lines |-> v] OBVIOUS
  <2>4. r \in Block /\ r.lines = v /\ r.ptr = p BY <2>3 DEF Block
  <2> QED BY <2>1, <2>2, <2>3, <2>4, Zenon
<1>8. PICK mid \in Blocks : mid = Refill(bs, i, u)
  <2>1. \E a, z \in Blocks, b, c \in Block : Swapped(bs, i, Refill(bs, i, u), a, b, c, z)
    BY <1>1, Refilled, Zenon
  <2> QED BY <2>1, RingFacts, Zenon DEF Swapped
<1>9. PICK nb, n : nb = InsertAt(mid, i + 1, r) /\ n = Repoint(m, v, r.ptr) OBVIOUS
<1>10. splitBlock(Doc(bs, m), i) = Doc(nb, n)
  <2>1. Doc(bs, m).blocks = bs /\ Doc(bs, m).loc = m BY DocParts, Zenon
  <2> QED BY <1>2, <1>3, <1>6, <1>7, <1>8, <1>9, <2>1, Zenon DEF splitBlock, Refill
<1>11. PICK a \in Blocks, z \in Blocks, b \in Block, c \in Block :
         c.lines = u /\ Swapped(bs, i, mid, a, b, c, z)
  BY <1>1, <1>8, Refilled, Zenon
<1>12. /\ b = bs[i] /\ Ring(bs, a, b, z) /\ i = Len(a) + 1
       /\ c.ptr = b.ptr /\ Ring(mid, a, c, z) /\ b.lines = x
  BY <1>2, <1>11, Zenon DEF Swapped
<1>13. Pieces(a, b, z, m) BY <1>12, RingFacts, Zenon
<1>14. PICK w \in Blocks, o \in Blocks : o = <<c>> /\ w = a \o o BY BlockFacts, Zenon
<1>15. Ring(nb, w, r, z)
  <2>1. Regroup(a, o, z) BY BlocksAssociate, Zenon
  <2>2. mid = w \o z BY <1>12, <1>14, <2>1, Zenon DEF Ring, Regroup
  <2>3. InsertAt(w \o z, Len(w) + 1, r) = w \o (<<r>> \o z)
    BY BlocksAround, Zenon DEF Rings, Puts
  <2>4. Len(w) = i
    <3>1. Len(w) = Len(a) + Len(o) BY <1>14, BlockFacts, Zenon
    <3>2. Len(o) = 1 BY <1>14
    <3> QED BY <1>12, <3>1, <3>2, Zenon
  <2> QED BY <1>9, <2>2, <2>3, <2>4, Zenon DEF Ring
<1>16. PICK la \in Docs, lz \in Docs : la = Lines(a) /\ lz = Lines(z) BY LinesType, Zenon
<1>17. Lines(nb) = Lines(bs)
  <2>1. Flat(Lines(bs), a, b, z) BY <1>12, RingFacts, Zenon
  <2>2. Flat(Lines(nb), w, r, z) BY <1>15, RingFacts, Zenon
  <2>3. Lines(w) = la \o u BY <1>11, <1>14, <1>16, LinesAppend, Zenon
  <2>4. PICK t \in Docs : t = v \o lz BY DocFacts, Zenon
  <2>5. Regroup(la, u, t) /\ Regroup(u, v, lz) BY DocsAssociate, Zenon
  <2>6. Lines(bs) = la \o ((u \o v) \o lz) BY <1>6, <1>12, <1>16, <2>1, Zenon DEF Flat
  <2>7. Lines(nb) = (la \o u) \o t BY <1>7, <1>16, <2>2, <2>3, <2>4, Zenon DEF Flat
  <2> QED BY <2>4, <2>5, <2>6, <2>7, Zenon DEF Regroup
<1>18. Pieces(w, r, z, n)
  <2>1. Unique(x) /\ \A id \in Ids(x) : m[id] = b.ptr BY <1>12, <1>13, Zenon DEF Pieces
  <2>2. Ids(b.lines) = Ids(c.lines) \cup Ids(r.lines)
    <3>1. Ids(u \o v) = Ids(u) \cup Ids(v) BY IdsOfJoin
    <3> QED BY <1>6, <1>7, <1>11, <1>12, <3>1, Zenon
  <2>3. Unique(c.lines) /\ Unique(r.lines) /\ Ids(c.lines) \cap Ids(r.lines) = {}
    <3>1. Unique(u \o v) <=> (Unique(u) /\ Unique(v) /\ Ids(u) \cap Ids(v) = {}) BY UniqueJoin
    <3> QED BY <1>6, <1>7, <1>11, <2>1, <3>1, Zenon
  <2>4. r.ptr # b.ptr /\ r.ptr \notin Ptrs(a) /\ r.ptr \notin Ptrs(z)
    <3>1. PICK one \in Blocks, y \in Blocks : one = <<b>> /\ y = one \o z /\ bs = a \o y
      BY <1>12, BlockFacts, Zenon DEF Ring
    <3>2. Ptrs(a \o y) = Ptrs(a) \cup Ptrs(y) BY PtrsOfJoin
    <3>3. Ptrs(one \o z) = Ptrs(one) \cup Ptrs(z) BY PtrsOfJoin
    <3>4. Ptrs(one) = {b.ptr} BY <3>1, PtrsOfOne, Zenon
    <3>5. Ptrs(bs) = Ptrs(a) \cup ({b.ptr} \cup Ptrs(z)) BY <3>1, <3>2, <3>3, <3>4, Zenon
    <3> QED BY <1>7, <3>5
  <2>5. /\ DOMAIN n = DOMAIN m
        /\ \A id \in DOMAIN m \ Ids(r.lines) : n[id] = m[id]
        /\ \A id \in Ids(r.lines) : n[id] = r.ptr
    <3>1. Ids(v) \subseteq DOMAIN m
      <4>1. Ids(b.lines) \subseteq DOMAIN m BY <1>13 DEF Pieces
      <4> QED BY <1>7, <2>2, <4>1
    <3>2. n = [k2 \in DOMAIN m \cup Ids(v) |-> IF k2 \in Ids(v) THEN r.ptr ELSE m[k2]]
      BY <1>9, Zenon DEF Repoint
    <3>3. /\ DOMAIN n = DOMAIN m /\ \A id \in DOMAIN m \ Ids(v) : n[id] = m[id]
          /\ \A id \in Ids(v) : n[id] = r.ptr
      BY <3>1, <3>2
    <3> QED BY <1>7, <3>3, Zenon
  <2>6. Pieces(a \o <<c>>, r, z, n) BY <1>12, <1>13, <2>2, <2>3, <2>4, <2>5, SplitInTwo
  <2> QED BY <1>14, <2>6, Zenon
<1>19. Sound(nb, n) BY <1>15, <1>18, RingFacts, Zenon
<1>20. Doc(nb, n).blocks = nb /\ Doc(nb, n).loc = n BY DocParts, Zenon
<1> QED BY <1>10, <1>17, <1>19, <1>20, Zenon DEF Same

(* ... and two blocks' lines in one.                                       *)
LEMMA JoinedInOne ==
  ASSUME NEW a \in Blocks, NEW z \in Blocks, NEW b \in Block, NEW c \in Block, NEW r \in Block,
         NEW m, NEW n, Pieces(a \o <<b>>, c, z, m),
         r.ptr = b.ptr, Ids(r.lines) = Ids(b.lines) \cup Ids(c.lines), Unique(r.lines),
         DOMAIN n = DOMAIN m, \A id \in DOMAIN m \ Ids(c.lines) : n[id] = m[id],
         \A id \in Ids(c.lines) : n[id] = b.ptr
  PROVE  Pieces(a, r, z, n)
<1>1. PICK x \in Blocks : x = a \o <<b>>
        /\ Ids(Lines(x)) = Ids(Lines(a)) \cup Ids(b.lines)
        /\ (Unique(Lines(x)) <=>
              (Unique(Lines(a)) /\ Unique(b.lines) /\ Ids(Lines(a)) \cap Ids(b.lines) = {}))
        /\ Ptrs(x) = Ptrs(a) \cup {b.ptr}
        /\ (Distinct(x) <=> (Distinct(a) /\ b.ptr \notin Ptrs(a)))
        /\ \A k : At(x, k) <=> (At(a, k) /\ \A id \in Ids(b.lines) : k[id] = b.ptr)
  BY AppendBlock, Zenon
<1>2. Pieces(x, c, z, m) BY <1>1, Zenon
<1>3. /\ Unique(Lines(x)) /\ Unique(c.lines) /\ Unique(Lines(z))
      /\ Ids(Lines(x)) \cap Ids(c.lines) = {} /\ Ids(Lines(x)) \cap Ids(Lines(z)) = {}
      /\ Ids(c.lines) \cap Ids(Lines(z)) = {}
      /\ Distinct(x) /\ Distinct(z) /\ Ptrs(x) \cap Ptrs(z) = {}
      /\ DOMAIN m = Ids(Lines(x)) \cup Ids(c.lines) \cup Ids(Lines(z))
      /\ At(x, m) /\ At(z, m)
  BY <1>2, Zenon DEF Pieces
<1>4. /\ Unique(Lines(a)) /\ Ids(Lines(a)) \cap Ids(b.lines) = {}
      /\ Distinct(a) /\ b.ptr \notin Ptrs(a) /\ At(a, m) /\ \A id \in Ids(b.lines) : m[id] = b.ptr
  BY <1>1, <1>3, Zenon
<1>5. /\ Ids(Lines(a)) \cap Ids(r.lines) = {} /\ Ids(Lines(a)) \cap Ids(Lines(z)) = {}
      /\ Ids(r.lines) \cap Ids(Lines(z)) = {}
      /\ DOMAIN n = Ids(Lines(a)) \cup Ids(r.lines) \cup Ids(Lines(z))
      /\ Ids(Lines(a)) \cap Ids(c.lines) = {}
      /\ Ids(c.lines) \cap Ids(Lines(z)) = {} /\ Ids(b.lines) \cap Ids(c.lines) = {}
  <2> DEFINE ia == Ids(Lines(a)) ib == Ids(b.lines) ic == Ids(c.lines) ir == Ids(r.lines)
             iz == Ids(Lines(z)) ix == Ids(Lines(x))
  <2>1. /\ ir = ib \cup ic /\ ix = ia \cup ib /\ ia \cap ib = {}
        /\ ix \cap ic = {} /\ ix \cap iz = {} /\ ic \cap iz = {} /\ DOMAIN n = ix \cup ic \cup iz
    BY <1>1, <1>3, <1>4, Zenon
  <2> HIDE DEF ia, ib, ic, ir, iz, ix
  <2>2. /\ ia \cap ir = {} /\ ia \cap iz = {} /\ ir \cap iz = {} /\ DOMAIN n = ia \cup ir \cup iz
        /\ ia \cap ic = {} /\ ic \cap iz = {} /\ ib \cap ic = {}
    BY <2>1
  <2> QED BY <2>2 DEF ia, ib, ic, ir, iz
<1>6. /\ \A id \in Ids(Lines(a)) : n[id] = m[id]
      /\ \A id \in Ids(Lines(z)) : n[id] = m[id]
      /\ \A id \in Ids(b.lines) : n[id] = m[id]
  <2>1. DOMAIN m = Ids(Lines(a)) \cup Ids(r.lines) \cup Ids(Lines(z)) BY <1>5
  <2> QED BY <1>5, <2>1
<1>7. At(a, n) /\ At(z, n) BY <1>3, <1>4, <1>6, AtKept
<1>8. \A id \in Ids(r.lines) : n[id] = r.ptr BY <1>4, <1>6
<1>9. r.ptr \notin Ptrs(a) /\ r.ptr \notin Ptrs(z) /\ Ptrs(a) \cap Ptrs(z) = {}
  BY <1>1, <1>3, <1>4
<1> QED BY <1>3, <1>4, <1>5, <1>7, <1>8, <1>9, Zenon DEF Pieces

LEMMA AbsorbKeeps ==
  ASSUME NEW bs, NEW m, Sound(bs, m), NEW i \in 1..Len(bs), NEW j \in 1..Len(bs), j = i + 1
  PROVE  Same(bs, Absorb(Doc(bs, m), i, j))
<1>1. bs \in Blocks BY DEF Sound
<1>2. PICK c \in Block : c = bs[j] BY <1>1, BlockAt, Zenon
<1>3. PICK w \in Blocks, z \in Blocks : Ring(bs, w, c, z) /\ Len(w) = i
  <2>1. PICK w \in Blocks, z \in Blocks : Ring(bs, w, c, z) /\ Len(w) = j - 1
    BY <1>1, <1>2, BlockMiddle, Zenon
  <2>2. j - 1 = i
    <3>1. Len(bs) \in Nat BY <1>1, BlockFacts, Zenon
    <3> QED BY <3>1
  <2> QED BY <2>1, <2>2, Zenon
<1>4. PICK a \in Blocks, b \in Block : w = a \o <<b>> /\ Len(w) = Len(a) + 1
  <2>1. w # <<>>
    <3>1. i # 0
      <4>1. Len(bs) \in Nat BY <1>1, BlockFacts, Zenon
      <4> QED BY <4>1
    <3>2. Len(<<>>) = 0 OBVIOUS
    <3> QED BY <1>3, <3>1, <3>2, Zenon
  <2> QED BY <2>1, BlocksEnd, Zenon DEF Ends
<1>5. PICK o \in Blocks, p \in Blocks, y \in Blocks : o = <<b>> /\ p = <<c>> /\ y = p \o z
  BY BlockFacts, Zenon
<1>6. Ring(bs, a, b, y)
  <2>1. Regroup(a, o, y) BY BlocksAssociate, Zenon
  <2> QED BY <1>3, <1>4, <1>5, <2>1, Zenon DEF Ring, Regroup
<1>7. bs[i] = b /\ Len(a) + 1 = i
  <2>1. bs[Len(a) + 1] = b BY <1>6, MiddleBlock, Zenon
  <2> QED BY <1>3, <1>4, <2>1, Zenon
<1>8. PICK u \in Docs, v \in Docs, x \in Docs : u = b.lines /\ v = c.lines /\ x = u \o v
  <2>1. b.lines \in Docs /\ c.lines \in Docs BY DEF Block
  <2> QED BY <2>1, DocFacts, Zenon
<1>9. PICK r \in Block : r = [b EXCEPT !.lines = x] /\ r.ptr = b.ptr /\ r.lines = x
  BY OtherLines, Zenon
<1>10. PICK mid : mid = Refill(bs, i, x) OBVIOUS
<1>11. Ring(mid, a, r, y)
  <2>1. Ring([bs EXCEPT ![Len(a) + 1] = r], a, r, y) BY <1>6, MiddleBlock, Zenon
  <2>2. mid = [bs EXCEPT ![i] = r] BY <1>7, <1>9, <1>10, Zenon DEF Refill
  <2> QED BY <1>7, <2>1, <2>2, Zenon
<1>12. PICK nb, n : nb = RemoveAt(mid, j) /\ n = Repoint(m, v, b.ptr) OBVIOUS
<1>13. Absorb(Doc(bs, m), i, j) = Doc(nb, n)
  <2>1. Doc(bs, m).blocks = bs /\ Doc(bs, m).loc = m BY DocParts, Zenon
  <2>2. bs[i].lines \o bs[j].lines = x BY <1>2, <1>7, <1>8, Zenon
  <2>3. mid = [bs EXCEPT ![i].lines = bs[i].lines \o bs[j].lines] BY <1>10, <2>2, Zenon DEF Refill
  <2>4. Absorb(Doc(bs, m), i, j) = Doc(RemoveAt(mid, j), Repoint(m, bs[j].lines, bs[i].ptr))
    BY <2>1, <2>3, Zenon DEF Absorb
  <2> QED BY <1>2, <1>7, <1>8, <1>12, <2>4, Zenon
<1>14. Ring(nb, a, r, z)
  <2>1. PICK q \in Blocks, s \in Blocks : q = <<r>> /\ s = a \o q BY BlockFacts, Zenon
  <2>2. Regroup(a, q, y) /\ Regroup(a, q, z) BY BlocksAssociate, Zenon
  <2>3. mid = s \o (<<c>> \o z) BY <1>5, <1>11, <2>1, <2>2, Zenon DEF Ring, Regroup
  <2>4. RemoveAt(s \o (<<c>> \o z), Len(s) + 1) = s \o z
    BY BlocksAround, Zenon DEF Rings, Takes
  <2>5. Len(s) + 1 = j
    <3>1. Len(s) = Len(a) + Len(q) BY <2>1, BlockFacts, Zenon
    <3>2. Len(q) = 1 BY <2>1
    <3> QED BY <1>7, <3>1, <3>2, Zenon
  <2> QED BY <1>12, <2>1, <2>2, <2>3, <2>4, <2>5, Zenon DEF Ring, Regroup
<1>15. PICK la \in Docs, lz \in Docs : la = Lines(a) /\ lz = Lines(z) BY LinesType, Zenon
<1>16. Lines(nb) = Lines(bs)
  <2>1. Flat(Lines(bs), w, c, z) BY <1>3, RingFacts, Zenon
  <2>2. Flat(Lines(nb), a, r, z) BY <1>14, RingFacts, Zenon
  <2>3. Lines(w) = la \o u BY <1>4, <1>8, <1>15, LinesAppend, Zenon
  <2>4. PICK t \in Docs : t = v \o lz BY DocFacts, Zenon
  <2>5. Regroup(la, u, t) /\ Regroup(u, v, lz) BY DocsAssociate, Zenon
  <2>6. Lines(nb) = la \o ((u \o v) \o lz) BY <1>8, <1>9, <1>15, <2>2, Zenon DEF Flat
  <2>7. Lines(bs) = (la \o u) \o t BY <1>8, <1>15, <2>1, <2>3, <2>4, Zenon DEF Flat
  <2> QED BY <2>4, <2>5, <2>6, <2>7, Zenon DEF Regroup
<1>17. Pieces(w, c, z, m) BY <1>3, RingFacts, Zenon
<1>18. Pieces(a, r, z, n)
  <2>1. Pieces(a \o <<b>>, c, z, m) BY <1>4, <1>17, Zenon
  <2>2. Ids(r.lines) = Ids(b.lines) \cup Ids(c.lines)
    <3>1. Ids(u \o v) = Ids(u) \cup Ids(v) BY IdsOfJoin
    <3> QED BY <1>8, <1>9, <3>1, Zenon
  <2>3. Unique(r.lines)
    <3>1. Pieces(a, b, y, m) BY <1>6, RingFacts, Zenon
    <3>2. Unique(b.lines) BY <3>1, Zenon DEF Pieces
    <3>3. Unique(c.lines) /\ Ids(Lines(w)) \cap Ids(c.lines) = {} BY <1>17, Zenon DEF Pieces
    <3>4. Ids(Lines(w)) = Ids(la) \cup Ids(u)
      <4>1. Ids(la \o u) = Ids(la) \cup Ids(u) BY IdsOfJoin
      <4>2. Lines(w) = la \o u BY <1>4, <1>8, <1>15, LinesAppend, Zenon
      <4> QED BY <4>1, <4>2, Zenon
    <3>5. Ids(u) \cap Ids(v) = {}
      <4>1. Ids(Lines(w)) \cap Ids(v) = {} BY <1>8, <3>3, Zenon
      <4> QED BY <3>4, <4>1
    <3>6. Unique(u \o v) <=> (Unique(u) /\ Unique(v) /\ Ids(u) \cap Ids(v) = {}) BY UniqueJoin
    <3> QED BY <1>8, <1>9, <3>2, <3>3, <3>5, <3>6, Zenon
  <2>4. /\ DOMAIN n = DOMAIN m
        /\ \A id \in DOMAIN m \ Ids(c.lines) : n[id] = m[id]
        /\ \A id \in Ids(c.lines) : n[id] = b.ptr
    <3>1. Ids(v) \subseteq DOMAIN m
      <4>1. Ids(c.lines) \subseteq DOMAIN m BY <1>17 DEF Pieces
      <4> QED BY <1>8, <4>1
    <3>2. n = [k \in DOMAIN m \cup Ids(v) |-> IF k \in Ids(v) THEN b.ptr ELSE m[k]]
      BY <1>12, Zenon DEF Repoint
    <3>3. /\ DOMAIN n = DOMAIN m /\ \A id \in DOMAIN m \ Ids(v) : n[id] = m[id]
          /\ \A id \in Ids(v) : n[id] = b.ptr
      BY <3>1, <3>2
    <3> QED BY <1>8, <3>3, Zenon
  <2> QED BY <1>9, <2>1, <2>2, <2>3, <2>4, JoinedInOne
<1>19. Sound(nb, n) BY <1>14, <1>18, RingFacts, Zenon
<1>20. Doc(nb, n).blocks = nb /\ Doc(nb, n).loc = n BY DocParts, Zenon
<1> QED BY <1>13, <1>16, <1>19, <1>20, Zenon DEF Same

LEMMA TryMergeKeeps ==
  ASSUME NEW bs, NEW m, Sound(bs, m), NEW i \in 1..Len(bs)
  PROVE  Same(bs, tryMerge(Doc(bs, m), i))
<1>1. bs \in Blocks BY DEF Sound
<1>2. PICK n \in Nat : n = Len(bs) /\ DOMAIN bs = 1..n BY <1>1, BlockFacts, Zenon
<1>3. Doc(bs, m).blocks = bs /\ Doc(bs, m).loc = m BY DocParts, Zenon
<1>4. CASE Fits(bs, i, i + 1)
  <2>1. i + 1 \in 1..Len(bs) BY <1>2, <1>4, Zenon DEF Fits
  <2>2. PICK j \in 1..Len(bs) : j = i + 1 BY <2>1, Zenon
  <2>3. Same(bs, Absorb(Doc(bs, m), i, j)) BY <2>2, AbsorbKeeps
  <2> QED BY <1>3, <1>4, <2>2, <2>3, Zenon DEF tryMerge
<1>5. CASE ~Fits(bs, i, i + 1) /\ Fits(bs, i, i - 1)
  <2>1. i - 1 \in 1..Len(bs) BY <1>2, <1>5, Zenon DEF Fits
  <2>2. PICK j \in 1..Len(bs) : j = i - 1 /\ i = j + 1 BY <1>2, <2>1
  <2>3. Same(bs, Absorb(Doc(bs, m), j, i)) BY <2>2, AbsorbKeeps
  <2> QED BY <1>3, <1>5, <2>2, <2>3, Zenon DEF tryMerge
<1>6. CASE ~Fits(bs, i, i + 1) /\ ~Fits(bs, i, i - 1)
  <2>1. tryMerge(Doc(bs, m), i) = Doc(bs, m) BY <1>3, <1>6, Zenon DEF tryMerge
  <2> QED BY <1>3, <2>1, Zenon DEF Same
<1> QED BY <1>4, <1>5, <1>6

-----------------------------------------------------------------------------
(* The edits: whatever is split or merged, one line more or one line less. *)
Given(bs, at, l, d) == Sound(d.blocks, d.loc) /\ Grown(Lines(bs), at, l, Lines(d.blocks))
Taken(bs, at, l, d) == Sound(d.blocks, d.loc) /\ Grown(Lines(d.blocks), at, l, Lines(bs))

LEMMA InsertGives ==
  ASSUME NEW bs, NEW m, Sound(bs, m), NEW at \in 0..Len(Lines(bs)),
         NEW l \in AnyLine, l.id \notin Ids(Lines(bs))
  PROVE  Given(bs, at, l, doInsert(Doc(bs, m), at, l))
<1>1. bs \in Blocks BY DEF Sound
<1>2. Doc(bs, m).blocks = bs /\ Doc(bs, m).loc = m BY DocParts, Zenon
<1>3. CASE bs = <<>>
  <2>1. PICK o \in Docs : o = <<l>> /\ Ids(o) = {l.id} /\ Unique(o) BY IdsOfOne, Zenon
  <2>2. PICK b : b = [ptr |-> 1, lines |-> o] OBVIOUS
  <2>3. b \in Block /\ b.ptr = 1 /\ b.lines = o BY <2>2 DEF Block
  <2>4. PICK nb, n : nb \in Blocks /\ nb = <<b>> /\ n = Repoint(m, o, 1) BY <2>3, BlockFacts, Zenon
  <2>5. doInsert(Doc(bs, m), at, l) = Doc(nb, n)
    BY <1>2, <1>3, <2>1, <2>2, <2>4, Zenon DEF doInsert
  <2>6. Lines(nb) = o /\ Lines(bs) = <<>> BY <1>3, <2>3, <2>4, LinesOne, LinesNone, Zenon
  <2>7. at = 0
    <3>1. Len(<<>>) = 0 OBVIOUS
    <3>2. at \in 0..0 BY <2>6, <3>1, Zenon
    <3> QED BY <3>2
  <2>8. Grown(Lines(bs), at, l, Lines(nb))
    <3>1. Len(<<>>) = 0 OBVIOUS
    <3>2. <<>> \in Docs /\ <<>> \o <<>> = <<>> /\ o \o <<>> = o /\ <<>> \o o = o
      BY DocFacts, Zenon
    <3>3. Ring(o, <<>>, l, <<>>) BY <2>1, <3>2, Zenon DEF Ring
    <3> QED BY <2>6, <2>7, <3>1, <3>2, <3>3, Zenon DEF Grown
  <2>9. DOMAIN n = {l.id} /\ n[l.id] = 1
    <3>1. DOMAIN m = {} BY <2>6, IdsOfNone DEF Sound
    <3>2. n = [k \in DOMAIN m \cup {l.id} |-> IF k \in {l.id} THEN 1 ELSE m[k]]
      BY <2>1, <2>4, Zenon DEF Repoint
    <3> QED BY <3>1, <3>2
  <2>10. Sound(nb, n)
    <3>1. Distinct(nb) /\ (At(nb, n) <=> \A id \in Ids(o) : n[id] = 1)
      BY <2>3, <2>4, PtrsOfOne, Zenon
    <3>2. \A id \in Ids(o) : n[id] = 1 BY <2>1, <2>9
    <3> QED BY <2>1, <2>4, <2>6, <2>9, <3>1, <3>2, Zenon DEF Sound
  <2>11. Doc(nb, n).blocks = nb /\ Doc(nb, n).loc = n BY DocParts, Zenon
  <2> QED BY <2>5, <2>8, <2>10, <2>11, Zenon DEF Given
<1>4. CASE bs # <<>>
  <2>1. PICK i, w : Locate(bs, at) = <<i, w>> /\ Spot(bs, at, i, w) BY <1>1, <1>4, Located
  <2>2. PICK ls : ls = InsertAt(bs[i].lines, w + 1, l) OBVIOUS
  <2>3. PICK nb, n : nb = Refill(bs, i, ls) /\ n = Repoint(m, <<l>>, bs[i].ptr) OBVIOUS
  <2>4. Sound(nb, n) /\ Grown(Lines(bs), at, l, Lines(nb)) /\ i \in 1..Len(nb)
    BY <2>1, <2>2, <2>3, PutIn, Zenon
  <2>5. Doc(nb, n).blocks = nb /\ Doc(nb, n).loc = n BY DocParts, Zenon
  <2>6. doInsert(Doc(bs, m), at, l) \in {Doc(nb, n), splitBlock(Doc(nb, n), i)}
    <3>1. Locate(bs, at)[1] = i /\ Locate(bs, at)[2] = w BY <2>1
    <3>2. doInsert(Doc(bs, m), at, l) =
            IF Bytes(ls) > Capacity /\ Len(ls) >= 2 THEN splitBlock(Doc(nb, n), i) ELSE Doc(nb, n)
      BY <1>2, <1>4, <2>2, <2>3, <3>1, Zenon DEF doInsert, Refill
    <3> QED BY <3>2, Zenon
  <2>7. CASE doInsert(Doc(bs, m), at, l) = Doc(nb, n) BY <2>4, <2>5, <2>7, Zenon DEF Given
  <2>8. CASE doInsert(Doc(bs, m), at, l) = splitBlock(Doc(nb, n), i)
    <3>1. Same(nb, splitBlock(Doc(nb, n), i)) BY <2>4, SplitKeeps
    <3> QED BY <2>4, <2>8, <3>1, Zenon DEF Given, Same
  <2> QED BY <2>6, <2>7, <2>8, Zenon
<1> QED BY <1>3, <1>4

LEMMA EmptyBlockGoes ==
  ASSUME NEW bs, NEW m, Sound(bs, m), NEW i \in 1..Len(bs), bs[i].lines = <<>>
  PROVE  Sound(RemoveAt(bs, i), m) /\ Lines(RemoveAt(bs, i)) = Lines(bs)
<1>1. bs \in Blocks BY DEF Sound
<1>2. PICK b \in Block : b = bs[i] /\ b.lines = <<>> BY <1>1, BlockAt, Zenon
<1>3. PICK a \in Blocks, z \in Blocks : Ring(bs, a, b, z) /\ Len(a) = i - 1
  BY <1>1, <1>2, BlockMiddle, Zenon
<1>4. Len(a) + 1 = i
  <2>1. Len(bs) \in Nat BY <1>1, BlockFacts, Zenon
  <2> QED BY <1>3, <2>1
<1>5. RemoveAt(bs, i) = a \o z
  <2>1. RemoveAt(a \o (<<b>> \o z), Len(a) + 1) = a \o z
      BY BlocksAround, Zenon DEF Rings, Takes
  <2> QED BY <1>3, <1>4, <2>1, Zenon DEF Ring
<1>6. PICK la \in Docs, lz \in Docs : la = Lines(a) /\ lz = Lines(z) BY LinesType, Zenon
<1>7. Lines(bs) = la \o lz
  <2>1. Flat(Lines(bs), a, b, z) BY <1>3, RingFacts, Zenon
  <2>2. <<>> \o lz = lz BY DocFacts, Zenon
  <2> QED BY <1>2, <1>6, <2>1, <2>2, Zenon DEF Flat
<1>8. PICK t \in Blocks : t = a \o z BY BlockFacts, Zenon
<1>9. Lines(t) = la \o lz BY <1>6, <1>8, LinesJoin, Zenon
<1>10. Pieces(a, b, z, m) BY <1>3, RingFacts, Zenon
<1>11. Distinct(t)
  <2>1. Distinct(a \o z) <=> (Distinct(a) /\ Distinct(z) /\ Ptrs(a) \cap Ptrs(z) = {}) BY DistinctJoin
  <2> QED BY <1>8, <1>10, <2>1, Zenon DEF Pieces
<1>12. At(t, m)
  <2>1. At(a \o z, m) <=> (At(a, m) /\ At(z, m)) BY PtrsOfJoin
  <2> QED BY <1>8, <1>10, <2>1, Zenon DEF Pieces
<1>13. Sound(t, m) BY <1>7, <1>9, <1>11, <1>12, Zenon DEF Sound
<1> QED BY <1>5, <1>7, <1>8, <1>9, <1>13, Zenon

LEMMA DeleteTakes ==
  ASSUME NEW bs, NEW m, Sound(bs, m), NEW at \in 0..Len(Lines(bs)) - 1
  PROVE  /\ Lines(bs)[at + 1] \in AnyLine
         /\ Taken(bs, at, Lines(bs)[at + 1], doDelete(Doc(bs, m), at))
<1>1. bs \in Blocks BY DEF Sound
<1>2. Doc(bs, m).blocks = bs /\ Doc(bs, m).loc = m BY DocParts, Zenon
<1>3. bs # <<>> /\ at \in 0..Len(Lines(bs)) /\ at < Len(Lines(bs))
  <2>1. Len(Lines(bs)) \in Nat BY <1>1, LinesType, DocFacts, Zenon
  <2>2. at \in 0..Len(Lines(bs)) /\ at < Len(Lines(bs)) /\ Len(Lines(bs)) # 0 BY <2>1
  <2>3. Len(<<>>) = 0 OBVIOUS
  <2> QED BY <2>2, <2>3, LinesNone, Zenon
<1>4. PICK i, w : Locate(bs, at) = <<i, w>> /\ Spot(bs, at, i, w) BY <1>1, <1>3, Located
<1>5. w < Len(bs[i].lines) BY <1>3, <1>4, Zenon DEF Spot
<1>6. PICK x, l, ls : x = bs[i].lines /\ l = x[w + 1] /\ ls = RemoveAt(x, w + 1) OBVIOUS
<1>7. PICK nb, n : nb = Refill(bs, i, ls) /\ n = [k \in DOMAIN m \ {l.id} |-> m[k]] OBVIOUS
<1>8. /\ l \in AnyLine /\ ls \in Docs /\ Sound(nb, n)
      /\ Grown(Lines(nb), at, l, Lines(bs)) /\ i \in 1..Len(nb)
  BY <1>4, <1>5, <1>6, <1>7, TakenOut, Zenon
<1>9. Lines(bs)[at + 1] = l
  <2>1. Grown(Lines(nb), at, l, Lines(bs)) BY <1>8, Zenon
  <2>2. l \in AnyLine BY <1>8, Zenon
  <2> QED BY <2>1, <2>2, GrownHas, Zenon
<1>10. Doc(nb, n).blocks = nb /\ Doc(nb, n).loc = n BY DocParts, Zenon
<1>11. i \in 1..Len(bs) BY <1>4, Zenon DEF Spot
<1>12. PICK a \in Blocks, z \in Blocks, b \in Block, c \in Block :
         c.lines = ls /\ Swapped(bs, i, nb, a, b, c, z)
  BY <1>1, <1>7, <1>8, <1>11, Refilled, Zenon
<1>13. /\ Ring(bs, a, b, z) /\ i = Len(a) + 1 /\ Ring(nb, a, c, z)
  BY <1>12, Zenon DEF Swapped
<1>14. doDelete(Doc(bs, m), at) = IF ls = <<>> THEN Doc(RemoveAt(bs, i), n)
                                  ELSE IF Bytes(ls) < MergeBelow THEN tryMerge(Doc(nb, n), i)
                                  ELSE Doc(nb, n)
  <2>1. Locate(bs, at)[1] = i /\ Locate(bs, at)[2] = w BY <1>4
  <2> QED BY <1>2, <1>6, <1>7, <2>1, Zenon DEF doDelete, Refill
<1>15. CASE ls = <<>>
  <2>1. nb[i] = c
    <3>1. nb[Len(a) + 1] = c BY <1>13, MiddleBlock, Zenon
    <3> QED BY <1>13, <3>1, Zenon
  <2>2. nb[i].lines = <<>> BY <1>12, <1>15, <2>1, Zenon
  <2>3. Sound(RemoveAt(nb, i), n) /\ Lines(RemoveAt(nb, i)) = Lines(nb)
    BY <1>8, <2>2, EmptyBlockGoes, Zenon
  <2>4. RemoveAt(nb, i) = RemoveAt(bs, i)
    <3>1. RemoveAt(a \o (<<b>> \o z), Len(a) + 1) = a \o z
      BY BlocksAround, Zenon DEF Rings, Takes
    <3>2. RemoveAt(a \o (<<c>> \o z), Len(a) + 1) = a \o z
      BY BlocksAround, Zenon DEF Rings, Takes
    <3> QED BY <1>13, <3>1, <3>2, Zenon DEF Ring
  <2>5. PICK rb : rb = RemoveAt(bs, i) OBVIOUS
  <2>6. doDelete(Doc(bs, m), at) = Doc(rb, n) BY <1>14, <1>15, <2>5, Zenon
  <2>7. Doc(rb, n).blocks = rb /\ Doc(rb, n).loc = n BY DocParts, Zenon
  <2> QED BY <1>8, <1>9, <2>3, <2>4, <2>5, <2>6, <2>7, Zenon DEF Taken
<1>16. CASE ls # <<>>
  <2>1. doDelete(Doc(bs, m), at) \in {Doc(nb, n), tryMerge(Doc(nb, n), i)} BY <1>14, <1>16, Zenon
  <2>2. CASE doDelete(Doc(bs, m), at) = Doc(nb, n) BY <1>8, <1>9, <1>10, <2>2, Zenon DEF Taken
  <2>3. CASE doDelete(Doc(bs, m), at) = tryMerge(Doc(nb, n), i)
    <3>1. Same(nb, tryMerge(Doc(nb, n), i)) BY <1>8, TryMergeKeeps
    <3> QED BY <1>8, <1>9, <2>3, <3>1, Zenon DEF Taken, Same
  <2> QED BY <2>1, <2>2, <2>3, Zenon
<1> QED BY <1>15, <1>16

-----------------------------------------------------------------------------
(* IndexOf: a line is found through its block, at its place.               *)
LEMMA LineAt ==
  ASSUME NEW bs \in Blocks, NEW i \in 1..Len(bs), NEW j \in DOMAIN bs[i].lines
  PROVE  /\ Start(bs, i) \in Nat /\ j \in Nat /\ Start(bs, i) + j \in DOMAIN Lines(bs)
         /\ Lines(bs)[Start(bs, i) + j] = bs[i].lines[j]
<1>1. PICK b \in Block : b = bs[i] BY BlockAt
<1>2. PICK a \in Blocks, z \in Blocks : Ring(bs, a, b, z) /\ Start(bs, i) = Len(Lines(a))
  BY <1>1, BlockMiddle, Zenon
<1>3. Flat(Lines(bs), a, b, z) /\ Lines(a) \in Docs /\ b.lines \in Docs /\ Lines(z) \in Docs
  BY <1>2, RingFacts, Zenon
<1>4. PICK x \in Docs, y \in Docs, v \in Docs :
        x = Lines(a) /\ y = b.lines /\ v = Lines(z) /\ Lines(bs) = x \o (y \o v)
  BY <1>3, Zenon DEF Flat
<1>5. PICK w \in Docs : w = y \o v BY DocFacts, Zenon
<1>6. PICK t \in Docs : t = x \o w BY DocFacts, Zenon
<1>7. j \in DOMAIN y BY <1>1, <1>4, Zenon
<1>8. j \in 1..Len(y) /\ Len(y) \in Nat /\ Len(x) \in Nat /\ Len(v) \in Nat
  BY <1>7, DocFacts, Zenon
<1>9. Len(w) = Len(y) + Len(v) /\ Len(t) = Len(x) + Len(w) /\ DOMAIN t = 1..Len(t)
  BY <1>5, <1>6, DocFacts, Zenon
<1>10. j \in Nat /\ j \in 1..Len(w) /\ Len(x) + j \in 1..Len(t) BY <1>8, <1>9
<1>11. (y \o v)[j] = y[j]
  <2>1. y \in Seq(AnyLine) /\ v \in Seq(AnyLine) BY DEF Docs
  <2> QED BY <1>8, <2>1, First
<1>12. (x \o w)[Len(x) + j] = w[j]
  <2>1. x \in Seq(AnyLine) /\ w \in Seq(AnyLine) BY DEF Docs
  <2> QED BY <1>10, <2>1, Second
<1>13. t[Len(x) + j] = y[j] BY <1>5, <1>6, <1>11, <1>12, Zenon
<1>14. t = Lines(bs) /\ Start(bs, i) = Len(x) /\ y = bs[i].lines
  BY <1>1, <1>2, <1>4, <1>5, <1>6, Zenon
<1> QED BY <1>8, <1>9, <1>10, <1>13, <1>14, Zenon

LEMMA Finds ==
  ASSUME Sound(blocks, loc), NEW x, NEW at, NEW l \in AnyLine, Grown(x, at, l, Lines(blocks))
  PROVE  Known(l.id) /\ IndexOf(l.id) = at
<1>1. blocks \in Blocks BY DEF Sound
<1>2. PICK d \in Docs : d = Lines(blocks) BY <1>1, LinesType, Zenon
<1>3. Grown(x, at, l, d) BY <1>2, Zenon
<1>4. d[at + 1] = l BY <1>3, GrownHas, Zenon
<1>5. PICK n \in Nat : n = Len(d) /\ DOMAIN d = 1..n BY DocFacts, Zenon
<1>6. at \in 0..Len(d) - 1 BY <1>3, GrownFacts, Zenon
<1>7. at \in Nat /\ at < Len(d) /\ at \in 0..Len(d) /\ at + 1 \in DOMAIN d BY <1>5, <1>6
<1>8. Found(blocks, at) BY <1>1, <1>2, <1>7, EveryLineIsFound, Zenon
<1>9. PICK a \in Blocks, z \in Blocks, b \in Block :
        /\ Ring(blocks, a, b, z)
        /\ Len(Lines(a)) <= at /\ at < Len(Lines(a)) + Len(b.lines)
  BY <1>8, Zenon DEF Found
<1>10. PICK i \in 1..Len(blocks) :
         i = Len(a) + 1 /\ blocks[i] = b /\ Start(blocks, i) = Len(Lines(a))
  BY <1>9, MiddleBlock, Zenon
<1>11. PICK s \in Nat, k \in Nat : s = Len(Lines(a)) /\ k = Len(b.lines) /\ DOMAIN b.lines = 1..k
  <2>1. Lines(a) \in Docs /\ b.lines \in Docs BY <1>9, RingFacts, Zenon
  <2> QED BY <2>1, DocFacts, Zenon
<1>12. PICK j \in 1..k : s + j = at + 1 /\ s + j - 1 = at
  <2>1. s <= at /\ at < s + k BY <1>9, <1>11, Zenon
  <2>2. PICK j : j = at + 1 - s OBVIOUS
  <2>3. j \in 1..k /\ s + j = at + 1 /\ s + j - 1 = at BY <1>7, <1>11, <2>1, <2>2
  <2> QED BY <2>3, Zenon
<1>13. j \in DOMAIN blocks[i].lines BY <1>10, <1>11, Zenon
<1>14. blocks[i].lines[j] = l
  <2>1. Lines(blocks)[Start(blocks, i) + j] = blocks[i].lines[j] BY <1>1, <1>13, LineAt, Zenon
  <2> QED BY <1>2, <1>4, <1>10, <1>11, <1>12, <2>1, Zenon
<1>15. i \in DOMAIN blocks BY <1>1, BlockFacts, Zenon
<1>16. HeldAt(l.id, i, j)
  <2>1. l.id \in Ids(blocks[i].lines) BY <1>13, <1>14, Zenon DEF Ids
  <2>2. Ids(blocks[i].lines) \subseteq Ids(Lines(blocks)) BY <1>1, BlockIds, Zenon
  <2>3. l.id \in DOMAIN loc /\ loc[l.id] = blocks[i].ptr BY <1>15, <2>1, <2>2, Zenon DEF Sound, At
  <2> QED BY <1>13, <1>14, <2>3, Zenon DEF HeldAt
<1>17. Known(l.id) BY <1>13, <1>15, <1>16, Zenon DEF Known
<1>18. at \in 0..LineCount BY <1>2, <1>7, Zenon DEF LineCount
<1>19. at = Start(blocks, i) + j - 1 BY <1>10, <1>11, <1>12, Zenon
<1>20. ASSUME NEW u, NEW g \in DOMAIN blocks, NEW h \in DOMAIN blocks[g].lines,
              HeldAt(l.id, g, h), u = Start(blocks, g) + h - 1
       PROVE  u = at
  <2>1. g \in 1..Len(blocks) BY <1>1, BlockFacts, Zenon
  <2>2. /\ Start(blocks, g) \in Nat /\ h \in Nat /\ Start(blocks, g) + h \in DOMAIN Lines(blocks)
        /\ Lines(blocks)[Start(blocks, g) + h] = blocks[g].lines[h]
    BY <1>1, <2>1, LineAt
  <2>3. d[Start(blocks, g) + h].id = d[at + 1].id BY <1>2, <1>4, <1>20, <2>2, Zenon DEF HeldAt
  <2>4. Unique(d) BY <1>2, Zenon DEF Sound
  <2>5. Start(blocks, g) + h = at + 1 BY <1>2, <1>7, <2>2, <2>3, <2>4, Zenon DEF Unique
  <2> QED BY <1>7, <1>20, <2>2, <2>5
<1>21. IndexOf(l.id) = at
  <2> DEFINE P(u) == \E g \in DOMAIN blocks : \E h \in DOMAIN blocks[g].lines :
                       HeldAt(l.id, g, h) /\ u = Start(blocks, g) + h - 1
  <2>1. P(at) BY <1>13, <1>15, <1>16, <1>19, Zenon
  <2>2. \A u : P(u) => u = at BY <1>20, Zenon
  <2>3. IndexOf(l.id) = CHOOSE u \in 0..LineCount : P(u) BY Zenon DEF IndexOf
  <2> HIDE DEF P
  <2> QED BY <1>18, <2>1, <2>2, <2>3, Zenon
<1> QED BY <1>17, <1>21

LEMMA Unknown ==
  ASSUME Sound(blocks, loc), NEW id, id \notin Ids(Lines(blocks))
  PROVE  ~Known(id)
BY Zenon DEF Sound, Known, HeldAt

-----------------------------------------------------------------------------
(* The journal: between the documents H, from the oldest to d, each entry  *)
(* is one line more or one line less.  An entry adds its line on the way   *)
(* to the newer document when its operation is op, and drops it otherwise. *)
Edit == [op : {"insert", "delete"}, at : Nat, line : AnyLine]
Adds(e, op, x, y) == IF e.op = op THEN Grown(x, e.at, e.line, y) ELSE Grown(y, e.at, e.line, x)

\* A document whose ids have all been given out before n.
Old(x, n) == x \in Docs /\ Unique(x) /\ \A id \in Ids(x) : id < n

History(js, op, H, d, n) ==
  /\ js \in Seq(Edit) /\ H \in Seq(Docs) /\ Len(H) = Len(js) + 1 /\ H[Len(H)] = d
  /\ \A k \in 1..Len(H) : Old(H[k], n)
  /\ \A k \in 1..Len(js) : Adds(js[k], op, H[k], H[k + 1])

(* Taking an edit back, as the mapping of the journal to documents does.   *)
LEMMA EditIsUndone ==
  ASSUME NEW x, NEW at, NEW l \in AnyLine, NEW y, Grown(x, at, l, y), Unique(y),
         NEW e, e.at = at, e.line = l
  PROVE  Without(y, e) = x /\ WithLine(x, e) = y
<1>1. x \in Docs /\ y \in Docs BY GrownFacts, Zenon
<1>2. PICK n \in Nat, k \in Nat : n = Len(x) /\ k = Len(y) /\ DOMAIN y = 1..k BY <1>1, DocFacts, Zenon
<1>3. at \in 0..Len(x) /\ at \in 0..Len(y) - 1 BY GrownFacts, Zenon
<1>4. at <= Len(x) /\ at + 1 \in DOMAIN y BY <1>2, <1>3
<1>5. y[at + 1] = l BY GrownHas
<1>6. InsertAt(x, at + 1, l) = y /\ RemoveAt(y, at + 1) = x BY GrownMoves
<1>7. l.id \in Ids(y) BY <1>4, <1>5, Zenon DEF Ids
<1>8. Pos(y, l.id) = at + 1
  <2>1. y[at + 1].id = l.id BY <1>5
  <2>2. \A j \in DOMAIN y : y[j].id = l.id => j = at + 1 BY <1>4, <2>1, Zenon DEF Unique
  <2> QED BY <1>4, <2>1, <2>2, Zenon DEF Pos
<1>9. Without(y, e) = x BY <1>6, <1>7, <1>8, Zenon DEF Without
<1>10. WithLine(x, e) = y BY <1>4, <1>6, Zenon DEF WithLine
<1> QED BY <1>9, <1>10

LEMMA AddsUndone ==
  ASSUME NEW e \in Edit, NEW x, NEW y, Unique(x), Unique(y)
  PROVE  /\ Adds(e, "insert", x, y) => Before(y, e) = x
         /\ Adds(e, "delete", x, y) => After(y, e) = x
<1>1. e.line \in AnyLine /\ e.op \in {"insert", "delete"} BY DEF Edit
<1>2. ASSUME Grown(x, e.at, e.line, y) PROVE Without(y, e) = x
  BY <1>1, <1>2, EditIsUndone
<1>3. ASSUME Grown(y, e.at, e.line, x) PROVE WithLine(y, e) = x
  BY <1>1, <1>3, EditIsUndone
<1>4. CASE e.op = "insert"
  <2>1. e.op # "delete" BY <1>4
  <2> QED BY <1>2, <1>3, <1>4, <2>1, Zenon DEF Adds, Before, After
<1>5. CASE e.op = "delete"
  <2>1. e.op # "insert" BY <1>5
  <2> QED BY <1>2, <1>3, <1>5, <2>1, Zenon DEF Adds, Before, After
<1> QED BY <1>1, <1>4, <1>5, Zenon

(* What is worked out from the newest document back has one outcome.       *)
LEMMA Unrolls ==
  ASSUME NEW m \in Nat, NEW f, NEW g, f[m + 1] = g[m + 1],
         \A k \in 1..m : f[k + 1] = g[k + 1] => f[k] = g[k]
  PROVE  \A k \in 1..m : f[k] = g[k]
<1> DEFINE S == {i \in Nat : i <= m => f[m + 1 - i] = g[m + 1 - i]}
<1>1. 0 \in S
  <2>1. m + 1 - 0 = m + 1 OBVIOUS
  <2> QED BY <2>1
<1>2. ASSUME NEW i \in Nat, i \in S PROVE i + 1 \in S
  <2> SUFFICES ASSUME i + 1 <= m PROVE f[m + 1 - (i + 1)] = g[m + 1 - (i + 1)] OBVIOUS
  <2>1. PICK k \in 1..m : k = m + 1 - (i + 1) /\ k + 1 = m + 1 - i /\ i <= m OBVIOUS
  <2>2. f[m + 1 - i] = g[m + 1 - i] BY <1>2, <2>1
  <2> QED BY <2>1, <2>2, Zenon
<1>3. \A i \in Nat : i \in S
  <2> HIDE DEF S
  <2> QED BY <1>1, <1>2, Climb
<1>4. ASSUME NEW k \in 1..m PROVE f[k] = g[k]
  <2>1. PICK i \in Nat : i = m + 1 - k /\ m + 1 - i = k /\ i <= m OBVIOUS
  <2>2. i \in S BY <1>3, <2>1, Zenon
  <2>3. f[m + 1 - i] = g[m + 1 - i] BY <2>1, <2>2
  <2> QED BY <2>1, <2>3, Zenon
<1> QED BY <1>4, Zenon

Tabled(H, m) == H = [k \in 1..m |-> H[k]]

LEMMA HistoryFacts ==
  ASSUME NEW js, NEW op, NEW H, NEW d, NEW n, History(js, op, H, d, n)
  PROVE  /\ Len(js) \in Nat /\ DOMAIN js = 1..Len(js) /\ Len(H) = Len(js) + 1
         /\ DOMAIN H = 1..Len(js) + 1 /\ H[Len(js) + 1] = d /\ d \in Docs /\ Old(d, n)
         /\ \A k \in 1..Len(js) : js[k] \in Edit /\ H[k] \in Docs /\ Old(H[k], n)
         /\ Tabled(H, Len(js) + 1)
<1>1. js \in Seq(Edit) /\ H \in Seq(Docs) /\ Len(H) = Len(js) + 1 /\ H[Len(H)] = d
  BY Zenon DEF History
<1>2. \A k \in 1..Len(H) : Old(H[k], n) BY Zenon DEF History
<1>3. PICK m \in Nat : m = Len(js) /\ DOMAIN js = 1..m BY <1>1, LenProperties
<1>4. DOMAIN H = 1..m + 1 BY <1>1, <1>3, LenProperties
<1>5. \A k \in 1..m : js[k] \in Edit /\ H[k] \in Docs /\ k \in 1..m + 1
  BY <1>1, <1>3, ElementOfSeq
<1>6. m + 1 \in 1..m + 1 OBVIOUS
<1>7. H[m + 1] = d /\ Old(d, n) BY <1>1, <1>2, <1>3, <1>6, Zenon
<1>8. \A k \in 1..m : Old(H[k], n) BY <1>1, <1>2, <1>3, <1>5, Zenon
<1>9. Tabled(H, m + 1) BY <1>1, <1>4 DEF Tabled
<1> QED BY <1>1, <1>3, <1>4, <1>5, <1>7, <1>8, <1>9, Zenon DEF Old

(* The documents the journal stands for, worked out from it, are those.    *)
PastOf(js, d) ==
  LET doc == CHOOSE doc : doc = [k \in 1..Len(js) + 1 |->
               IF k = Len(js) + 1 THEN d ELSE Before(doc[k + 1], js[k])]
  IN  [k \in 1..Len(js) |-> doc[k]]
FutureOf(js, d) ==
  LET doc == CHOOSE doc : doc = [k \in 1..Len(js) + 1 |->
               IF k = Len(js) + 1 THEN d ELSE After(doc[k + 1], js[k])]
  IN  [k \in 1..Len(js) |-> doc[k]]

LEMMA PastIsHistory ==
  ASSUME NEW js, NEW H, NEW d, NEW n, History(js, "insert", H, d, n)
  PROVE  PastOf(js, d) = [k \in 1..Len(js) |-> H[k]]
<1>1. Len(js) \in Nat BY HistoryFacts, Zenon
<1>2. /\ H[Len(js) + 1] = d /\ Old(d, n) /\ H = [k \in 1..Len(js) + 1 |-> H[k]]
      /\ \A k \in 1..Len(js) : js[k] \in Edit /\ H[k] \in Docs /\ Old(H[k], n)
  <2>1. Tabled(H, Len(js) + 1) BY HistoryFacts, Zenon
  <2>2. H[Len(js) + 1] = d /\ Old(d, n) BY HistoryFacts, Zenon
  <2>3. \A k \in 1..Len(js) : js[k] \in Edit /\ H[k] \in Docs /\ Old(H[k], n)
    BY HistoryFacts, Zenon
  <2> QED BY <2>1, <2>2, <2>3, Zenon DEF Tabled
<1>3. \A k \in 1..Len(js) : k # Len(js) + 1 /\ k \in 1..Len(js) + 1 /\ k + 1 \in 1..Len(js) + 1 BY <1>1
<1>4. Len(js) + 1 \in 1..Len(js) + 1 /\ \A k \in 1..Len(js) + 1 : k = Len(js) + 1 \/ k \in 1..Len(js) BY <1>1
<1>5. \A k \in 1..Len(js) + 1 : Unique(H[k]) BY <1>2, <1>4, Zenon DEF Old
<1>6. ASSUME NEW k \in 1..Len(js) PROVE Before(H[k + 1], js[k]) = H[k]
  <2>1. Adds(js[k], "insert", H[k], H[k + 1]) BY <1>1, <1>6, Zenon DEF History
  <2>2. js[k] \in Edit /\ Unique(H[k]) /\ Unique(H[k + 1]) BY <1>2, <1>3, <1>5, Zenon
  <2> QED BY <2>1, <2>2, AddsUndone, Zenon
<1> DEFINE U(g) == g = [k \in 1..Len(js) + 1 |-> IF k = Len(js) + 1 THEN d ELSE Before(g[k + 1], js[k])]
<1>7. U(H)
  <2>1. \A k \in 1..Len(js) + 1 : H[k] = IF k = Len(js) + 1 THEN d ELSE Before(H[k + 1], js[k])
    BY <1>2, <1>4, <1>6, Zenon
  <2> QED BY <1>2, <2>1, Zenon
<1>8. PICK g : g = (CHOOSE f : U(f)) /\ U(g) BY <1>7, Zenon
<1>9. g[Len(js) + 1] = H[Len(js) + 1] /\ \A k \in 1..Len(js) : g[k] = Before(g[k + 1], js[k])
  BY <1>2, <1>3, <1>4, <1>8, Zenon
<1>10. \A k \in 1..Len(js) : g[k + 1] = H[k + 1] => g[k] = H[k] BY <1>6, <1>9, Zenon
<1>11. \A k \in 1..Len(js) : g[k] = H[k]
  <2>1. g[Len(js) + 1] = H[Len(js) + 1] BY <1>9, Zenon
  <2> QED BY <1>10, <2>1, Unrolls
<1>12. PastOf(js, d) = [k \in 1..Len(js) |-> g[k]] BY <1>1, <1>8, Zenon DEF PastOf
<1> QED BY <1>1, <1>11, <1>12, Zenon

LEMMA FutureIsHistory ==
  ASSUME NEW js, NEW H, NEW d, NEW n, History(js, "delete", H, d, n)
  PROVE  FutureOf(js, d) = [k \in 1..Len(js) |-> H[k]]
<1>1. Len(js) \in Nat BY HistoryFacts, Zenon
<1>2. /\ H[Len(js) + 1] = d /\ Old(d, n) /\ H = [k \in 1..Len(js) + 1 |-> H[k]]
      /\ \A k \in 1..Len(js) : js[k] \in Edit /\ H[k] \in Docs /\ Old(H[k], n)
  <2>1. Tabled(H, Len(js) + 1) BY HistoryFacts, Zenon
  <2>2. H[Len(js) + 1] = d /\ Old(d, n) BY HistoryFacts, Zenon
  <2>3. \A k \in 1..Len(js) : js[k] \in Edit /\ H[k] \in Docs /\ Old(H[k], n)
    BY HistoryFacts, Zenon
  <2> QED BY <2>1, <2>2, <2>3, Zenon DEF Tabled
<1>3. \A k \in 1..Len(js) : k # Len(js) + 1 /\ k \in 1..Len(js) + 1 /\ k + 1 \in 1..Len(js) + 1 BY <1>1
<1>4. Len(js) + 1 \in 1..Len(js) + 1 /\ \A k \in 1..Len(js) + 1 : k = Len(js) + 1 \/ k \in 1..Len(js) BY <1>1
<1>5. \A k \in 1..Len(js) + 1 : Unique(H[k]) BY <1>2, <1>4, Zenon DEF Old
<1>6. ASSUME NEW k \in 1..Len(js) PROVE After(H[k + 1], js[k]) = H[k]
  <2>1. Adds(js[k], "delete", H[k], H[k + 1]) BY <1>1, <1>6, Zenon DEF History
  <2>2. js[k] \in Edit /\ Unique(H[k]) /\ Unique(H[k + 1]) BY <1>2, <1>3, <1>5, Zenon
  <2> QED BY <2>1, <2>2, AddsUndone, Zenon
<1> DEFINE U(g) == g = [k \in 1..Len(js) + 1 |-> IF k = Len(js) + 1 THEN d ELSE After(g[k + 1], js[k])]
<1>7. U(H)
  <2>1. \A k \in 1..Len(js) + 1 : H[k] = IF k = Len(js) + 1 THEN d ELSE After(H[k + 1], js[k])
    BY <1>2, <1>4, <1>6, Zenon
  <2> QED BY <1>2, <2>1, Zenon
<1>8. PICK g : g = (CHOOSE f : U(f)) /\ U(g) BY <1>7, Zenon
<1>9. g[Len(js) + 1] = H[Len(js) + 1] /\ \A k \in 1..Len(js) : g[k] = After(g[k + 1], js[k])
  BY <1>2, <1>3, <1>4, <1>8, Zenon
<1>10. \A k \in 1..Len(js) : g[k + 1] = H[k + 1] => g[k] = H[k] BY <1>6, <1>9, Zenon
<1>11. \A k \in 1..Len(js) : g[k] = H[k]
  <2>1. g[Len(js) + 1] = H[Len(js) + 1] BY <1>9, Zenon
  <2> QED BY <1>10, <2>1, Unrolls
<1>12. FutureOf(js, d) = [k \in 1..Len(js) |-> g[k]] BY <1>1, <1>8, Zenon DEF FutureOf
<1> QED BY <1>1, <1>11, <1>12, Zenon

LEMMA ChainsAre ==
  /\ Chain(undo, Before) = PastOf(undo, Lines(blocks))
  /\ Chain(redo, After) = FutureOf(redo, Lines(blocks))
  /\ Chain(undo, Before)' = PastOf(undo', Lines(blocks'))
  /\ Chain(redo, After)' = FutureOf(redo', Lines(blocks'))
<1>1. Chain(undo, Before) = PastOf(undo, Lines(blocks)) BY Zenon DEF Chain, PastOf
<1>2. Chain(redo, After) = FutureOf(redo, Lines(blocks)) BY Zenon DEF Chain, FutureOf
<1>3. Chain(undo, Before)' = PastOf(undo', Lines(blocks')) BY Zenon DEF Chain, PastOf
<1>4. Chain(redo, After)' = FutureOf(redo', Lines(blocks')) BY Zenon DEF Chain, FutureOf
<1> QED BY <1>1, <1>2, <1>3, <1>4, Zenon

(* The journal grows by its newest entry, and loses its newest or oldest.  *)
LEMMA OldStays ==
  ASSUME NEW x, NEW n \in Nat, NEW m \in Nat, n <= m, Old(x, n)
  PROVE  Old(x, m)
<1>1. \A id \in Ids(x) : id \in Nat
  <2> SUFFICES ASSUME NEW i \in DOMAIN x PROVE x[i].id \in Nat BY Zenon DEF Ids
  <2>1. x[i] \in AnyLine BY DEF Old, Docs
  <2> QED BY <2>1 DEF AnyLine
<1>2. \A id \in Ids(x) : id < n BY Zenon DEF Old
<1>3. \A id \in Ids(x) : id < m BY <1>1, <1>2
<1> QED BY <1>3, Zenon DEF Old

LEMMA Appended ==
  ASSUME NEW T, NEW s \in Seq(T), NEW e \in T, NEW m \in Nat, Len(s) = m
  PROVE  /\ Append(s, e) \in Seq(T) /\ Len(Append(s, e)) = m + 1
         /\ Append(s, e)[m + 1] = e /\ \A k \in 1..m : Append(s, e)[k] = s[k]
BY AppendProperties

LEMMA Tailed ==
  ASSUME NEW T, NEW s \in Seq(T), NEW m \in Nat, Len(s) = m + 1
  PROVE  /\ Tail(s) \in Seq(T) /\ Len(Tail(s)) = m /\ \A k \in 1..m : Tail(s)[k] = s[k + 1]
<1>1. s # <<>> BY EmptySeq
<1> QED BY <1>1, HeadTailProperties

LEMMA Fronted ==
  ASSUME NEW T, NEW s \in Seq(T), NEW m \in Nat, Len(s) = m + 1
  PROVE  /\ Front(s) \in Seq(T) /\ Len(Front(s)) = m /\ \A k \in 1..m : Front(s)[k] = s[k]
<1>1. Front(s) = SubSeq(s, 1, m) BY DEF Front
<1>2. \A k \in 1..m : s[k] \in T BY ElementOfSeq
<1>3. /\ SubSeq(s, 1, m) \in Seq(T) /\ Len(SubSeq(s, 1, m)) = IF 1 <= m THEN m - 1 + 1 ELSE 0
      /\ \A k \in 1..m - 1 + 1 : SubSeq(s, 1, m)[k] = s[1 + k - 1]
  BY <1>2, SubSeqProperties
<1>4. m - 1 + 1 = m /\ (IF 1 <= m THEN m - 1 + 1 ELSE 0) = m /\ \A k \in 1..m : 1 + k - 1 = k OBVIOUS
<1> QED BY <1>1, <1>3, <1>4, Zenon

LEMMA HistoryNone ==
  ASSUME NEW op, NEW d, NEW n, Old(d, n)
  PROVE  History(<<>>, op, <<d>>, d, n)
<1>1. d \in Docs BY DEF Old
<1>2. <<>> \in Seq(Edit) /\ <<d>> \in Seq(Docs) /\ Len(<<d>>) = 1 /\ Len(<<>>) = 0 /\ <<d>>[1] = d
  BY <1>1
<1>3. Len(<<d>>) = Len(<<>>) + 1 BY <1>2
<1>4. \A k \in 1..1 : k = 1 OBVIOUS
<1>5. \A k \in 1..0 : FALSE OBVIOUS
<1> QED BY <1>2, <1>3, <1>4, <1>5, Zenon DEF History

LEMMA HistoryPush ==
  ASSUME NEW js, NEW op, NEW H, NEW d, NEW n \in Nat, History(js, op, H, d, n),
         NEW e \in Edit, NEW c, NEW m \in Nat, n <= m, Adds(e, op, d, c), Old(c, m)
  PROVE  History(Append(js, e), op, Append(H, c), c, m)
<1>1. js \in Seq(Edit) /\ H \in Seq(Docs) /\ Len(H) = Len(js) + 1 /\ H[Len(H)] = d
  BY Zenon DEF History
<1>2. PICK p \in Nat, q \in Nat : p = Len(js) /\ q = p + 1 /\ Len(H) = q BY <1>1, LenProperties
<1>3. c \in Docs BY Zenon DEF Old
<1>4. PICK j : j = Append(js, e) OBVIOUS
<1>5. PICK G : G = Append(H, c) OBVIOUS
<1>6. j \in Seq(Edit) /\ Len(j) = q /\ j[q] = e /\ \A k \in 1..p : j[k] = js[k]
  BY <1>1, <1>2, <1>4, Appended
<1>7. G \in Seq(Docs) /\ Len(G) = q + 1 /\ G[q + 1] = c /\ \A k \in 1..q : G[k] = H[k]
  BY <1>1, <1>2, <1>3, <1>5, Appended
<1>8. \A k \in 1..p : k \in 1..q /\ k + 1 \in 1..q BY <1>2
<1>9. \A k \in 1..q : k = q \/ k \in 1..p BY <1>2
<1>10. q \in 1..q /\ \A k \in 1..q + 1 : k = q + 1 \/ k \in 1..q BY <1>2
<1>11. \A k \in 1..q : Old(H[k], m)
  <2>1. \A k \in 1..q : Old(H[k], n) BY <1>2, Zenon DEF History
  <2> QED BY <2>1, OldStays, Zenon
<1>12. \A k \in 1..q + 1 : Old(G[k], m) BY <1>7, <1>10, <1>11, Zenon
<1>13. \A k \in 1..p : Adds(js[k], op, H[k], H[k + 1]) BY <1>2, Zenon DEF History
<1>14. ASSUME NEW k \in 1..q PROVE Adds(j[k], op, G[k], G[k + 1])
  <2>1. CASE k = q
    <3>1. G[q] = d BY <1>1, <1>2, <1>7, <1>10, Zenon
    <3> QED BY <1>6, <1>7, <2>1, <3>1, Zenon
  <2>2. CASE k \in 1..p
    <3>1. j[k] = js[k] /\ G[k] = H[k] /\ G[k + 1] = H[k + 1] BY <1>6, <1>7, <1>8, <2>2, Zenon
    <3> QED BY <1>13, <2>2, <3>1, Zenon
  <2> QED BY <1>9, <2>1, <2>2, Zenon
<1> QED BY <1>4, <1>5, <1>6, <1>7, <1>12, <1>14, Zenon DEF History

LEMMA HistoryCut ==
  ASSUME NEW js, NEW op, NEW H, NEW d, NEW n, History(js, op, H, d, n), Len(js) # 0
  PROVE  History(Tail(js), op, Tail(H), d, n) /\ Len(Tail(js)) = Len(js) - 1
<1>1. js \in Seq(Edit) /\ H \in Seq(Docs) /\ Len(H) = Len(js) + 1 /\ H[Len(H)] = d
  BY Zenon DEF History
<1>2. PICK p \in Nat, q \in Nat : q = Len(js) /\ q = p + 1 /\ p = q - 1 /\ Len(H) = q + 1
  <2>1. Len(js) \in Nat BY <1>1, LenProperties
  <2>2. Len(js) - 1 \in Nat /\ Len(js) = Len(js) - 1 + 1 BY <2>1
  <2> QED BY <1>1, <2>1, <2>2, Zenon
<1>4. PICK j : j = Tail(js) OBVIOUS
<1>5. PICK G : G = Tail(H) OBVIOUS
<1>6. j \in Seq(Edit) /\ Len(j) = p /\ \A k \in 1..p : j[k] = js[k + 1]
  BY <1>1, <1>2, <1>4, Tailed
<1>7. G \in Seq(Docs) /\ Len(G) = q /\ \A k \in 1..q : G[k] = H[k + 1]
  BY <1>1, <1>2, <1>5, Tailed
<1>8. \A k \in 1..p : k + 1 \in 1..q /\ k \in 1..q BY <1>2
<1>9. q \in 1..q /\ \A k \in 1..q : k + 1 \in 1..q + 1 BY <1>2
<1>10. G[q] = d BY <1>1, <1>2, <1>7, <1>9, Zenon
<1>11. \A k \in 1..q : Old(G[k], n)
  <2>1. \A k \in 1..q + 1 : Old(H[k], n) BY <1>2, Zenon DEF History
  <2> QED BY <1>7, <1>9, <2>1, Zenon
<1>12. \A k \in 1..q : Adds(js[k], op, H[k], H[k + 1]) BY <1>2, Zenon DEF History
<1>13. \A k \in 1..p : Adds(j[k], op, G[k], G[k + 1]) BY <1>6, <1>7, <1>8, <1>12, Zenon
<1> QED BY <1>2, <1>4, <1>5, <1>6, <1>7, <1>10, <1>11, <1>13, Zenon DEF History

LEMMA HistoryPop ==
  ASSUME NEW js, NEW op, NEW H, NEW d, NEW n, History(js, op, H, d, n), Len(js) # 0
  PROVE  /\ History(Front(js), op, Front(H), H[Len(js)], n) /\ Len(Front(js)) = Len(js) - 1
         /\ Last(js) \in Edit /\ Adds(Last(js), op, H[Len(js)], d)
         /\ Old(H[Len(js)], n) /\ Old(d, n)
<1>1. js \in Seq(Edit) /\ H \in Seq(Docs) /\ Len(H) = Len(js) + 1 /\ H[Len(H)] = d
  BY Zenon DEF History
<1>2. PICK p \in Nat, q \in Nat : q = Len(js) /\ q = p + 1 /\ p = q - 1 /\ Len(H) = q + 1
  <2>1. Len(js) \in Nat BY <1>1, LenProperties
  <2>2. Len(js) - 1 \in Nat /\ Len(js) = Len(js) - 1 + 1 BY <2>1
  <2> QED BY <1>1, <2>1, <2>2, Zenon
<1>4. PICK j : j = Front(js) OBVIOUS
<1>5. PICK G : G = Front(H) OBVIOUS
<1>6. j \in Seq(Edit) /\ Len(j) = p /\ \A k \in 1..p : j[k] = js[k]
  BY <1>1, <1>2, <1>4, Fronted
<1>7. G \in Seq(Docs) /\ Len(G) = q /\ \A k \in 1..q : G[k] = H[k]
  BY <1>1, <1>2, <1>5, Fronted
<1>8. \A k \in 1..p : k + 1 \in 1..q /\ k \in 1..q BY <1>2
<1>9. q \in 1..q /\ q + 1 \in 1..q + 1 /\ \A k \in 1..q : k \in 1..q + 1 BY <1>2
<1>10. G[q] = H[q] BY <1>7, <1>9, Zenon
<1>11. \A k \in 1..q + 1 : Old(H[k], n) BY <1>2, Zenon DEF History
<1>12. \A k \in 1..q : Old(G[k], n) BY <1>7, <1>9, <1>11, Zenon
<1>13. \A k \in 1..q : Adds(js[k], op, H[k], H[k + 1]) BY <1>2, Zenon DEF History
<1>14. \A k \in 1..p : Adds(j[k], op, G[k], G[k + 1]) BY <1>6, <1>7, <1>8, <1>13, Zenon
<1>15. H[q + 1] = d BY <1>1, <1>2, Zenon
<1>16. Last(js) = js[q] BY <1>2, Zenon DEF Last
<1>17. js[q] \in Edit
  <2>1. q \in 1..Len(js) BY <1>2, <1>9, Zenon
  <2> QED BY <1>1, <2>1, ElementOfSeq
<1>18. History(j, op, G, H[q], n) BY <1>2, <1>6, <1>7, <1>10, <1>12, <1>14, Zenon DEF History
<1>19. Adds(Last(js), op, H[q], d) BY <1>9, <1>13, <1>15, <1>16, Zenon
<1>20. Old(H[q], n) /\ Old(d, n) BY <1>9, <1>11, <1>15, Zenon
<1> QED BY <1>2, <1>4, <1>5, <1>6, <1>16, <1>17, <1>18, <1>19, <1>20, Zenon

-----------------------------------------------------------------------------
(* Load: the lines are put into one block after another, in their order.   *)
Place(bs, l) ==
  IF bs # <<>> /\ Bytes(Last(bs).lines) + l.text <= Capacity
    THEN [bs EXCEPT ![Len(bs)].lines = Append(@, l)]
    ELSE Append(bs, [ptr |-> Len(bs) + 1, lines |-> <<l>>])
Numbered == {bs \in Blocks : \A i \in DOMAIN bs : bs[i].ptr = i}
Placed(bs, l, t) == t \in Numbered /\ Lines(t) = Lines(bs) \o <<l>>

LEMMA PlacedLast ==
  ASSUME NEW bs \in Numbered, bs # <<>>, NEW l \in AnyLine
  PROVE  Placed(bs, l, [bs EXCEPT ![Len(bs)].lines = Append(@, l)])
<1>1. bs \in Blocks /\ \A i \in DOMAIN bs : bs[i].ptr = i BY DEF Numbered
<1>2. PICK n \in Nat : n = Len(bs) /\ DOMAIN bs = 1..n BY <1>1, BlockFacts, Zenon
<1>3. n \in 1..Len(bs) /\ n \in DOMAIN bs
  <2>1. n # 0 BY <1>1, <1>2, EmptySeq DEF Blocks
  <2> QED BY <1>2, <2>1
<1>4. PICK w \in Docs : w = bs[n].lines BY <1>1, <1>3, BlockAt, Zenon
<1>5. PICK o \in Docs : o = <<l>> BY DocFacts, Zenon
<1>6. PICK ls \in Docs : ls = w \o o BY DocFacts, Zenon
<1>7. Append(w, l) = ls
  <2>1. Append(w, l) = w \o <<l>> BY AppendIsConcat DEF Docs
  <2> QED BY <1>5, <1>6, <2>1, Zenon
<1>8. PICK t : t = Refill(bs, n, ls) OBVIOUS
<1>9. PICK a \in Blocks, z \in Blocks, b \in Block, c \in Block :
        c.lines = ls /\ Swapped(bs, n, t, a, b, c, z)
  BY <1>1, <1>3, <1>8, Refilled, Zenon
<1>10. /\ b = bs[n] /\ Ring(bs, a, b, z) /\ n = Len(a) + 1 /\ c.ptr = b.ptr /\ Ring(t, a, c, z)
  BY <1>9, Zenon DEF Swapped
<1>11. z = <<>>
  <2>1. Len(a \o (<<b>> \o z)) = Len(a) + Len(z) + 1
    BY BlocksAround, Zenon DEF Rings, Reads
  <2>2. Len(bs) = Len(a) + Len(z) + 1 BY <1>10, <2>1, Zenon DEF Ring
  <2>3. Len(a) \in Nat /\ Len(z) \in Nat BY BlockFacts, Zenon
  <2>4. Len(z) = 0 BY <1>2, <1>10, <2>2, <2>3
  <2> QED BY <2>4, EmptySeq DEF Blocks
<1>12. /\ Flat(Lines(bs), a, b, z) /\ Flat(Lines(t), a, c, z) /\ t \in Blocks
       /\ Lines(a) \in Docs /\ b.lines \in Docs
  BY <1>10, RingFacts, Zenon
<1>13. Lines(z) = <<>> BY <1>11, LinesNone, Zenon
<1>14. w \o <<>> = w /\ ls \o <<>> = ls BY DocFacts, Zenon
<1>15. PICK la \in Docs : la = Lines(a) BY <1>12, Zenon
<1>16. Lines(bs) = la \o w BY <1>4, <1>10, <1>12, <1>13, <1>14, <1>15, Zenon DEF Flat
<1>17. Lines(t) = la \o ls BY <1>9, <1>12, <1>13, <1>14, <1>15, Zenon DEF Flat
<1>18. Lines(t) = Lines(bs) \o <<l>>
  <2>1. Regroup(la, w, o) BY DocsAssociate, Zenon
  <2> QED BY <1>5, <1>6, <1>16, <1>17, <2>1, Zenon DEF Regroup
<1>19. t = [bs EXCEPT ![n] = [bs[n] EXCEPT !.lines = ls]] BY <1>8, Zenon DEF Refill
<1>20. DOMAIN t = DOMAIN bs /\ \A i \in DOMAIN bs : t[i].ptr = bs[i].ptr
  <2>1. [bs[n] EXCEPT !.lines = ls].ptr = bs[n].ptr
    <3>1. bs[n] \in Block BY <1>10, Zenon
    <3> QED BY <3>1, OtherLines
  <2> QED BY <1>2, <1>3, <1>19, <2>1
<1>21. t \in Numbered BY <1>1, <1>12, <1>20 DEF Numbered
<1>22. t = [bs EXCEPT ![Len(bs)].lines = Append(@, l)]
  <2>1. [bs EXCEPT ![n].lines = Append(@, l)] = [bs EXCEPT ![n].lines = Append(w, l)] BY <1>4, Zenon
  <2> QED BY <1>2, <1>7, <1>8, <2>1, Zenon DEF Refill
<1> QED BY <1>18, <1>21, <1>22, Zenon DEF Placed

LEMMA PlacedNext ==
  ASSUME NEW bs \in Numbered, NEW l \in AnyLine
  PROVE  Placed(bs, l, Append(bs, [ptr |-> Len(bs) + 1, lines |-> <<l>>]))
<1>1. bs \in Blocks /\ \A i \in DOMAIN bs : bs[i].ptr = i BY DEF Numbered
<1>2. PICK n \in Nat : n = Len(bs) /\ DOMAIN bs = 1..n BY <1>1, BlockFacts, Zenon
<1>3. PICK o \in Docs : o = <<l>> BY DocFacts, Zenon
<1>4. PICK b : b = [ptr |-> n + 1, lines |-> o] OBVIOUS
<1>5. b \in Block /\ b.ptr = n + 1 /\ b.lines = o BY <1>4 DEF Block
<1>6. PICK t : t = Append(bs, b) OBVIOUS
<1>7. t \in Seq(Block) /\ Len(t) = n + 1 /\ t[n + 1] = b /\ \A k \in 1..n : t[k] = bs[k]
  <2>1. bs \in Seq(Block) BY <1>1 DEF Blocks
  <2> QED BY <1>2, <1>5, <1>6, <2>1, Appended
<1>8. DOMAIN t = 1..n + 1 BY <1>7, LenProperties
<1>9. t \in Numbered
  <2>1. \A i \in 1..n + 1 : i = n + 1 \/ i \in 1..n BY <1>2
  <2>2. \A i \in 1..n + 1 : t[i].ptr = i BY <1>1, <1>2, <1>5, <1>7, <2>1, Zenon
  <2> QED BY <1>7, <1>8, <2>2 DEF Numbered, Blocks
<1>10. Lines(t) = Lines(bs) \o o
  <2>1. t = bs \o <<b>> BY <1>1, <1>5, <1>6, AppendIsConcat DEF Blocks
  <2>2. Lines(bs \o <<b>>) = Lines(bs) \o b.lines BY <1>1, <1>5, LinesAppend
  <2> QED BY <1>5, <2>1, <2>2, Zenon
<1> QED BY <1>2, <1>3, <1>4, <1>6, <1>9, <1>10, Zenon DEF Placed

LEMMA PlaceKeeps ==
  ASSUME NEW bs \in Numbered, NEW l \in AnyLine
  PROVE  Placed(bs, l, Place(bs, l))
<1>1. CASE bs # <<>> /\ Bytes(Last(bs).lines) + l.text <= Capacity
  BY <1>1, PlacedLast, Zenon DEF Place
<1>2. CASE ~(bs # <<>> /\ Bytes(Last(bs).lines) + l.text <= Capacity)
  BY <1>2, PlacedNext, Zenon DEF Place
<1> QED BY <1>1, <1>2

LEMMA FilledKeeps ==
  ASSUME NEW ls \in Docs
  PROVE  Filled(ls) \in Numbered /\ Lines(Filled(ls)) = ls
<1>1. Len(ls) \in Nat /\ DOMAIN ls = 1..Len(ls) BY DocFacts, Zenon
<1>2. \A k \in 1..Len(ls) : ls[k] \in AnyLine BY ElementOfSeq DEF Docs
<1>3. PICK s : s = [k \in 1..Len(ls) |-> [bs \in Numbered |-> Place(bs, ls[k])]] OBVIOUS
<1>4. s \in [1..Len(ls) -> [Numbered -> Numbered]]
  <2>1. \A k \in 1..Len(ls) : \A bs \in Numbered : Place(bs, ls[k]) \in Numbered
    BY <1>2, PlaceKeeps, Zenon DEF Placed
  <2>2. \A k \in 1..Len(ls) : [bs \in Numbered |-> Place(bs, ls[k])] \in [Numbered -> Numbered]
    BY <2>1
  <2> QED BY <1>3, <2>2
<1>5. <<>> \in Numbered
  <2>1. DOMAIN <<>> = {} OBVIOUS
  <2> QED BY <2>1, BlockFacts DEF Numbered
<1>6. PICK g : Stepped(g, Len(ls), Numbered, <<>>, s) BY <1>1, <1>4, <1>5, Recursion
<1>7. g \in [0..Len(ls) -> Numbered] /\ g[0] = <<>> /\ \A i \in 1..Len(ls) : g[i] = s[i][g[i - 1]]
  BY <1>6, Zenon DEF Stepped
<1>8. /\ \A i \in 1..Len(ls) : i # 0 /\ i \in 0..Len(ls) /\ i - 1 \in 0..Len(ls)
      /\ 0 \in 0..Len(ls) /\ Len(ls) \in 0..Len(ls)
      /\ \A i \in 0..Len(ls) : i = 0 \/ i \in 1..Len(ls)
  BY <1>1
<1>9. \A i \in 0..Len(ls) : g[i] \in Numbered BY <1>7
<1>10. \A i \in 1..Len(ls) : g[i] = Place(g[i - 1], ls[i])
  <2> SUFFICES ASSUME NEW i \in 1..Len(ls) PROVE g[i] = Place(g[i - 1], ls[i]) BY Zenon
  <2>1. g[i - 1] \in Numbered BY <1>8, <1>9, Zenon
  <2>2. s[i] = [bs \in Numbered |-> Place(bs, ls[i])] BY <1>3, Zenon
  <2>3. s[i][g[i - 1]] = Place(g[i - 1], ls[i]) BY <2>1, <2>2, Zenon
  <2> QED BY <1>7, <2>3, Zenon
<1> DEFINE E(f) == f = [k \in 0..Len(ls) |-> IF k = 0 THEN <<>> ELSE Place(f[k - 1], ls[k])]
<1>11. E(g)
  <2>1. \A k \in 0..Len(ls) : g[k] = IF k = 0 THEN <<>> ELSE Place(g[k - 1], ls[k])
    BY <1>7, <1>8, <1>10, Zenon
  <2>2. g = [k \in 0..Len(ls) |-> g[k]] BY <1>7, Zenon
  <2> QED BY <2>1, <2>2, Zenon
<1>12. PICK f : f = (CHOOSE h : E(h)) /\ E(f) BY <1>11, Zenon
<1>13. f[0] = <<>> /\ \A k \in 1..Len(ls) : f[k] = Place(f[k - 1], ls[k]) BY <1>8, <1>12, Zenon
<1>14. Filled(ls) = f[Len(ls)] BY <1>12, Zenon DEF Filled, Place
<1>15. f[Len(ls)] = g[Len(ls)]
  <2>1. SameStep(f, g, Len(ls)) BY <1>7, <1>10, <1>13, Zenon DEF SameStep
  <2>2. \A i \in 0..Len(ls) : f[i] = g[i] BY <1>1, <2>1, SameSteps
  <2> QED BY <1>8, <2>2, Zenon
<1>16. g[Len(ls)] \in Numbered BY <1>8, <1>9, Zenon
<1> DEFINE Has(k) == Lines(g[k]) \in Docs /\ Len(Lines(g[k])) = k /\ \A j \in 1..k : Lines(g[k])[j] = ls[j]
           S == {k \in Nat : k <= Len(ls) => Has(k)}
<1>17. 0 \in S
  <2>1. Lines(g[0]) = <<>> BY <1>7, LinesNone, Zenon
  <2>2. <<>> \in Docs /\ Len(<<>>) = 0 BY DocFacts
  <2>3. \A j \in 1..0 : FALSE OBVIOUS
  <2>4. Has(0) BY <2>1, <2>2, <2>3, Zenon
  <2> QED BY <2>4
<1>18. ASSUME NEW k \in Nat, k \in S PROVE k + 1 \in S
  <2> SUFFICES ASSUME k + 1 <= Len(ls) PROVE Has(k + 1) OBVIOUS
  <2>1. PICK p \in 1..Len(ls) : p = k + 1 /\ p - 1 = k /\ k <= Len(ls) /\ k \in 0..Len(ls)
    BY <1>1
  <2>2. Has(k) BY <1>18, <2>1
  <2>3. PICK d : d = Lines(g[k]) OBVIOUS
  <2>4. d \in Docs /\ Len(d) = k /\ \A j \in 1..k : d[j] = ls[j] BY <2>2, <2>3, Zenon
  <2>5. g[k] \in Numbered /\ ls[p] \in AnyLine BY <1>2, <1>9, <2>1, Zenon
  <2>6. Lines(g[p]) = d \o <<ls[p]>>
    <3>1. Placed(g[k], ls[p], Place(g[k], ls[p])) BY <2>5, PlaceKeeps
    <3>2. g[p] = Place(g[k], ls[p]) BY <1>10, <2>1, Zenon
    <3> QED BY <2>3, <3>1, <3>2, Zenon DEF Placed
  <2>7. d \o <<ls[p]>> = Append(d, ls[p]) BY <2>4, <2>5, AppendIsConcat DEF Docs
  <2>8. /\ Append(d, ls[p]) \in Docs /\ Len(Append(d, ls[p])) = k + 1
        /\ Append(d, ls[p])[k + 1] = ls[p] /\ \A j \in 1..k : Append(d, ls[p])[j] = d[j]
    BY <2>4, <2>5, Appended DEF Docs
  <2>9. \A j \in 1..k + 1 : j = k + 1 \/ j \in 1..k OBVIOUS
  <2>10. \A j \in 1..k + 1 : Append(d, ls[p])[j] = ls[j] BY <2>1, <2>4, <2>8, <2>9, Zenon
  <2> QED BY <2>1, <2>6, <2>7, <2>8, <2>10, Zenon
<1>19. \A k \in Nat : k \in S
  <2> HIDE DEF S
  <2> QED BY <1>17, <1>18, Climb
<1>20. Has(Len(ls))
  <2>1. Len(ls) \in S BY <1>1, <1>19, Zenon
  <2>2. Len(ls) <= Len(ls) BY <1>1
  <2> HIDE DEF Has
  <2> QED BY <2>1, <2>2
<1>21. PICK d : d = Lines(g[Len(ls)]) OBVIOUS
<1>22. d \in Docs /\ Len(d) = Len(ls) /\ \A j \in 1..Len(ls) : d[j] = ls[j] BY <1>20, <1>21, Zenon
<1>23. d = ls BY <1>22, SeqEqual DEF Docs
<1> QED BY <1>14, <1>15, <1>16, <1>21, <1>23, Zenon

(* A line is in one block, so the table that Load fills is right.          *)
LEMMA Earlier ==
  ASSUME NEW bs \in Blocks, Unique(Lines(bs)), NEW j \in 1..Len(bs), NEW i \in 1..j - 1
  PROVE  Ids(bs[i].lines) \cap Ids(bs[j].lines) = {}
<1>1. PICK b \in Block : b = bs[j] BY BlockAt, Zenon
<1>2. PICK a \in Blocks, z \in Blocks : Ring(bs, a, b, z) /\ Len(a) = j - 1
  BY <1>1, BlockMiddle, Zenon
<1>3. PICK o \in Blocks, y \in Blocks : o = <<b>> /\ y = o \o z BY BlockFacts, Zenon
<1>4. bs = a \o y BY <1>2, <1>3, Zenon DEF Ring
<1>5. i \in 1..Len(a) BY <1>2, Zenon
<1>6. bs[i] = a[i]
  <2>1. a \in Seq(Block) /\ y \in Seq(Block) BY DEF Blocks
  <2>2. (a \o y)[i] = a[i] BY <1>5, <2>1, First
  <2> QED BY <1>4, <2>2, Zenon
<1>7. Ids(a[i].lines) \subseteq Ids(Lines(a)) BY <1>5, BlockIds
<1>8. Flat(Lines(bs), a, b, z) /\ Lines(a) \in Docs /\ b.lines \in Docs /\ Lines(z) \in Docs
  BY <1>2, RingFacts, Zenon
<1>90. PICK x \in Docs, w \in Docs, v \in Docs :
         x = Lines(a) /\ w = b.lines /\ v = Lines(z) /\ Lines(bs) = x \o (w \o v)
  BY <1>8, Zenon DEF Flat
<1>91. PICK u \in Docs : u = w \o v BY DocFacts, Zenon
<1>9. x = Lines(a) /\ w = b.lines /\ u = w \o v /\ Lines(bs) = x \o u BY <1>90, <1>91, Zenon
<1>10. Ids(x) \cap Ids(u) = {}
  <2>1. Unique(x \o u) <=> (Unique(x) /\ Unique(u) /\ Ids(x) \cap Ids(u) = {}) BY UniqueJoin
  <2> QED BY <1>9, <2>1, Zenon
<1>11. Ids(u) = Ids(w) \cup Ids(v)
  <2>1. Ids(w \o v) = Ids(w) \cup Ids(v) BY IdsOfJoin
  <2> QED BY <1>9, <2>1, Zenon
<1>12. Ids(bs[i].lines) \subseteq Ids(x) /\ Ids(bs[j].lines) = Ids(w) BY <1>1, <1>6, <1>7, <1>9, Zenon
<1> QED BY <1>10, <1>11, <1>12

LEMMA OneHome ==
  ASSUME NEW bs \in Blocks, Unique(Lines(bs)), NEW i \in DOMAIN bs, NEW j \in DOMAIN bs, NEW id,
         id \in Ids(bs[i].lines), id \in Ids(bs[j].lines)
  PROVE  i = j
<1>1. i \in 1..Len(bs) /\ j \in 1..Len(bs) /\ Len(bs) \in Nat BY BlockFacts, Zenon
<1> SUFFICES ASSUME i # j PROVE FALSE OBVIOUS
<1>2. i \in 1..j - 1 \/ j \in 1..i - 1 BY <1>1
<1>3. CASE i \in 1..j - 1
  <2>1. Ids(bs[i].lines) \cap Ids(bs[j].lines) = {} BY <1>1, <1>3, Earlier, Zenon
  <2> QED BY <2>1
<1>4. CASE j \in 1..i - 1
  <2>1. Ids(bs[j].lines) \cap Ids(bs[i].lines) = {} BY <1>1, <1>4, Earlier, Zenon
  <2> QED BY <2>1
<1> QED BY <1>2, <1>3, <1>4

TableOf(bs, ls) ==
  [id \in Ids(ls) |-> LET i == CHOOSE j \in DOMAIN bs : id \in Ids(bs[j].lines) IN bs[i].ptr]

LEMMA OpenedIsSound ==
  ASSUME NEW ls \in Docs, Unique(ls)
  PROVE  Lines(Filled(ls)) = ls /\ Sound(Filled(ls), TableOf(Filled(ls), ls))
<1>1. PICK bs \in Numbered : bs = Filled(ls) /\ Lines(bs) = ls BY FilledKeeps, Zenon
<1>2. bs \in Blocks /\ \A i \in DOMAIN bs : bs[i].ptr = i BY DEF Numbered
<1>3. Distinct(bs) BY <1>2, Zenon DEF Distinct
<1>4. Unique(Lines(bs)) BY <1>1, Zenon
<1>5. DOMAIN TableOf(bs, ls) = Ids(Lines(bs)) BY <1>1, Zenon DEF TableOf
<1>6. ASSUME NEW i \in DOMAIN bs, NEW id \in Ids(bs[i].lines) PROVE TableOf(bs, ls)[id] = bs[i].ptr
  <2>1. i \in 1..Len(bs) BY <1>2, BlockFacts, Zenon
  <2>2. id \in Ids(ls)
    <3>1. Ids(bs[i].lines) \subseteq Ids(Lines(bs)) BY <1>2, <2>1, BlockIds, Zenon
    <3> QED BY <1>1, <3>1, Zenon
  <2>3. PICK j \in DOMAIN bs :
          j = (CHOOSE h \in DOMAIN bs : id \in Ids(bs[h].lines)) /\ id \in Ids(bs[j].lines)
    BY Zenon
  <2>4. i = j BY <1>2, <1>4, <2>3, OneHome, Zenon
  <2>5. TableOf(bs, ls)[id] = bs[j].ptr BY <2>2, <2>3, Zenon DEF TableOf
  <2> QED BY <2>4, <2>5, Zenon
<1>7. At(bs, TableOf(bs, ls)) BY <1>6, Zenon DEF At
<1>8. Sound(bs, TableOf(bs, ls)) BY <1>2, <1>3, <1>4, <1>5, <1>7, Zenon DEF Sound
<1> QED BY <1>1, <1>8, Zenon

(* Some line has the highest id.                                           *)
LEMMA Highest ==
  ASSUME NEW ls \in Docs, ls # <<>>
  PROVE  \E n \in Ids(ls) : n \in Nat /\ \A k \in Ids(ls) : k <= n
<1>1. Len(ls) \in Nat /\ DOMAIN ls = 1..Len(ls) BY DocFacts, Zenon
<1>2. Len(ls) # 0 BY <1>1, EmptySeq DEF Docs
<1>3. \A k \in 1..Len(ls) : ls[k].id \in Nat
  <2>1. \A k \in 1..Len(ls) : ls[k] \in AnyLine BY ElementOfSeq DEF Docs
  <2> QED BY <2>1 DEF AnyLine
<1> DEFINE Top(m, i) == i \in 1..m /\ \A k \in 1..m : ls[k].id <= ls[i].id
           S == {m \in Nat : m + 1 <= Len(ls) => \E i : Top(m + 1, i)}
<1>4. 0 \in S
  <2> SUFFICES ASSUME 0 + 1 <= Len(ls) PROVE \E i : Top(0 + 1, i) OBVIOUS
  <2>1. 1 \in 1..Len(ls) BY <1>1
  <2>2. ls[1].id \in Nat BY <1>3, <2>1, Zenon
  <2>3. ls[1].id <= ls[1].id BY <2>2
  <2>4. 1 \in 1..0 + 1 /\ \A k \in 1..0 + 1 : k = 1 OBVIOUS
  <2>5. Top(0 + 1, 1) BY <2>3, <2>4, Zenon
  <2> QED BY <2>5, Zenon
<1>5. ASSUME NEW m \in Nat, m \in S PROVE m + 1 \in S
  <2> SUFFICES ASSUME m + 1 + 1 <= Len(ls) PROVE \E i : Top(m + 1 + 1, i) OBVIOUS
  <2>1. PICK p \in Nat, q \in 1..Len(ls) : p = m + 1 /\ q = m + 1 + 1 /\ q = p + 1 /\ p <= Len(ls)
    BY <1>1
  <2>2. \E i : Top(p, i) BY <1>5, <2>1
  <2>3. PICK i : i \in 1..p /\ \A k \in 1..p : ls[k].id <= ls[i].id BY <2>2, Zenon
  <2>4. /\ q \in 1..q /\ \A k \in 1..q : k = q \/ k \in 1..p
        /\ \A k \in 1..p : k \in 1..q /\ k \in 1..Len(ls)
    BY <1>1, <2>1
  <2>5. CASE ls[q].id <= ls[i].id
    <3>1. Top(q, i) BY <2>3, <2>4, <2>5, Zenon
    <3> QED BY <2>1, <3>1, Zenon
  <2>6. CASE ~(ls[q].id <= ls[i].id)
    <3>1. PICK u \in Nat, v \in Nat : u = ls[i].id /\ v = ls[q].id BY <1>3, <2>3, <2>4, Zenon
    <3>2. u <= v /\ v <= v BY <2>6, <3>1
    <3>3. ASSUME NEW k \in 1..p PROVE ls[k].id <= v
      <4>1. PICK w \in Nat : w = ls[k].id BY <1>3, <2>4, Zenon
      <4>2. w <= u BY <2>3, <3>1, <4>1, Zenon
      <4> QED BY <3>1, <3>2, <4>1, <4>2
    <3>4. Top(q, q) BY <2>4, <3>1, <3>2, <3>3, Zenon
    <3> QED BY <2>1, <3>4, Zenon
  <2> QED BY <2>5, <2>6
<1>6. \A m \in Nat : m \in S
  <2> HIDE DEF S
  <2> QED BY <1>4, <1>5, Climb
<1>7. PICK m \in Nat : m + 1 = Len(ls)
  <2>1. Len(ls) - 1 \in Nat /\ Len(ls) - 1 + 1 = Len(ls) BY <1>1, <1>2
  <2> QED BY <2>1, Zenon
<1>8. \E i : Top(m + 1, i)
  <2>1. m \in S BY <1>6, Zenon
  <2>2. m + 1 <= Len(ls) BY <1>7, <1>1
  <2> HIDE DEF Top
  <2> QED BY <2>1, <2>2
<1>9. PICK i \in 1..Len(ls) : \A k \in 1..Len(ls) : ls[k].id <= ls[i].id BY <1>7, <1>8, Zenon
<1>10. ls[i].id \in Ids(ls) /\ ls[i].id \in Nat BY <1>1, <1>3, Zenon DEF Ids
<1>11. \A k \in Ids(ls) : k <= ls[i].id BY <1>1, <1>9, Zenon DEF Ids
<1> QED BY <1>10, <1>11, Zenon

-----------------------------------------------------------------------------
(* What holds of every state: the document is sound, and behind it and     *)
(* ahead of it lie the documents the two halves of the journal stand for.  *)
Good(bs, m, n, us, rs) ==
  /\ Sound(bs, m) /\ n \in Nat /\ Len(us) <= MaxUndo
  /\ \E H : History(us, "insert", H, Lines(bs), n)
  /\ \E G : History(rs, "delete", G, Lines(bs), n)
IInv == Good(blocks, loc, nextID, undo, redo)

Pushed(js, e) == IF Len(js) = MaxUndo THEN Append(Tail(js), e) ELSE Append(js, e)

(* The documents before the newest one, as a sequence.                     *)
LEMMA Shown ==
  ASSUME NEW js, NEW op, NEW H, NEW d, NEW n, History(js, op, H, d, n)
  PROVE  /\ [k \in 1..Len(js) |-> H[k]] = Front(H) /\ Front(H) \in Seq(Docs)
         /\ Len(Front(H)) = Len(js) /\ Append(Front(H), d) = H
<1>1. js \in Seq(Edit) /\ H \in Seq(Docs) /\ Len(H) = Len(js) + 1 /\ H[Len(H)] = d
  BY Zenon DEF History
<1>2. Len(js) \in Nat BY <1>1, LenProperties
<1>3. PICK F : F = Front(H) OBVIOUS
<1>4. F \in Seq(Docs) /\ Len(F) = Len(js) /\ \A k \in 1..Len(js) : F[k] = H[k]
  BY <1>1, <1>2, <1>3, Fronted
<1>5. F = [k \in 1..Len(js) |-> F[k]]
  <2>1. F \in [1..Len(js) -> Docs] BY <1>4, LenProperties
  <2> QED BY <2>1
<1>6. F = [k \in 1..Len(js) |-> H[k]]
  <2>1. [k \in 1..Len(js) |-> F[k]] = [k \in 1..Len(js) |-> H[k]] BY <1>4, Zenon
  <2> QED BY <1>5, <2>1, Zenon
<1>7. d \in Docs BY HistoryFacts, Zenon
<1>8. PICK A : A = Append(F, d) OBVIOUS
<1>9. /\ A \in Seq(Docs) /\ Len(A) = Len(js) + 1 /\ A[Len(js) + 1] = d
      /\ \A k \in 1..Len(js) : A[k] = F[k]
  BY <1>2, <1>4, <1>7, <1>8, Appended
<1>10. \A k \in 1..Len(js) + 1 : k = Len(js) + 1 \/ k \in 1..Len(js) BY <1>2
<1>11. \A k \in 1..Len(js) + 1 : A[k] = H[k] BY <1>1, <1>4, <1>9, <1>10, Zenon
<1>12. A = H BY <1>1, <1>9, <1>11, SeqEqual
<1> QED BY <1>3, <1>4, <1>6, <1>8, <1>12, Zenon

LEMMA PastShown ==
  ASSUME NEW js, NEW H, NEW d, NEW n, History(js, "insert", H, d, n)
  PROVE  PastOf(js, d) = Front(H) /\ Append(PastOf(js, d), d) = H
<1>1. PastOf(js, d) = [k \in 1..Len(js) |-> H[k]] BY PastIsHistory
<1>2. [k \in 1..Len(js) |-> H[k]] = Front(H) /\ Append(Front(H), d) = H BY Shown
<1> QED BY <1>1, <1>2, Zenon

LEMMA FutureShown ==
  ASSUME NEW js, NEW H, NEW d, NEW n, History(js, "delete", H, d, n)
  PROVE  FutureOf(js, d) = Front(H) /\ Append(FutureOf(js, d), d) = H
<1>1. FutureOf(js, d) = [k \in 1..Len(js) |-> H[k]] BY FutureIsHistory
<1>2. [k \in 1..Len(js) |-> H[k]] = Front(H) /\ Append(Front(H), d) = H BY Shown
<1> QED BY <1>1, <1>2, Zenon

LEMMA NoPast ==
  ASSUME NEW d, NEW n, Old(d, n)
  PROVE  PastOf(<<>>, d) = <<>> /\ FutureOf(<<>>, d) = <<>>
<1>1. History(<<>>, "insert", <<d>>, d, n) /\ History(<<>>, "delete", <<d>>, d, n)
  BY HistoryNone
<1>2. PastOf(<<>>, d) = [k \in 1..Len(<<>>) |-> <<d>>[k]] BY <1>1, PastIsHistory
<1>3. FutureOf(<<>>, d) = [k \in 1..Len(<<>>) |-> <<d>>[k]] BY <1>1, FutureIsHistory
<1>4. [k \in 1..Len(<<>>) |-> <<d>>[k]] = <<>> OBVIOUS
<1> QED BY <1>2, <1>3, <1>4, Zenon

LEMMA Tails ==
  ASSUME NEW H \in Seq(Docs), NEW m \in Nat \ {0}, Len(H) = m + 1
  PROVE  SubSeq(H, Len(H) - m + 1, Len(H)) = Tail(H)
<1>1. Len(H) - m + 1 = 2 OBVIOUS
<1>2. H # <<>> BY EmptySeq
<1>3. Tail(H) = SubSeq(H, 2, Len(H)) BY <1>2, TailIsSubSeq
<1> QED BY <1>1, <1>3, Zenon

LEMMA FrontOfAppended ==
  ASSUME NEW H \in Seq(Docs), NEW c \in Docs
  PROVE  Front(Append(H, c)) = H
<1>1. PICK r \in Nat : r = Len(H) BY LenProperties
<1>2. PICK G : G = Append(H, c) OBVIOUS
<1>3. G \in Seq(Docs) /\ Len(G) = r + 1 /\ \A k \in 1..r : G[k] = H[k]
  BY <1>1, <1>2, Appended
<1>4. Front(G) \in Seq(Docs) /\ Len(Front(G)) = r /\ \A k \in 1..r : Front(G)[k] = G[k]
  BY <1>3, Fronted
<1>5. \A k \in 1..r : Front(G)[k] = H[k] BY <1>3, <1>4, Zenon
<1>6. Front(G) = H BY <1>1, <1>4, <1>5, SeqEqual
<1> QED BY <1>2, <1>6, Zenon

(* One more edit: the oldest document goes when the journal is full.       *)
LEMMA PushKeeps ==
  ASSUME NEW js, NEW H, NEW d, NEW n \in Nat, History(js, "insert", H, d, n), Len(js) <= MaxUndo,
         NEW e \in Edit, NEW c, NEW m \in Nat, n <= m, Adds(e, "insert", d, c), Old(c, m)
  PROVE  /\ \E G : History(Pushed(js, e), "insert", G, c, m)
         /\ Len(Pushed(js, e)) <= MaxUndo
         /\ PastOf(Pushed(js, e), c) = Text!Newest(Append(PastOf(js, d), d))
<1>1. PICK p \in Nat : p = Len(js) BY HistoryFacts, Zenon
<1>2. js \in Seq(Edit) /\ H \in Seq(Docs) /\ Len(H) = p + 1 BY <1>1, Zenon DEF History
<1>3. MaxUndo \in Nat \ {0} BY EditAssumption
<1>4. Append(PastOf(js, d), d) = H BY PastShown
<1>5. CASE p = MaxUndo
  <2>1. Len(js) # 0 BY <1>1, <1>3, <1>5
  <2>2. PICK j, K : j = Tail(js) /\ K = Tail(H) OBVIOUS
  <2>3. History(j, "insert", K, d, n) /\ Len(j) = p - 1 BY <1>1, <2>1, <2>2, HistoryCut, Zenon
  <2>4. PICK q, G : q = Append(j, e) /\ G = Append(K, c) OBVIOUS
  <2>5. History(q, "insert", G, c, m) BY <2>3, <2>4, HistoryPush, Zenon
  <2>6. Pushed(js, e) = q BY <1>1, <1>5, <2>2, <2>4, Zenon DEF Pushed
  <2>7. Len(q) <= MaxUndo
    <3>1. j \in Seq(Edit) BY <2>3, Zenon DEF History
    <3>2. p - 1 \in Nat /\ p - 1 + 1 = p /\ p <= MaxUndo BY <1>1, <1>3, <1>5
    <3>3. Len(q) = p - 1 + 1 BY <2>3, <2>4, <3>1, <3>2, Appended
    <3> QED BY <3>2, <3>3
  <2>8. PastOf(q, c) = K
    <3>1. PastOf(q, c) = Front(G) BY <2>5, PastShown
    <3>2. Front(G) = K
      <4>1. K \in Seq(Docs) /\ c \in Docs BY <2>3, Zenon DEF History, Old
      <4> QED BY <2>4, <4>1, FrontOfAppended
    <3> QED BY <3>1, <3>2, Zenon
  <2>9. Text!Newest(H) = K
    <3>1. Len(H) > MaxUndo BY <1>2, <1>3, <1>5
    <3>2. SubSeq(H, Len(H) - MaxUndo + 1, Len(H)) = Tail(H) BY <1>2, <1>3, <1>5, Tails
    <3> QED BY <2>2, <3>1, <3>2, Zenon DEF Text!Newest
  <2> QED BY <1>4, <2>5, <2>6, <2>7, <2>8, <2>9, Zenon
<1>6. CASE p # MaxUndo
  <2>1. PICK q, G : q = Append(js, e) /\ G = Append(H, c) OBVIOUS
  <2>2. History(q, "insert", G, c, m) BY <2>1, HistoryPush, Zenon
  <2>3. Pushed(js, e) = q BY <1>1, <1>6, <2>1, Zenon DEF Pushed
  <2>4. Len(q) = p + 1 BY <1>1, <1>2, <2>1, Appended
  <2>5. Len(q) <= MaxUndo BY <1>1, <1>3, <1>6, <2>4
  <2>6. PastOf(q, c) = Front(G) BY <2>2, PastShown
  <2>7. Front(G) = H
    <3>1. c \in Docs BY Zenon DEF Old
    <3> QED BY <1>2, <2>1, <3>1, FrontOfAppended
  <2>8. Text!Newest(H) = H
    <3>1. ~(Len(H) > MaxUndo) BY <1>1, <1>2, <1>3, <1>6
    <3> QED BY <3>1, Zenon DEF Text!Newest
  <2> QED BY <1>4, <2>2, <2>3, <2>5, <2>6, <2>7, <2>8, Zenon
<1> QED BY <1>5, <1>6

(* InsertLine and DeleteLine: one more document, and nothing to redo.      *)
LEMMA FreshEdit ==
  ASSUME IInv, NEW e \in Edit, nextID' \in Nat, nextID <= nextID', Journal(e),
         Sound(blocks', loc'), Adds(e, "insert", Lines(blocks), Lines(blocks')),
         Old(Lines(blocks'), nextID')
  PROVE  IInv' /\ Text!Edited(Lines(blocks'))
<1>1. /\ nextID \in Nat /\ Len(undo) <= MaxUndo
      /\ \E H : History(undo, "insert", H, Lines(blocks), nextID)
  BY Zenon DEF IInv, Good
<1>2. PICK H : History(undo, "insert", H, Lines(blocks), nextID) BY <1>1, Zenon
<1>3. undo' = Pushed(undo, e) /\ redo' = <<>> BY Zenon DEF Journal, pushUndo, Pushed
<1>4. PICK d, n, c, m : d = Lines(blocks) /\ n = nextID /\ c = Lines(blocks') /\ m = nextID' OBVIOUS
<1>5. /\ n \in Nat /\ m \in Nat /\ n <= m /\ History(undo, "insert", H, d, n)
      /\ Adds(e, "insert", d, c) /\ Old(c, m)
  BY <1>1, <1>2, <1>4, Zenon
<1>6. /\ \E G : History(Pushed(undo, e), "insert", G, c, m)
      /\ Len(Pushed(undo, e)) <= MaxUndo
      /\ PastOf(Pushed(undo, e), c) = Text!Newest(Append(PastOf(undo, d), d))
  BY <1>1, <1>5, PushKeeps
<1>7. History(<<>>, "delete", <<c>>, c, m) BY <1>5, HistoryNone
<1>8. \E G : History(redo', "delete", G, c, m) BY <1>3, <1>7, Zenon
<1>9. IInv' BY <1>3, <1>4, <1>5, <1>6, <1>8, Zenon DEF IInv, Good
<1>10. Chain(undo, Before)' = Text!Newest(Append(Chain(undo, Before), Lines(blocks)))
  <2>1. Chain(undo, Before)' = PastOf(undo', Lines(blocks')) BY ChainsAre, Zenon
  <2>2. Chain(undo, Before) = PastOf(undo, Lines(blocks)) BY ChainsAre, Zenon
  <2> QED BY <1>3, <1>4, <1>6, <2>1, <2>2, Zenon
<1>11. Chain(redo, After)' = <<>>
  <2>1. Chain(redo, After)' = FutureOf(redo', Lines(blocks')) BY ChainsAre, Zenon
  <2>2. FutureOf(<<>>, c) = <<>> BY <1>5, NoPast
  <2> QED BY <1>3, <1>4, <2>1, <2>2, Zenon
<1>12. Text!Edited(Lines(blocks')) BY <1>10, <1>11, Zenon DEF Text!Edited
<1> QED BY <1>9, <1>12

LEMMA Newest ==
  ASSUME IInv
  PROVE  /\ Sound(blocks, loc) /\ nextID \in Nat /\ Old(Lines(blocks), nextID)
         /\ Lines(blocks) \in Docs /\ LineCount = Len(Lines(blocks)) /\ LineCount \in Nat
<1>1. /\ Sound(blocks, loc) /\ nextID \in Nat
      /\ \E H : History(undo, "insert", H, Lines(blocks), nextID)
  BY Zenon DEF IInv, Good
<1>2. Old(Lines(blocks), nextID) BY <1>1, HistoryFacts, Zenon
<1>3. Lines(blocks) \in Docs BY <1>2, Zenon DEF Old
<1>4. Len(Lines(blocks)) \in Nat BY <1>3, DocFacts, Zenon
<1> QED BY <1>1, <1>2, <1>3, <1>4, Zenon DEF LineCount

LEMMA InsertLineStep ==
  ASSUME IInv, NEW at \in 0..LineCount, NEW t \in Texts, InsertLine(at, t)
  PROVE  IInv' /\ Text!Insert
<1>1. /\ Sound(blocks, loc) /\ nextID \in Nat /\ Old(Lines(blocks), nextID)
      /\ Lines(blocks) \in Docs /\ LineCount = Len(Lines(blocks)) /\ LineCount \in Nat
  BY Newest
<1>2. PICK l : l = Line(nextID, t) OBVIOUS
<1>3. l \in AnyLine /\ l.id = nextID
  <2>1. t \in Nat BY EditAssumption
  <2> QED BY <1>1, <1>2, <2>1 DEF Line, AnyLine
<1>4. /\ nextID <= MaxId /\ Becomes(doInsert(Now, at, l)) /\ nextID' = nextID + 1
      /\ Journal(Entry("insert", at, l))
  BY <1>2, Zenon DEF InsertLine
<1>5. PICK d \in Docs : d = Lines(blocks) BY <1>1, Zenon
<1>6. l.id \notin Ids(d)
  <2>1. \A id \in Ids(d) : id < nextID BY <1>1, <1>5, Zenon DEF Old
  <2>2. ~(nextID < nextID) BY <1>1
  <2> QED BY <1>3, <2>1, <2>2, Zenon
<1>7. Given(blocks, at, l, doInsert(Doc(blocks, loc), at, l))
  <2>1. at \in 0..Len(Lines(blocks)) BY <1>1, Zenon
  <2> QED BY <1>1, <1>3, <1>5, <1>6, <2>1, InsertGives, Zenon
<1>8. Sound(blocks', loc') /\ Grown(d, at, l, Lines(blocks'))
  <2>1. Doc(blocks, loc) = Now BY Zenon DEF Now
  <2> QED BY <1>4, <1>5, <1>7, <2>1, Zenon DEF Given, Becomes
<1>9. PICK c : c = Lines(blocks') OBVIOUS
<1>10. Grown(d, at, l, c) BY <1>8, <1>9, Zenon
<1>11. /\ c \in Docs /\ Ids(c) = Ids(d) \cup {l.id} /\ (Unique(c) <=> (Unique(d) /\ l.id \notin Ids(d)))
  BY <1>3, <1>10, GrownFacts, Zenon
<1>12. Old(c, nextID')
  <2>1. Unique(c) BY <1>1, <1>5, <1>6, <1>11, Zenon DEF Old
  <2>2. nextID + 1 \in Nat /\ nextID <= nextID + 1 /\ nextID < nextID + 1 BY <1>1
  <2>3. Old(d, nextID + 1) BY <1>1, <1>5, <2>2, OldStays, Zenon
  <2>4. \A id \in Ids(c) : id < nextID + 1 BY <1>3, <1>11, <2>2, <2>3 DEF Old
  <2> QED BY <1>4, <1>11, <2>1, <2>4, Zenon DEF Old
<1>13. PICK e : e = Entry("insert", at, l) OBVIOUS
<1>14. e \in Edit /\ e.op = "insert" /\ e.at = at /\ e.line = l
  <2>1. at \in Nat BY <1>1
  <2> QED BY <1>3, <1>13, <2>1 DEF Entry, Edit
<1>15. Adds(e, "insert", Lines(blocks), Lines(blocks')) BY <1>5, <1>8, <1>14, Zenon DEF Adds
<1>16. nextID' \in Nat /\ nextID <= nextID' BY <1>1, <1>4
<1>17. IInv' /\ Text!Edited(Lines(blocks'))
  <2>1. Journal(e) BY <1>4, <1>13, Zenon
  <2>2. Old(Lines(blocks'), nextID') BY <1>9, <1>12, Zenon
  <2> QED BY <1>8, <1>14, <1>15, <1>16, <2>1, <2>2, FreshEdit
<1>18. Lines(blocks') = Text!Put(Lines(blocks), at, Text!Line(nextID, t))
  <2>1. InsertAt(d, at + 1, l) = c BY <1>3, <1>10, GrownFacts, Zenon
  <2>2. at \in Nat BY <1>1
  <2>3. InsertAt(d, at + 1, l) = SubSeq(d, 1, at) \o <<l>> \o SubSeq(d, at + 1, Len(d))
    <3>1. PICK i \in Nat : i = at + 1 /\ i - 1 = at BY <2>2
    <3>2. InsertAt(d, i, l) = SubSeq(d, 1, i - 1) \o <<l>> \o SubSeq(d, i, Len(d))
      BY Zenon DEF InsertAt
    <3> QED BY <3>1, <3>2, Zenon
  <2>4. Text!Line(nextID, t) = l BY <1>2, Zenon DEF Text!Line, Line
  <2> QED BY <1>5, <1>9, <2>1, <2>3, <2>4, Zenon DEF Text!Put
<1>19. Text!Insert
  <2>1. at \in 0..Len(Lines(blocks)) BY <1>1, Zenon
  <2> QED BY <1>4, <1>17, <1>18, <2>1, Zenon DEF Text!Insert
<1> QED BY <1>17, <1>19

LEMMA DeleteLineStep ==
  ASSUME IInv, NEW at \in 0..LineCount, DeleteLine(at)
  PROVE  IInv' /\ Text!Delete
<1>1. /\ Sound(blocks, loc) /\ nextID \in Nat /\ Old(Lines(blocks), nextID)
      /\ Lines(blocks) \in Docs /\ LineCount = Len(Lines(blocks)) /\ LineCount \in Nat
  BY Newest
<1>2. at \in Nat /\ at \in 0..LineCount - 1
  <2>1. at < LineCount BY Zenon DEF DeleteLine
  <2> QED BY <1>1, <2>1
<1>3. PICK d, l : d \in Docs /\ d = Lines(blocks) /\ l = Lines(blocks)[at + 1] BY <1>1, Zenon
<1>4. /\ Becomes(doDelete(Now, at)) /\ nextID' = nextID /\ Journal(Entry("delete", at, l))
  BY <1>3, Zenon DEF DeleteLine
<1>5. /\ l \in AnyLine /\ Taken(blocks, at, l, doDelete(Doc(blocks, loc), at))
  <2>1. at \in 0..Len(Lines(blocks)) - 1 BY <1>1, <1>2, Zenon
  <2>2. /\ Lines(blocks)[at + 1] \in AnyLine
        /\ Taken(blocks, at, Lines(blocks)[at + 1], doDelete(Doc(blocks, loc), at))
    BY <1>1, <2>1, DeleteTakes
  <2> QED BY <1>3, <2>2, Zenon
<1>6. Sound(blocks', loc') /\ Grown(Lines(blocks'), at, l, d)
  <2>1. Doc(blocks, loc) = Now BY Zenon DEF Now
  <2> QED BY <1>3, <1>4, <1>5, <2>1, Zenon DEF Taken, Becomes
<1>7. PICK c : c = Lines(blocks') OBVIOUS
<1>8. Grown(c, at, l, d) BY <1>6, <1>7, Zenon
<1>9. /\ c \in Docs /\ Ids(d) = Ids(c) \cup {l.id} /\ (Unique(d) <=> (Unique(c) /\ l.id \notin Ids(c)))
  BY <1>5, <1>8, GrownFacts, Zenon
<1>10. Old(c, nextID')
  <2>1. Unique(d) /\ \A id \in Ids(d) : id < nextID BY <1>1, <1>3, Zenon DEF Old
  <2>2. \A id \in Ids(c) : id < nextID BY <1>9, <2>1
  <2> QED BY <1>4, <1>9, <2>1, <2>2, Zenon DEF Old
<1>11. PICK e : e = Entry("delete", at, l) OBVIOUS
<1>12. e \in Edit /\ e.op = "delete" /\ e.op # "insert" /\ e.at = at /\ e.line = l
  BY <1>2, <1>5, <1>11 DEF Entry, Edit
<1>13. Adds(e, "insert", Lines(blocks), Lines(blocks')) BY <1>3, <1>6, <1>12, Zenon DEF Adds
<1>14. nextID' \in Nat /\ nextID <= nextID' BY <1>1, <1>4
<1>15. IInv' /\ Text!Edited(Lines(blocks'))
  <2>1. Journal(e) BY <1>4, <1>11, Zenon
  <2>2. Old(Lines(blocks'), nextID') BY <1>7, <1>10, Zenon
  <2> QED BY <1>6, <1>12, <1>13, <1>14, <2>1, <2>2, FreshEdit
<1>16. Lines(blocks') = Text!Cut(Lines(blocks), at)
  <2>1. RemoveAt(d, at + 1) = c BY <1>5, <1>8, GrownFacts, Zenon
  <2>3. RemoveAt(d, at + 1) = SubSeq(d, 1, at) \o SubSeq(d, at + 2, Len(d))
    <3>1. PICK i \in Nat : i = at + 1 /\ i - 1 = at /\ i + 1 = at + 2 BY <1>2
    <3>2. RemoveAt(d, i) = SubSeq(d, 1, i - 1) \o SubSeq(d, i + 1, Len(d))
      BY Zenon DEF RemoveAt
    <3> QED BY <3>1, <3>2, Zenon
  <2> QED BY <1>3, <1>7, <2>1, <2>3, Zenon DEF Text!Cut
<1>17. Text!Delete
  <2>1. at \in 0..Len(Lines(blocks)) - 1 BY <1>1, <1>2, Zenon
  <2> QED BY <1>4, <1>15, <1>16, <2>1, Zenon DEF Text!Delete
<1> QED BY <1>15, <1>17

(* Undo and Redo: the newest entry of a half of the journal is taken back, *)
(* and the document it led from is there again.                            *)
LEMMA TakeBack ==
  ASSUME IInv, NEW e \in Edit, NEW op, NEW x, Adds(e, op, x, Lines(blocks)), Old(x, nextID),
         \/ e.op = op /\ Unmake(e)
         \/ e.op # op /\ Make(e)
  PROVE  Sound(blocks', loc') /\ Lines(blocks') = x
<1>1. /\ Sound(blocks, loc) /\ nextID \in Nat /\ Old(Lines(blocks), nextID)
      /\ Lines(blocks) \in Docs /\ LineCount = Len(Lines(blocks)) /\ LineCount \in Nat
  BY Newest
<1>2. PICK d \in Docs : d = Lines(blocks) BY <1>1, Zenon
<1>3. PICK at \in Nat, l \in AnyLine : at = e.at /\ l = e.line BY DEF Edit
<1>4. Doc(blocks, loc) = Now BY Zenon DEF Now
<1>5. PICK c : c = Lines(blocks') OBVIOUS
<1>6. CASE e.op = op /\ Unmake(e)
  <2>1. Grown(x, at, l, d) BY <1>2, <1>3, <1>6, Zenon DEF Adds
  <2>2. Grown(x, at, l, Lines(blocks)) BY <1>2, <2>1, Zenon
  <2>3. IndexOf(l.id) = at BY <1>1, <2>2, Finds
  <2>4. Becomes(doDelete(Now, at)) BY <1>3, <1>6, <2>3, Zenon DEF Unmake
  <2>5. at \in 0..Len(d) - 1 BY <2>1, GrownFacts, Zenon
  <2>6. d[at + 1] = l BY <2>1, GrownHas
  <2>7. Taken(blocks, at, l, doDelete(Doc(blocks, loc), at))
    <3>1. at \in 0..Len(Lines(blocks)) - 1 BY <1>2, <2>5, Zenon
    <3>2. /\ Lines(blocks)[at + 1] \in AnyLine
          /\ Taken(blocks, at, Lines(blocks)[at + 1], doDelete(Doc(blocks, loc), at))
      BY <1>1, <3>1, DeleteTakes
    <3> QED BY <1>2, <2>6, <3>2, Zenon
  <2>8. Sound(blocks', loc') /\ Grown(c, at, l, d)
    BY <1>2, <1>4, <1>5, <2>4, <2>7, Zenon DEF Taken, Becomes
  <2>9. RemoveAt(d, at + 1) = c BY <2>8, GrownFacts, Zenon
  <2>10. RemoveAt(d, at + 1) = x BY <2>1, GrownFacts, Zenon
  <2> QED BY <1>5, <2>8, <2>9, <2>10, Zenon
<1>7. CASE e.op # op /\ Make(e)
  <2>1. Grown(d, at, l, x) BY <1>2, <1>3, <1>7, Zenon DEF Adds
  <2>2. Becomes(doInsert(Now, at, l)) BY <1>3, <1>7, Zenon DEF Make
  <2>3. at \in 0..Len(d) /\ (Unique(x) <=> (Unique(d) /\ l.id \notin Ids(d)))
    BY <2>1, GrownFacts, Zenon
  <2>4. l.id \notin Ids(d) BY <2>3, Zenon DEF Old
  <2>5. Given(blocks, at, l, doInsert(Doc(blocks, loc), at, l))
    <3>1. at \in 0..Len(Lines(blocks)) BY <1>2, <2>3, Zenon
    <3> QED BY <1>1, <1>2, <2>4, <3>1, InsertGives, Zenon
  <2>6. Sound(blocks', loc') /\ Grown(d, at, l, c)
    BY <1>2, <1>4, <1>5, <2>2, <2>5, Zenon DEF Given, Becomes
  <2>7. InsertAt(d, at + 1, l) = c BY <2>6, GrownFacts, Zenon
  <2>8. InsertAt(d, at + 1, l) = x BY <2>1, GrownFacts, Zenon
  <2> QED BY <1>5, <2>6, <2>7, <2>8, Zenon
<1> QED BY <1>6, <1>7

LEMMA OtherWay ==
  ASSUME NEW e \in Edit, NEW x, NEW y
  PROVE  Adds(e, "insert", x, y) <=> Adds(e, "delete", y, x)
<1>1. e.op \in {"insert", "delete"} BY DEF Edit
<1>2. CASE e.op = "insert"
  <2>1. e.op # "delete" BY <1>2
  <2> QED BY <1>2, <2>1, Zenon DEF Adds
<1>3. CASE e.op = "delete"
  <2>1. e.op # "insert" BY <1>3
  <2> QED BY <1>3, <2>1, Zenon DEF Adds
<1> QED BY <1>1, <1>2, <1>3, Zenon

LEMMA NewestShown ==
  ASSUME NEW js, NEW op, NEW H, NEW d, NEW n, History(js, op, H, d, n), Len(js) # 0
  PROVE  Front(H) # <<>> /\ Front(H)[Len(Front(H))] = H[Len(js)]
<1>1. H \in Seq(Docs) /\ Len(H) = Len(js) + 1 /\ js \in Seq(Edit) BY Zenon DEF History
<1>2. Len(js) \in Nat /\ Len(js) \in 1..Len(js)
  <2>1. Len(js) \in Nat BY <1>1, LenProperties
  <2> QED BY <2>1
<1>3. Front(H) \in Seq(Docs) /\ Len(Front(H)) = Len(js) /\ \A k \in 1..Len(js) : Front(H)[k] = H[k]
  BY <1>1, <1>2, Fronted
<1>4. Front(H) # <<>>
  <2>1. Len(<<>>) = 0 OBVIOUS
  <2> QED BY <1>3, <2>1, Zenon
<1> QED BY <1>2, <1>3, <1>4, Zenon

LEMMA ButLastIs == \A s : Text!ButLast(s) = Front(s)
BY Zenon DEF Text!ButLast, Front

LEMMA NotEmpty ==
  ASSUME NEW js, NEW op, NEW H, NEW d, NEW n, History(js, op, H, d, n), js # <<>>
  PROVE  Len(js) # 0 /\ Len(js) \in Nat
<1>1. js \in Seq(Edit) BY Zenon DEF History
<1> QED BY <1>1, EmptySeq

LEMMA UndoStep ==
  ASSUME IInv, Undo
  PROVE  IInv' /\ Text!Undo
<1>1. PICK n \in Nat, d \in Docs : n = nextID /\ d = Lines(blocks) BY Newest, Zenon
<1>2. /\ Len(undo) <= MaxUndo
      /\ \E H : History(undo, "insert", H, d, n)
      /\ \E G : History(redo, "delete", G, d, n)
  BY <1>1, Zenon DEF IInv, Good
<1>3. PICK H : History(undo, "insert", H, d, n) BY <1>2, Zenon
<1>4. PICK G : History(redo, "delete", G, d, n) BY <1>2, Zenon
<1>5. PICK e : e = Last(undo) OBVIOUS
<1>6. /\ undo # <<>> /\ undo' = Front(undo) /\ redo' = Append(redo, e) /\ nextID' = nextID
      /\ (e.op = "insert" /\ Unmake(e)) \/ (e.op = "delete" /\ Make(e))
  BY <1>5, Zenon DEF Undo
<1>7. Len(undo) # 0 /\ Len(undo) \in Nat BY <1>3, <1>6, NotEmpty
<1>8. PICK x : x = H[Len(undo)] OBVIOUS
<1>9. /\ History(Front(undo), "insert", Front(H), H[Len(undo)], n)
      /\ Len(Front(undo)) = Len(undo) - 1
      /\ Last(undo) \in Edit /\ Adds(Last(undo), "insert", H[Len(undo)], d)
      /\ Old(H[Len(undo)], n) /\ Old(d, n)
  BY <1>3, <1>7, HistoryPop
<1>10. /\ History(undo', "insert", Front(H), x, n) /\ e \in Edit /\ Adds(e, "insert", x, d)
       /\ Old(x, n)
  BY <1>5, <1>6, <1>8, <1>9, Zenon
<1>11. Sound(blocks', loc') /\ Lines(blocks') = x
  <2>1. (e.op = "insert" /\ Unmake(e)) \/ (e.op # "insert" /\ Make(e))
    <3>1. e.op = "delete" => e.op # "insert" OBVIOUS
    <3> QED BY <1>6, <3>1, Zenon
  <2>2. Adds(e, "insert", x, Lines(blocks)) /\ Old(x, nextID) BY <1>1, <1>10, Zenon
  <2> QED BY <1>10, <2>1, <2>2, TakeBack
<1>12. History(redo', "delete", Append(G, x), x, n)
  <2>1. Adds(e, "delete", d, x) BY <1>10, OtherWay, Zenon
  <2>2. n <= n OBVIOUS
  <2>3. History(Append(redo, e), "delete", Append(G, x), x, n)
    BY <1>4, <1>10, <2>1, <2>2, HistoryPush
  <2> QED BY <1>6, <2>3, Zenon
<1>13. Len(undo') <= MaxUndo BY <1>2, <1>6, <1>7, <1>9, EditAssumption
<1>14. IInv' BY <1>1, <1>6, <1>10, <1>11, <1>12, <1>13, Zenon DEF IInv, Good
<1>15. PICK p : p = Chain(undo, Before) OBVIOUS
<1>16. p = Front(H)
  <2>1. PastOf(undo, d) = Front(H) BY <1>3, PastShown
  <2>2. Chain(undo, Before) = PastOf(undo, Lines(blocks)) BY ChainsAre, Zenon
  <2> QED BY <1>1, <1>15, <2>1, <2>2, Zenon
<1>17. Chain(undo, Before)' = Front(p)
  <2>1. PastOf(undo', x) = Front(Front(H)) BY <1>10, PastShown
  <2>2. Chain(undo, Before)' = PastOf(undo', Lines(blocks')) BY ChainsAre, Zenon
  <2> QED BY <1>11, <1>16, <2>1, <2>2, Zenon
<1>18. Chain(redo, After)' = Append(Chain(redo, After), d)
  <2>1. FutureOf(redo', x) = Front(Append(G, x)) BY <1>12, FutureShown
  <2>2. Chain(redo, After)' = FutureOf(redo', Lines(blocks')) BY ChainsAre, Zenon
  <2>3. Append(FutureOf(redo, d), d) = G BY <1>4, FutureShown
  <2>4. Chain(redo, After) = FutureOf(redo, Lines(blocks)) BY ChainsAre, Zenon
  <2>5. Front(Append(G, x)) = G
    <3>1. G \in Seq(Docs) BY <1>4, Zenon DEF History
    <3>2. x \in Docs BY <1>10, Zenon DEF Old
    <3> QED BY <3>1, <3>2, FrontOfAppended
  <2> QED BY <1>1, <1>11, <2>1, <2>2, <2>3, <2>4, <2>5, Zenon
<1>19. p # <<>> /\ p[Len(p)] = x
  <2>1. Front(H) # <<>> /\ Front(H)[Len(Front(H))] = H[Len(undo)] BY <1>3, <1>7, NewestShown
  <2> QED BY <1>8, <1>16, <2>1, Zenon
<1>20. Text!ButLast(p) = Front(p) BY ButLastIs, Zenon
<1>21. Text!Undo BY <1>1, <1>6, <1>11, <1>15, <1>17, <1>18, <1>19, <1>20, Zenon DEF Text!Undo
<1> QED BY <1>14, <1>21

LEMMA RedoStep ==
  ASSUME IInv, Redo
  PROVE  IInv' /\ Text!Redo
<1>1. PICK n \in Nat, d \in Docs : n = nextID /\ d = Lines(blocks) BY Newest, Zenon
<1>2. /\ Len(undo) <= MaxUndo
      /\ \E H : History(undo, "insert", H, d, n)
      /\ \E G : History(redo, "delete", G, d, n)
  BY <1>1, Zenon DEF IInv, Good
<1>3. PICK H : History(undo, "insert", H, d, n) BY <1>2, Zenon
<1>4. PICK G : History(redo, "delete", G, d, n) BY <1>2, Zenon
<1>5. PICK e : e = Last(redo) OBVIOUS
<1>6. /\ redo # <<>> /\ redo' = Front(redo) /\ undo' = Pushed(undo, e) /\ nextID' = nextID
      /\ (e.op = "insert" /\ Make(e)) \/ (e.op = "delete" /\ Unmake(e))
  BY <1>5, Zenon DEF Redo, pushUndo, Pushed
<1>7. Len(redo) # 0 BY <1>4, <1>6, NotEmpty
<1>8. PICK x : x = G[Len(redo)] OBVIOUS
<1>9. /\ History(Front(redo), "delete", Front(G), G[Len(redo)], n)
      /\ Len(Front(redo)) = Len(redo) - 1
      /\ Last(redo) \in Edit /\ Adds(Last(redo), "delete", G[Len(redo)], d)
      /\ Old(G[Len(redo)], n) /\ Old(d, n)
  BY <1>4, <1>7, HistoryPop
<1>10. /\ History(redo', "delete", Front(G), x, n) /\ e \in Edit /\ Adds(e, "delete", x, d)
       /\ Old(x, n)
  BY <1>5, <1>6, <1>8, <1>9, Zenon
<1>11. Sound(blocks', loc') /\ Lines(blocks') = x
  <2>1. (e.op = "delete" /\ Unmake(e)) \/ (e.op # "delete" /\ Make(e))
    <3>1. e.op = "insert" => e.op # "delete" OBVIOUS
    <3> QED BY <1>6, <3>1, Zenon
  <2>2. Adds(e, "delete", x, Lines(blocks)) /\ Old(x, nextID) BY <1>1, <1>10, Zenon
  <2> QED BY <1>10, <2>1, <2>2, TakeBack
<1>12. /\ \E K : History(Pushed(undo, e), "insert", K, x, n)
       /\ Len(Pushed(undo, e)) <= MaxUndo
       /\ PastOf(Pushed(undo, e), x) = Text!Newest(Append(PastOf(undo, d), d))
  <2>1. Adds(e, "insert", d, x) BY <1>10, OtherWay, Zenon
  <2>2. n <= n OBVIOUS
  <2> QED BY <1>2, <1>3, <1>10, <2>1, <2>2, PushKeeps
<1>13. IInv' BY <1>1, <1>6, <1>10, <1>11, <1>12, Zenon DEF IInv, Good
<1>14. PICK f : f = Chain(redo, After) OBVIOUS
<1>15. f = Front(G)
  <2>1. FutureOf(redo, d) = Front(G) BY <1>4, FutureShown
  <2>2. Chain(redo, After) = FutureOf(redo, Lines(blocks)) BY ChainsAre, Zenon
  <2> QED BY <1>1, <1>14, <2>1, <2>2, Zenon
<1>16. Chain(redo, After)' = Front(f)
  <2>1. FutureOf(redo', x) = Front(Front(G)) BY <1>10, FutureShown
  <2>2. Chain(redo, After)' = FutureOf(redo', Lines(blocks')) BY ChainsAre, Zenon
  <2> QED BY <1>11, <1>15, <2>1, <2>2, Zenon
<1>17. Chain(undo, Before)' = Text!Newest(Append(Chain(undo, Before), d))
  <2>1. Chain(undo, Before)' = PastOf(undo', Lines(blocks')) BY ChainsAre, Zenon
  <2>2. Chain(undo, Before) = PastOf(undo, Lines(blocks)) BY ChainsAre, Zenon
  <2> QED BY <1>1, <1>6, <1>11, <1>12, <2>1, <2>2, Zenon
<1>18. f # <<>> /\ f[Len(f)] = x
  <2>1. Front(G) # <<>> /\ Front(G)[Len(Front(G))] = G[Len(redo)] BY <1>4, <1>7, NewestShown
  <2> QED BY <1>8, <1>15, <2>1, Zenon
<1>19. Text!ButLast(f) = Front(f) BY ButLastIs, Zenon
<1>20. Text!Redo BY <1>1, <1>6, <1>11, <1>14, <1>16, <1>17, <1>18, <1>19, Zenon DEF Text!Redo
<1> QED BY <1>13, <1>20

(* Reopening: the same lines, no history, and ids from above the highest.  *)
FirstFree(ls) ==
  IF ls = <<>> THEN 1 ELSE 1 + (CHOOSE n \in Ids(ls) : \A k \in Ids(ls) : k <= n)

LEMMA ReopenStep ==
  ASSUME IInv, Reopen
  PROVE  IInv' /\ Text!Reopen
<1>1. PICK ls \in Docs : ls = Lines(blocks) /\ Old(ls, nextID) BY Newest, Zenon
<1>2. /\ blocks' = Filled(ls) /\ loc' = TableOf(blocks', ls) /\ undo' = <<>> /\ redo' = <<>>
      /\ nextID' = FirstFree(ls)
  <2>1. blocks' = Filled(Lines(blocks)) /\ undo' = <<>> /\ redo' = <<>> BY Zenon DEF Reopen
  <2>2. loc' = TableOf(blocks', Lines(blocks)) BY Zenon DEF Reopen, TableOf
  <2>3. nextID' = FirstFree(Lines(blocks)) BY Zenon DEF Reopen, FirstFree
  <2> QED BY <1>1, <2>1, <2>2, <2>3, Zenon
<1>3. Lines(Filled(ls)) = ls /\ Sound(Filled(ls), TableOf(Filled(ls), ls))
  BY <1>1, OpenedIsSound, Zenon DEF Old
<1>4. Lines(blocks') = ls /\ Sound(blocks', loc') BY <1>2, <1>3, Zenon
<1>5. DOMAIN ls = 1..Len(ls) BY DocFacts, Zenon
<1>6. /\ nextID' \in Nat /\ \A id \in Ids(ls) : id < nextID'
      /\ (ls = <<>> /\ nextID' = 1) \/ nextID' \in {ls[i].id + 1 : i \in DOMAIN ls}
  <2>1. CASE ls = <<>>
    <3>1. Ids(ls) = {} BY <2>1, IdsOfNone
    <3> QED BY <1>2, <2>1, <3>1 DEF FirstFree
  <2>2. CASE ls # <<>>
    <3>1. \E n \in Ids(ls) : n \in Nat /\ \A k \in Ids(ls) : k <= n BY <2>2, Highest
    <3>2. PICK n \in Ids(ls) :
            n = (CHOOSE h \in Ids(ls) : \A k \in Ids(ls) : k <= h) /\ \A k \in Ids(ls) : k <= n
      BY <3>1, Zenon
    <3>3. \A k \in Ids(ls) : k \in Nat
      <4>1. \A i \in DOMAIN ls : ls[i].id \in Nat
        <5>1. \A i \in DOMAIN ls : ls[i] \in AnyLine BY DEF Docs
        <5> QED BY <5>1 DEF AnyLine
      <4> QED BY <4>1, Zenon DEF Ids
    <3>4. PICK m : m = nextID' OBVIOUS
    <3>5. m = 1 + n BY <1>2, <2>2, <3>2, <3>4, Zenon DEF FirstFree
    <3>6. m \in Nat /\ m = n + 1 BY <3>3, <3>5
    <3>7. \A id \in Ids(ls) : id < m BY <3>2, <3>3, <3>6
    <3>8. m \in {ls[i].id + 1 : i \in DOMAIN ls} BY <3>6, Zenon DEF Ids
    <3> QED BY <3>4, <3>6, <3>7, <3>8, Zenon
  <2> QED BY <2>1, <2>2
<1>7. Old(Lines(blocks'), nextID') BY <1>1, <1>4, <1>6, Zenon DEF Old
<1>8. IInv'
  <2>1. PICK d, n : d = Lines(blocks') /\ n = nextID' OBVIOUS
  <2>2. Old(d, n) BY <1>7, <2>1, Zenon
  <2>3. History(<<>>, "insert", <<d>>, d, n) /\ History(<<>>, "delete", <<d>>, d, n)
    BY <2>2, HistoryNone
  <2>4. Len(<<>>) <= MaxUndo BY EditAssumption
  <2> QED BY <1>2, <1>4, <1>6, <2>1, <2>3, <2>4, Zenon DEF IInv, Good
<1>9. Chain(undo, Before)' = <<>> /\ Chain(redo, After)' = <<>>
  <2>1. PICK d, n : d = Lines(blocks') /\ n = nextID' OBVIOUS
  <2>2. Old(d, n) BY <1>7, <2>1, Zenon
  <2>3. PastOf(<<>>, d) = <<>> /\ FutureOf(<<>>, d) = <<>> BY <2>2, NoPast
  <2>4. Chain(undo, Before)' = PastOf(undo', Lines(blocks')) BY ChainsAre, Zenon
  <2>5. Chain(redo, After)' = FutureOf(redo', Lines(blocks')) BY ChainsAre, Zenon
  <2> QED BY <1>2, <2>1, <2>3, <2>4, <2>5, Zenon
<1>10. \A i \in DOMAIN ls : ls[i].id < nextID' BY <1>6, Zenon DEF Ids
<1>11. Text!Reopen BY <1>1, <1>4, <1>6, <1>9, <1>10, Zenon DEF Text!Reopen
<1> QED BY <1>8, <1>11

LEMMA InitStep ==
  ASSUME Init
  PROVE  IInv /\ Text!Init
<1>1. blocks = <<>> /\ loc = [i \in {} |-> 0] /\ nextID = 1 /\ undo = <<>> /\ redo = <<>>
  BY Zenon DEF Init
<1>2. Lines(blocks) = <<>> BY <1>1, LinesNone, Zenon
<1>3. Sound(blocks, loc)
  <2>1. DOMAIN loc = {} BY <1>1
  <2>2. blocks \in Blocks BY <1>1, BlockFacts, Zenon
  <2> QED BY <1>1, <1>2, <2>1, <2>2, IdsOfNone, PtrsOfNone, Zenon DEF Sound
<1>4. Old(<<>>, 1) BY IdsOfNone DEF Old
<1>5. History(<<>>, "insert", <<<<>>>>, <<>>, 1) /\ History(<<>>, "delete", <<<<>>>>, <<>>, 1)
  BY <1>4, HistoryNone
<1>6. Len(<<>>) <= MaxUndo /\ 1 \in Nat BY EditAssumption
<1>7. IInv BY <1>1, <1>2, <1>3, <1>5, <1>6, Zenon DEF IInv, Good
<1>8. PastOf(<<>>, <<>>) = <<>> /\ FutureOf(<<>>, <<>>) = <<>> BY <1>4, NoPast
<1>9. Chain(undo, Before) = <<>> /\ Chain(redo, After) = <<>>
  <2>1. Chain(undo, Before) = PastOf(undo, Lines(blocks)) BY ChainsAre, Zenon
  <2>2. Chain(redo, After) = FutureOf(redo, Lines(blocks)) BY ChainsAre, Zenon
  <2> QED BY <1>1, <1>2, <1>8, <2>1, <2>2, Zenon
<1>10. Text!Init BY <1>1, <1>2, <1>9, Zenon DEF Text!Init
<1> QED BY <1>7, <1>10

LEMMA StepStep ==
  ASSUME IInv, [Next]_vars
  PROVE  IInv' /\ [Text!Next]_(Text!vars)
<1>1. ASSUME NEW at \in 0..LineCount, DeleteLine(at) PROVE IInv' /\ Text!Next
  BY <1>1, DeleteLineStep, Zenon DEF Text!Next
<1>2. ASSUME NEW at \in 0..LineCount, NEW t \in Texts, InsertLine(at, t) PROVE IInv' /\ Text!Next
  BY <1>2, InsertLineStep, Zenon DEF Text!Next
<1>3. ASSUME Undo PROVE IInv' /\ Text!Next BY <1>3, UndoStep, Zenon DEF Text!Next
<1>4. ASSUME Redo PROVE IInv' /\ Text!Next BY <1>4, RedoStep, Zenon DEF Text!Next
<1>5. ASSUME Reopen PROVE IInv' /\ Text!Next BY <1>5, ReopenStep, Zenon DEF Text!Next
<1>6. ASSUME UNCHANGED vars PROVE IInv' /\ UNCHANGED Text!vars
  <2>1. blocks' = blocks /\ loc' = loc /\ nextID' = nextID /\ undo' = undo /\ redo' = redo
    BY <1>6, Zenon DEF vars
  <2>2. IInv' BY <2>1, Zenon DEF IInv
  <2>3. Chain(undo, Before)' = Chain(undo, Before)
    <3>1. Chain(undo, Before)' = PastOf(undo', Lines(blocks')) BY ChainsAre, Zenon
    <3>2. Chain(undo, Before) = PastOf(undo, Lines(blocks)) BY ChainsAre, Zenon
    <3> QED BY <2>1, <3>1, <3>2, Zenon
  <2>4. Chain(redo, After)' = Chain(redo, After)
    <3>1. Chain(redo, After)' = FutureOf(redo', Lines(blocks')) BY ChainsAre, Zenon
    <3>2. Chain(redo, After) = FutureOf(redo, Lines(blocks)) BY ChainsAre, Zenon
    <3> QED BY <2>1, <3>1, <3>2, Zenon
  <2>5. Lines(blocks)' = Lines(blocks) BY <2>1, Zenon
  <2> QED BY <2>1, <2>2, <2>3, <2>4, <2>5, Zenon DEF Text!vars
<1>7. CASE Next BY <1>1, <1>2, <1>3, <1>4, <1>5, <1>7, Zenon DEF Next
<1>8. CASE UNCHANGED vars BY <1>6, <1>8, Zenon
<1> QED BY <1>7, <1>8

-----------------------------------------------------------------------------
(* As many ids as lines: no two lines share one.                           *)
LEMMA IdCount ==
  ASSUME NEW x \in Docs, Unique(x)
  PROVE  Cardinality(Ids(x)) = Len(x)
<1>1. Len(x) \in Nat /\ DOMAIN x = 1..Len(x) BY DocFacts, Zenon
<1>2. PICK f : f = [i \in 1..Len(x) |-> x[i].id] OBVIOUS
<1>3. DOMAIN f = 1..Len(x) /\ \A i \in 1..Len(x) : f[i] = x[i].id BY <1>2
<1>4. f \in [1..Len(x) -> Ids(x)]
  <2>1. \A i \in 1..Len(x) : x[i].id \in Ids(x) BY <1>1, Zenon DEF Ids
  <2> QED BY <1>2, <2>1
<1>5. IsInjective(f) BY <1>1, <1>3, Zenon DEF IsInjective, Unique
<1>6. \A t \in Ids(x) : \E i \in 1..Len(x) : f[i] = t BY <1>1, <1>3, Zenon DEF Ids
<1>7. f \in Bijection(1..Len(x), Ids(x))
  BY <1>4, <1>5, <1>6 DEF Bijection, Injection, Surjection
<1>8. ExistsBijection(1..Len(x), Ids(x)) BY <1>7 DEF ExistsBijection
<1> QED BY <1>1, <1>8, FS_CountingElements

LEMMA TableIsExact ==
  ASSUME IInv
  PROVE  LocExact
<1>1. Sound(blocks, loc) /\ Lines(blocks) \in Docs /\ LineCount = Len(Lines(blocks)) BY Newest
<1>2. PICK d \in Docs : d = Lines(blocks) /\ Unique(d) BY <1>1, Zenon DEF Sound
<1>3. Cardinality(Ids(d)) = Len(d) BY <1>2, IdCount
<1>4. Cardinality(Ids(Lines(blocks))) = LineCount BY <1>1, <1>2, <1>3, Zenon
<1>5. /\ DOMAIN loc = Ids(Lines(blocks))
      /\ \A i, j \in DOMAIN blocks : blocks[i].ptr = blocks[j].ptr => i = j
      /\ \A i \in DOMAIN blocks : \A id \in Ids(blocks[i].lines) : loc[id] = blocks[i].ptr
  BY <1>1, Zenon DEF Sound, Distinct, At
<1> QED BY <1>4, <1>5, Zenon DEF LocExact

(* What taking an entry back needs is there.                               *)
LEMMA CanTakeBack ==
  ASSUME IInv, NEW e \in Edit, NEW op, NEW x, Adds(e, op, x, Lines(blocks)), Old(x, nextID)
  PROVE  /\ e.op = op => Known(e.line.id)
         /\ e.op # op => ~Known(e.line.id) /\ e.at <= LineCount
<1>1. Sound(blocks, loc) /\ Lines(blocks) \in Docs /\ LineCount = Len(Lines(blocks)) /\ LineCount \in Nat
  BY Newest
<1>2. PICK d \in Docs : d = Lines(blocks) BY <1>1, Zenon
<1>3. PICK at \in Nat, l \in AnyLine : at = e.at /\ l = e.line BY DEF Edit
<1>4. ASSUME e.op = op PROVE Known(e.line.id)
  <2>1. Grown(x, at, l, Lines(blocks)) BY <1>3, <1>4, Zenon DEF Adds
  <2>2. Known(l.id) BY <1>1, <2>1, Finds
  <2> QED BY <1>3, <2>2, Zenon
<1>5. ASSUME e.op # op PROVE ~Known(e.line.id) /\ e.at <= LineCount
  <2>1. Grown(d, at, l, x) BY <1>2, <1>3, <1>5, Zenon DEF Adds
  <2>2. at \in 0..Len(d) /\ (Unique(x) <=> (Unique(d) /\ l.id \notin Ids(d)))
    BY <2>1, GrownFacts, Zenon
  <2>3. l.id \notin Ids(Lines(blocks)) BY <1>2, <2>2, Zenon DEF Old
  <2>4. ~Known(l.id) BY <1>1, <2>3, Unknown
  <2>5. at <= LineCount BY <1>1, <1>2, <2>2
  <2> QED BY <1>3, <2>4, <2>5, Zenon
<1> QED BY <1>4, <1>5, Zenon

LEMMA JournalCanBeUsed ==
  ASSUME IInv
  PROVE  JournalIsLive
<1>1. PICK n \in Nat, d \in Docs : n = nextID /\ d = Lines(blocks) BY Newest, Zenon
<1>2. /\ \E H : History(undo, "insert", H, d, n)
      /\ \E G : History(redo, "delete", G, d, n)
  BY <1>1, Zenon DEF IInv, Good
<1>3. ASSUME undo # <<>>
      PROVE  IF Last(undo).op = "insert" THEN Known(Last(undo).line.id)
             ELSE ~Known(Last(undo).line.id) /\ Last(undo).at <= LineCount
  <2>1. PICK H : History(undo, "insert", H, d, n) BY <1>2, Zenon
  <2>2. Len(undo) # 0 BY <1>3, <2>1, NotEmpty
  <2>3. /\ Last(undo) \in Edit /\ Adds(Last(undo), "insert", H[Len(undo)], d)
        /\ Old(H[Len(undo)], n)
    BY <2>1, <2>2, HistoryPop
  <2>4. PICK e, x : e \in Edit /\ e = Last(undo) /\ Adds(e, "insert", x, Lines(blocks)) /\ Old(x, nextID)
    BY <1>1, <2>3, Zenon
  <2>5. /\ e.op = "insert" => Known(e.line.id)
        /\ e.op # "insert" => ~Known(e.line.id) /\ e.at <= LineCount
    BY <2>4, CanTakeBack
  <2> QED BY <2>4, <2>5, Zenon
<1>4. ASSUME redo # <<>>
      PROVE  IF Last(redo).op = "delete" THEN Known(Last(redo).line.id)
             ELSE ~Known(Last(redo).line.id) /\ Last(redo).at <= LineCount
  <2>1. PICK G : History(redo, "delete", G, d, n) BY <1>2, Zenon
  <2>2. Len(redo) # 0 BY <1>4, <2>1, NotEmpty
  <2>3. /\ Last(redo) \in Edit /\ Adds(Last(redo), "delete", G[Len(redo)], d)
        /\ Old(G[Len(redo)], n)
    BY <2>1, <2>2, HistoryPop
  <2>4. PICK e, x : e \in Edit /\ e = Last(redo) /\ Adds(e, "delete", x, Lines(blocks)) /\ Old(x, nextID)
    BY <1>1, <2>3, Zenon
  <2>5. /\ e.op = "delete" => Known(e.line.id)
        /\ e.op # "delete" => ~Known(e.line.id) /\ e.at <= LineCount
    BY <2>4, CanTakeBack
  <2> QED BY <2>4, <2>5, Zenon
<1> QED BY <1>3, <1>4, Zenon DEF JournalIsLive

(* Every reachable state is good (editmodel.go, all exported methods).     *)
THEOREM InductiveInvariant == Spec => []IInv
<1>1. Init => IInv BY InitStep
<1>2. IInv /\ [Next]_vars => IInv' BY StepStep
<1> QED BY <1>1, <1>2, PTL DEF Spec

(* The id table names exactly the lines there are, each with its block,    *)
(* and no id is on two lines, whatever the sizes (checkInvariants).        *)
THEOREM TableStaysExact == Spec => []LocExact
<1>1. IInv => LocExact BY TableIsExact
<1> QED BY <1>1, InductiveInvariant, PTL

(* Undo and Redo never panic, however long and wherever cut the journal is *)
(* (Undo, Redo, applyReverse, applyForward).                               *)
THEOREM UndoNeverPanics == Spec => []JournalIsLive
<1>1. IInv => JournalIsLive BY JournalCanBeUsed
<1> QED BY <1>1, InductiveInvariant, PTL

(* The document in its blocks is a TextDocument: Undo and Redo bring back  *)
(* exactly the documents there were.                                       *)
THEOREM ImplementsTextDocument == Spec => IsTextDocument
<1>1. Init => Text!Init BY InitStep
<1>2. IInv /\ [Next]_vars => [Text!Next]_(Text!vars) BY StepStep
<1> QED BY <1>1, <1>2, InductiveInvariant, PTL DEF Spec, IsTextDocument, Text!Spec
=============================================================================
