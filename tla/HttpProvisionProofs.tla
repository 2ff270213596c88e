------------------------ MODULE HttpProvisionProofs ------------------------
(***************************************************************************)
(* Provisioning over HTTP, for every plan, every set of responses and every *)
(* network: the verdict recorded for a file is about what the store holds. *)
(* Nothing is needed of the connection: whatever OnSegment hands to the    *)
(* sink passes the header once and goes to the hash and to the store.      *)
(***************************************************************************)
EXTENDS HttpProvision, SequenceTheorems, WellFoundedInduction, TLAPS

Verdict == [name : Names, verified : BOOLEAN]

(* The fetch in progress is the idx-th of the plan and the only one that   *)
(* has no verdict; the hash has seen what the store's open file holds.     *)
FetchInv ==
  /\ idx \in DOMAIN Plan
  /\ phase \in {"ARP", "HANDSHAKE", "RECV", "DONE"}
  /\ DOMAIN files = Names
  /\ res \in Seq(Verdict)
  /\ Len(res) = IF phase = "DONE" THEN idx ELSE idx - 1
  /\ files[Plan[idx].name] = hashed

IInv == FetchInv /\ VerifiedIsStored
-----------------------------------------------------------------------------
LEMMA PlanIsSequence == DOMAIN Plan = 1..Len(Plan) /\ Len(Plan) \in Nat \ {0}
BY PlanAssumption

LEMMA PlanNames == \A i \in DOMAIN Plan : Plan[i].name \in Names
BY DEF Names

LEMMA InitInv == Init => IInv
BY PlanIsSequence, PlanNames DEF Init, IInv, FetchInv, VerifiedIsStored, Verdict

(* A verdict on an earlier file keeps its meaning as long as the store only *)
(* changes the file being fetched.                                         *)
LEMMA EarlierVerdicts ==
  ASSUME IInv, NEW j \in DOMAIN Plan, idx <= j,
         \A n \in Names : n # Plan[j].name => files'[n] = files[n]
  PROVE  \A i \in DOMAIN res :
           /\ i < j
           /\ res[i].verified
           /\ \A k \in i + 1 .. j : Plan[k].name # Plan[i].name
           => files'[Plan[i].name] = Plan[i].pinned
<1> SUFFICES ASSUME NEW i \in DOMAIN res, i < j, res[i].verified,
                    \A k \in i + 1 .. j : Plan[k].name # Plan[i].name
             PROVE  files'[Plan[i].name] = Plan[i].pinned
  OBVIOUS
<1>1. i \in Nat \ {0} /\ i \in DOMAIN Plan /\ j \in Nat /\ idx \in Nat
  BY PlanIsSequence DEF IInv, FetchInv
<1>2. Plan[j].name # Plan[i].name BY <1>1
<1>3. \A k \in i + 1 .. idx : k \in i + 1 .. j BY <1>1
<1>4. files[Plan[i].name] = Plan[i].pinned BY <1>3 DEF IInv, VerifiedIsStored
<1> QED BY <1>1, <1>2, <1>4, PlanNames

LEMMA ArpStep == IInv /\ OnArpReply => IInv'
BY DEF OnArpReply, IInv, FetchInv, VerifiedIsStored

LEMMA SynAckStep == ASSUME NEW s, IInv, OnSynAckFrame(s) PROVE IInv'
<1>1. CASE OnSegment(conn, s).tx = <<>>
  BY <1>1 DEF OnSynAckFrame, clientVars, IInv, FetchInv, VerifiedIsStored
<1>2. CASE OnSegment(conn, s).tx # <<>>
  BY <1>2 DEF OnSynAckFrame, IInv, FetchInv, VerifiedIsStored
<1> QED BY <1>1, <1>2

LEMMA StreamStep == ASSUME NEW s, IInv, OnStreamFrame(s) PROVE IInv'
<1> DEFINE r == OnSegment(conn, s)
           d == Drained(NothingYet, r.writes)
           name == Plan[idx].name
<1>1. /\ phase = "RECV" /\ idx' = idx
      /\ hashed' = hashed \o d.body
      /\ files' = [files EXCEPT ![name] = @ \o d.body]
  BY DEF OnStreamFrame
<1>2. \/ /\ phase' = "DONE"
         /\ res' = Append(res, [name |-> name, verified |-> hashed' = Plan[idx].pinned])
      \/ UNCHANGED <<phase, res>>
  BY DEF OnStreamFrame
<1> HIDE DEF r, d
<1>3. idx \in DOMAIN Plan /\ name \in Names /\ DOMAIN files = Names /\ idx \in Nat
  BY PlanIsSequence, PlanNames DEF IInv, FetchInv
<1>4. files'[name] = hashed' /\ DOMAIN files' = Names
  BY <1>1, <1>3 DEF IInv, FetchInv
<1>5. res \in Seq(Verdict) /\ Len(res) = idx - 1
  BY <1>1 DEF IInv, FetchInv
<1>6. \A i \in DOMAIN res :
        res[i].verified /\ (\A k \in i + 1 .. idx : Plan[k].name # Plan[i].name)
          => files'[Plan[i].name] = Plan[i].pinned
  <2>1. \A n \in Names : n # name => files'[n] = files[n] BY <1>1, <1>3
  <2>2. \A i \in DOMAIN res : i < idx BY <1>3, <1>5
  <2> QED BY <2>1, <2>2, <1>3, EarlierVerdicts
<1>7. CASE UNCHANGED <<phase, res>>
  BY <1>1, <1>3, <1>4, <1>5, <1>6, <1>7 DEF IInv, FetchInv, VerifiedIsStored
<1>8. CASE /\ phase' = "DONE"
           /\ res' = Append(res, [name |-> name, verified |-> hashed' = Plan[idx].pinned])
  <2> DEFINE v == [name |-> name, verified |-> hashed' = Plan[idx].pinned]
  <2>1. v \in Verdict /\ (v.verified <=> hashed' = Plan[idx].pinned) BY <1>3 DEF Verdict
  <2> HIDE DEF v
  <2>2. res' = Append(res, v) BY <1>8 DEF v
  <2>3. /\ res' \in Seq(Verdict) /\ Len(res') = idx /\ DOMAIN res' = 1..idx
        /\ res'[idx] = v /\ \A i \in DOMAIN res : res'[i] = res[i]
        /\ \A i \in DOMAIN res' : i = idx \/ i \in DOMAIN res
    BY <2>1, <2>2, <1>3, <1>5
  <2>4. FetchInv' BY <1>1, <1>3, <1>4, <1>8, <2>3 DEF FetchInv, IInv
  <2>5. ASSUME NEW i \in DOMAIN res', res'[i].verified,
               \A k \in i + 1 .. idx : Plan[k].name # Plan[i].name
        PROVE  files'[Plan[i].name] = Plan[i].pinned
    <3>1. CASE i = idx BY <3>1, <2>1, <2>3, <2>5, <1>4
    <3>2. CASE i \in DOMAIN res BY <3>2, <2>3, <2>5, <1>6
    <3> QED BY <3>1, <3>2, <2>3
  <2> QED BY <2>4, <2>5, <1>1 DEF IInv, VerifiedIsStored
<1> QED BY <1>2, <1>7, <1>8

LEMMA NextFileStep == IInv /\ NextFile => IInv'
<1> SUFFICES ASSUME IInv, NextFile PROVE IInv'
  OBVIOUS
<1>1. /\ phase = "DONE" /\ idx < Len(Plan) /\ idx' = idx + 1 /\ phase' = "ARP"
      /\ hashed' = <<>> /\ files' = [files EXCEPT ![Plan[idx + 1].name] = <<>>]
      /\ res' = res
  BY DEF NextFile, StartFields, StoreBegin
<1>2. idx \in Nat /\ idx + 1 \in DOMAIN Plan /\ idx <= idx + 1
      /\ Plan[idx + 1].name \in Names
  BY <1>1, PlanIsSequence, PlanNames DEF IInv, FetchInv
<1>3. FetchInv' BY <1>1, <1>2 DEF IInv, FetchInv
<1>4. \A i \in DOMAIN res : i < idx + 1 BY <1>1, <1>2 DEF IInv, FetchInv
<1>5. \A n \in Names : n # Plan[idx + 1].name => files'[n] = files[n]
  BY <1>1 DEF IInv, FetchInv
<1>6. VerifiedIsStored'
  BY <1>1, <1>2, <1>4, <1>5, EarlierVerdicts DEF VerifiedIsStored
<1> QED BY <1>3, <1>6 DEF IInv

(* Whatever the network loses, repeats or cuts anew, and whatever the      *)
(* server answers: the last verdict on a name tells what the store holds   *)
(* under it, for a plan that names a file twice too (Provisioner.Next,     *)
(* Store.Begin and HashingSink in provision.go).                           *)
THEOREM VerdictsAreAboutTheStore == Spec => []VerifiedIsStored
<1>1. IInv /\ [Next]_vars => IInv'
  <2> SUFFICES ASSUME IInv, [Next]_vars PROVE IInv'
    OBVIOUS
  <2>1. CASE OnArpReply BY <2>1, ArpStep
  <2>2. CASE OnFrame BY <2>2, SynAckStep, StreamStep DEF OnFrame
  <2>3. CASE NextFile BY <2>3, NextFileStep
  <2>4. CASE UNCHANGED vars
    BY <2>4 DEF vars, clientVars, IInv, FetchInv, VerifiedIsStored
  <2> QED BY <2>1, <2>2, <2>3, <2>4 DEF Next
<1> QED BY <1>1, InitInv, PTL DEF Spec, IInv
-----------------------------------------------------------------------------
(* Stretches of a sequence, by the places between its bytes.               *)
Text == Seq(Bytes)
Slice(s, a, b) == SubSeq(s, a + 1, b)

(* A stretch is a text of its length, made of the sequence's bytes.        *)
LEMMA SliceFacts ==
  ASSUME NEW s \in Text, NEW a \in 0..Len(s), NEW b \in a..Len(s)
  PROVE  /\ Slice(s, a, b) \in Text /\ Len(Slice(s, a, b)) = b - a
         /\ \A i \in 1..b - a : Slice(s, a, b)[i] = s[a + i]
<1>1. s \in Seq(Bytes) /\ Len(s) \in Nat BY LenProperties, Zenon DEF Text
<1>2. a + 1 \in Int /\ b \in Int /\ \A i \in a + 1..b : s[i] \in Bytes BY <1>1
<1>3. /\ SubSeq(s, a + 1, b) \in Seq(Bytes)
      /\ Len(SubSeq(s, a + 1, b)) = IF a + 1 <= b THEN b - (a + 1) + 1 ELSE 0
      /\ \A i \in 1..b - (a + 1) + 1 : SubSeq(s, a + 1, b)[i] = s[(a + 1) + i - 1]
  BY <1>2, SubSeqProperties
<1>4. Len(SubSeq(s, a + 1, b)) = b - a BY <1>1, <1>3
<1>5. \A i \in 1..b - a : SubSeq(s, a + 1, b)[i] = s[a + i] BY <1>1, <1>3
<1> QED BY <1>3, <1>4, <1>5, Zenon DEF Slice, Text

(* Two texts with the same bytes are the same.                             *)
LEMMA SameText ==
  ASSUME NEW s \in Text, NEW t \in Text, Len(s) = Len(t),
         \A i \in 1..Len(s) : s[i] = t[i]
  PROVE  s = t
<1>1. s \in Seq(Bytes) /\ t \in Seq(Bytes) BY Zenon DEF Text
<1> QED BY <1>1, SeqEqual

(* A stretch of a stretch.                                                 *)
LEMMA SliceOfSlice ==
  ASSUME NEW s \in Text, NEW a \in 0..Len(s), NEW b \in a..Len(s),
         NEW x \in 0..b - a, NEW y \in x..b - a
  PROVE  Slice(Slice(s, a, b), x, y) = Slice(s, a + x, a + y)
<1>0. Len(s) \in Nat BY LenProperties, Zenon DEF Text
<1>1. PICK u \in Text : /\ u = Slice(s, a, b) /\ Len(u) = b - a
                        /\ \A i \in 1..b - a : u[i] = s[a + i]
  BY SliceFacts, Zenon
<1>2. PICK v \in Text : /\ v = Slice(u, x, y) /\ Len(v) = y - x
                        /\ \A i \in 1..y - x : v[i] = u[x + i]
  <2>1. x \in 0..Len(u) /\ y \in x..Len(u) BY <1>1
  <2> QED BY <2>1, SliceFacts, Zenon
<1>3. PICK w \in Text : /\ w = Slice(s, a + x, a + y) /\ Len(w) = (a + y) - (a + x)
                        /\ \A i \in 1..(a + y) - (a + x) : w[i] = s[(a + x) + i]
  <2>1. a + x \in 0..Len(s) /\ a + y \in (a + x)..Len(s) BY <1>0
  <2> QED BY <2>1, SliceFacts, Zenon
<1>4. Len(v) = Len(w) /\ Len(v) = y - x /\ (a + y) - (a + x) = y - x BY <1>2, <1>3
<1>5. ASSUME NEW i \in 1..y - x PROVE v[i] = w[i]
  <2>1. x + i \in 1..b - a /\ a + (x + i) = (a + x) + i BY <1>0
  <2>2. v[i] = u[x + i] BY <1>2
  <2>3. u[x + i] = s[a + (x + i)] BY <1>1, <2>1
  <2>4. w[i] = s[(a + x) + i] BY <1>3, <1>4
  <2> QED BY <2>1, <2>2, <2>3, <2>4
<1>6. v = w BY <1>4, <1>5, SameText
<1> QED BY <1>1, <1>2, <1>3, <1>6, Zenon

(* Two stretches that meet are one.                                        *)
LEMMA SlicesMeet ==
  ASSUME NEW s \in Text, NEW a \in 0..Len(s), NEW b \in a..Len(s), NEW c \in b..Len(s)
  PROVE  Slice(s, a, b) \o Slice(s, b, c) = Slice(s, a, c)
<1>1. s \in Seq(Bytes) BY Zenon DEF Text
<1>2. a + 1 \in 1..Len(s) + 1 /\ b \in (a + 1) - 1..Len(s) /\ c \in b..Len(s)
  BY <1>1
<1>3. SubSeq(s, a + 1, b) \o SubSeq(s, b + 1, c) = SubSeq(s, a + 1, c)
  BY <1>1, <1>2, ConcatAdjacentSubSeq
<1> QED BY <1>3, Zenon DEF Slice

(* Joining texts gives texts, and is associative; nothing joined to a text *)
(* leaves it.                                                              *)
LEMMA Joins ==
  /\ \A x, y \in Text : x \o y \in Text /\ Len(x \o y) = Len(x) + Len(y)
  /\ \A x, y, z \in Text : (x \o y) \o z = x \o (y \o z)
  /\ <<>> \in Text /\ \A x \in Text : x \o <<>> = x /\ <<>> \o x = x
<1>1. ASSUME NEW x \in Text, NEW y \in Text PROVE x \o y \in Text /\ Len(x \o y) = Len(x) + Len(y)
  <2>1. x \in Seq(Bytes) /\ y \in Seq(Bytes) BY Zenon DEF Text
  <2>2. x \o y \in Seq(Bytes) /\ Len(x \o y) = Len(x) + Len(y) BY <2>1, ConcatProperties
  <2> QED BY <2>2, Zenon DEF Text
<1>2. ASSUME NEW x \in Text, NEW y \in Text, NEW z \in Text PROVE (x \o y) \o z = x \o (y \o z)
  <2>1. x \in Seq(Bytes) /\ y \in Seq(Bytes) /\ z \in Seq(Bytes) BY Zenon DEF Text
  <2> QED BY <2>1, ConcatAssociative
<1>3. <<>> \in Text BY Zenon, EmptySeq DEF Text
<1>4. ASSUME NEW x \in Text PROVE x \o <<>> = x /\ <<>> \o x = x
  <2>1. x \in Seq(Bytes) BY Zenon DEF Text
  <2> QED BY <2>1, ConcatEmptySeq
<1> QED BY <1>1, <1>2, <1>3, <1>4, Zenon

Whole(r) == r.header \o r.body

(* A response is the header, and from there on the body.                   *)
LEMMA Response ==
  ASSUME NEW r \in Responses
  PROVE  /\ r.header \in Text /\ r.body \in Text /\ Whole(r) \in Text
         /\ Len(r.header) \in Nat /\ Len(r.body) \in Nat
         /\ Len(Whole(r)) = Len(r.header) + Len(r.body)
         /\ Slice(Whole(r), 0, Len(r.header)) = r.header
         /\ Slice(Whole(r), Len(r.header), Len(Whole(r))) = r.body
<1>1. r.header \in Seq(Bytes) /\ r.body \in Seq(Bytes) BY ServerAssumption
<1>2. PICK h \in Text, b \in Text : h = r.header /\ b = r.body BY <1>1, Zenon DEF Text
<1>3. Len(h) \in Nat /\ Len(b) \in Nat BY LenProperties, Zenon DEF Text
<1>4. PICK st \in Text : st = h \o b /\ Len(st) = Len(h) + Len(b) BY Joins, Zenon
<1>5. /\ \A i \in 1..Len(h) : st[i] = h[i]
      /\ \A i \in 1..Len(b) : st[Len(h) + i] = b[i]
  <2>1. h \in Seq(Bytes) /\ b \in Seq(Bytes) BY Zenon DEF Text
  <2>2. PICK u : u = h \o b OBVIOUS
  <2>3. /\ \A i \in 1..Len(h) : u[i] = h[i]
        /\ \A i \in 1..Len(b) : u[Len(h) + i] = b[i]
    BY <1>3, <2>1, <2>2
  <2> QED BY <1>4, <2>2, <2>3, Zenon
<1>6. Slice(st, 0, Len(h)) = h
  <2>1. PICK u \in Text : /\ u = Slice(st, 0, Len(h)) /\ Len(u) = Len(h) - 0
                          /\ \A i \in 1..Len(h) - 0 : u[i] = st[0 + i]
    <3>1. 0 \in 0..Len(st) /\ Len(h) \in 0..Len(st) BY <1>3, <1>4
    <3> QED BY <3>1, SliceFacts, Zenon
  <2>2. Len(u) = Len(h) /\ \A i \in 1..Len(u) : u[i] = h[i]
    <3>1. Len(h) - 0 = Len(h) /\ \A i \in 1..Len(h) : 0 + i = i BY <1>3
    <3> QED BY <1>5, <2>1, <3>1, Zenon
  <2>3. u = h BY <2>2, SameText
  <2> QED BY <2>1, <2>3
<1>7. Slice(st, Len(h), Len(st)) = b
  <2>1. PICK u \in Text : /\ u = Slice(st, Len(h), Len(st)) /\ Len(u) = Len(st) - Len(h)
                          /\ \A i \in 1..Len(st) - Len(h) : u[i] = st[Len(h) + i]
    <3>1. Len(h) \in 0..Len(st) /\ Len(st) \in Len(h)..Len(st) BY <1>3, <1>4
    <3> QED BY <3>1, SliceFacts, Zenon
  <2>2. Len(st) - Len(h) = Len(b) BY <1>3, <1>4
  <2>3. Len(u) = Len(b) /\ \A i \in 1..Len(u) : u[i] = b[i] BY <1>5, <2>1, <2>2, Zenon
  <2>4. u = b BY <2>3, SameText
  <2> QED BY <2>1, <2>4
<1> QED BY <1>2, <1>3, <1>4, <1>6, <1>7, Zenon DEF Whole
-----------------------------------------------------------------------------
(* The header skip.                                                        *)
Sinks == [headerDone : BOOLEAN, body : Text]

\* What may have passed the sink when it was given the first q bytes of the
\* response r: h, nothing or a stretch of the body; all of the body there is,
\* if the header fits into the first window.
Passed(r, done, h, q) ==
  LET fits == Len(r.header) <= FlushWindow IN
  IF done
    THEN \E off \in Len(r.header)..q :
           h = Slice(Whole(r), off, q) /\ (fits => off = Len(r.header))
    ELSE h = <<>> /\ (fits => q = 0)

(* Where ParseResponse lets the body of a chunk begin: after an empty line *)
(* of the response, and so never before the end of its header; exactly     *)
(* there, if the chunk starts the response and holds the header.           *)
LEMMA BodyOffset ==
  ASSUME NEW r \in Responses, NEW st, st = Whole(r),
         NEW q \in 0..Len(st), NEW e \in q..Len(st), NEW k \in BodyStarts(Slice(st, q, e))
  PROVE  k \in 3..(e - q) + 1 /\ q + k >= Len(r.header) + 1
<1>1. PICK h : h = r.header OBVIOUS
<1>2. /\ h \in Text /\ Len(h) \in Nat /\ st \in Text /\ Len(st) \in Nat /\ Len(h) <= Len(st)
      /\ Slice(st, 0, Len(h)) = h
  <2>1. /\ r.header \in Text /\ Whole(r) \in Text
        /\ Len(r.header) \in Nat /\ Len(r.body) \in Nat
        /\ Len(Whole(r)) = Len(r.header) + Len(r.body)
        /\ Slice(Whole(r), 0, Len(r.header)) = r.header
    BY Response
  <2>2. PICK a \in Nat, b \in Nat : a = Len(r.header) /\ b = Len(r.body) BY <2>1
  <2>3. Len(st) = a + b BY <2>1, <2>2, Zenon
  <2>4. Len(st) \in Nat /\ a <= Len(st) BY <2>3
  <2> QED BY <1>1, <2>1, <2>2, <2>4, Zenon
<1>3. PICK u \in Text : /\ u = Slice(st, q, e) /\ Len(u) = e - q
                        /\ \A i \in 1..e - q : u[i] = st[q + i]
  BY <1>2, SliceFacts, Zenon
<1>4. k \in 3..Len(u) + 1 /\ u[k - 2] = "nl" /\ u[k - 1] = "nl"
  BY <1>3, Zenon DEF BodyStarts
<1>5. k \in 3..(e - q) + 1 BY <1>3, <1>4
<1>6. q + k >= Len(h) + 1
  <2> SUFFICES ASSUME q + k < Len(h) + 1 PROVE FALSE BY <1>2, <1>5
  <2>1. /\ k - 2 \in 1..e - q /\ k - 1 \in 1..e - q
        /\ q + k \in 3..Len(h) + 1 /\ q + k # Len(h) + 1
        /\ q + (k - 2) = (q + k) - 2 /\ q + (k - 1) = (q + k) - 1
        /\ (q + k) - 2 \in 1..Len(h) /\ (q + k) - 1 \in 1..Len(h)
    BY <1>2, <1>5
  <2>2. st[(q + k) - 2] = "nl" /\ st[(q + k) - 1] = "nl" BY <1>3, <1>4, <2>1
  <2>3. \A i \in 1..Len(h) : h[i] = st[i]
    <3>1. \A i \in 1..Len(h) - 0 : Slice(st, 0, Len(h))[i] = st[0 + i]
      <4>1. 0 \in 0..Len(st) /\ Len(h) \in 0..Len(st) BY <1>2
      <4> QED BY <1>2, <4>1, SliceFacts, Zenon
    <3>2. Len(h) - 0 = Len(h) /\ \A i \in 1..Len(h) : 0 + i = i BY <1>2
    <3> QED BY <1>2, <3>1, <3>2, Zenon
  <2>4. h[(q + k) - 2] = "nl" /\ h[(q + k) - 1] = "nl" BY <2>1, <2>2, <2>3, Zenon
  <2>5. q + k \in BodyStarts(h) BY <2>1, <2>4, Zenon DEF BodyStarts
  <2>6. BodyStarts(h) = {Len(h) + 1} BY <1>1, ServerAssumption
  <2> QED BY <2>1, <2>5, <2>6
<1> QED BY <1>1, <1>5, <1>6

(* The least of the places where the body may begin is the one taken.      *)
LEMMA LeastBodyStart ==
  ASSUME NEW raw, BodyStarts(raw) # {}, Len(raw) \in Nat
  PROVE  LET k == CHOOSE k \in BodyStarts(raw) : \A j \in BodyStarts(raw) : k <= j
         IN  k \in BodyStarts(raw) /\ \A j \in BodyStarts(raw) : k <= j
<1>1. BodyStarts(raw) \subseteq Nat BY DEF BodyStarts
<1>2. PICK k \in BodyStarts(raw) : \A j \in BodyStarts(raw) : ~(<<j, k>> \in OpToRel(<, Nat))
  BY <1>1, NatLessThanWellFounded, WFMin
<1>3. \A j \in BodyStarts(raw) : k <= j
  <2> SUFFICES ASSUME NEW j \in BodyStarts(raw), j < k PROVE FALSE BY <1>1
  <2>1. <<j, k>> \in OpToRel(<, Nat) BY <1>1 DEF OpToRel
  <2> QED BY <1>2, <2>1
<1> QED BY <1>3, Zenon

HoldsHeader(r, chunk) == /\ \E i \in DOMAIN chunk : chunk[i] = "sp"
                         /\ Len(r.header) + 1 \in BodyStarts(chunk)

(* A chunk that starts the response and holds the header is complete, and  *)
(* its body starts after the header (ParseResponse).                       *)
LEMMA HeaderInChunk ==
  ASSUME NEW r \in Responses, NEW e \in Len(r.header)..Len(Whole(r))
  PROVE  HoldsHeader(r, Slice(Whole(r), 0, e))
<1>1. PICK h, st : h = r.header /\ st = Whole(r) OBVIOUS
<1>2. /\ h \in Text /\ Len(h) \in Nat /\ st \in Text /\ Len(st) \in Nat
      /\ Slice(st, 0, Len(h)) = h
  BY <1>1, Response, LenProperties, Zenon DEF Text
<1>3. 0 \in 0..Len(st) /\ e \in 0..Len(st) /\ Len(h) \in 0..Len(st) /\ e - 0 = e
      /\ Len(h) - 0 = Len(h) /\ \A i \in 1..e : 0 + i = i /\ e \in Nat
  BY <1>1, <1>2
<1>4. PICK u \in Text : u = Slice(st, 0, e) /\ Len(u) = e /\ \A i \in 1..e : u[i] = st[i]
  <2>1. /\ Slice(st, 0, e) \in Text /\ Len(Slice(st, 0, e)) = e - 0
        /\ \A i \in 1..e - 0 : Slice(st, 0, e)[i] = st[0 + i]
    BY <1>2, <1>3, SliceFacts, Zenon
  <2>2. PICK u \in Text : u = Slice(st, 0, e) BY <2>1, Zenon
  <2>3. Len(u) = e BY <1>3, <2>1, <2>2, Zenon
  <2>4. ASSUME NEW i \in 1..e PROVE u[i] = st[i]
    <3>1. i \in 1..e - 0 /\ 0 + i = i BY <1>3
    <3> QED BY <2>1, <2>2, <3>1, Zenon
  <2> QED BY <2>2, <2>3, <2>4, Zenon
<1>5. \A i \in 1..Len(h) : h[i] = u[i]
  <2>1. \A i \in 1..Len(h) - 0 : Slice(st, 0, Len(h))[i] = st[0 + i]
    BY <1>2, <1>3, SliceFacts, Zenon
  <2>2. \A i \in 1..Len(h) : i \in 1..e BY <1>1, <1>2, <1>3
  <2> QED BY <1>2, <1>3, <1>4, <2>1, <2>2, Zenon
<1>6. DOMAIN h = 1..Len(h) /\ DOMAIN u = 1..e
  BY <1>2, <1>4, LenProperties, Zenon DEF Text
<1>7. 1..Len(h) \subseteq 1..e BY <1>1, <1>2, <1>3
<1>8. \E i \in DOMAIN u : u[i] = "sp"
  <2>1. \E i \in DOMAIN h : h[i] = "sp" BY <1>1, ServerAssumption
  <2> QED BY <1>5, <1>6, <1>7, <2>1, Zenon
<1>9. Len(h) + 1 \in BodyStarts(u)
  <2>1. Len(h) + 1 \in BodyStarts(h) BY <1>1, ServerAssumption
  <2>2. Len(h) + 1 \in 3..Len(h) + 1 /\ h[(Len(h) + 1) - 2] = "nl" /\ h[(Len(h) + 1) - 1] = "nl"
    BY <2>1, Zenon DEF BodyStarts
  <2>3. (Len(h) + 1) - 2 \in 1..Len(h) /\ (Len(h) + 1) - 1 \in 1..Len(h) /\ Len(h) + 1 \in 3..e + 1
    BY <1>1, <1>2, <1>3, <2>2
  <2>4. u[(Len(h) + 1) - 2] = "nl" /\ u[(Len(h) + 1) - 1] = "nl" BY <1>5, <2>2, <2>3, Zenon
  <2> QED BY <1>4, <2>3, <2>4, Zenon DEF BodyStarts
<1> QED BY <1>1, <1>4, <1>8, <1>9, Zenon DEF HoldsHeader

(* The next chunk of a response, the first window if it is the first and   *)
(* not the last: what has passed stays a stretch of the body               *)
(* (bodySink.Write).                                                       *)
LEMMA ChunkPasses ==
  ASSUME NEW r \in Responses, NEW sink \in Sinks, NEW h \in Text,
         NEW q \in 0..Len(Whole(r)), NEW e \in q..Len(Whole(r)), q < e,
         q = 0 => e >= FlushWindow \/ e = Len(Whole(r)),
         Passed(r, sink.headerDone, h \o sink.body, q),
         NEW chunk, chunk = Slice(Whole(r), q, e)
  PROVE  LET new == BodySinkWrite(sink, chunk)
         IN  new \in Sinks /\ Passed(r, new.headerDone, h \o new.body, e)
<1>1. PICK st \in Text, head \in Nat, len \in Nat :
        /\ st = Whole(r) /\ head = Len(r.header) /\ len = Len(st) /\ head <= len
  <2>1. Whole(r) \in Text /\ Len(r.header) \in Nat /\ Len(Whole(r)) \in Nat
        /\ Len(r.header) <= Len(Whole(r))
    <3>1. Whole(r) \in Text /\ Len(r.header) \in Nat /\ Len(r.body) \in Nat
          /\ Len(Whole(r)) = Len(r.header) + Len(r.body)
      BY Response, Zenon
    <3>2. PICK a \in Nat, b \in Nat : a = Len(r.header) /\ b = Len(r.body) BY <3>1, Zenon
    <3>3. Len(Whole(r)) = a + b BY <3>1, <3>2, Zenon
    <3>4. a + b \in Nat /\ a <= a + b OBVIOUS
    <3> QED BY <3>1, <3>2, <3>3, <3>4, Zenon
  <2> QED BY <2>1, Zenon
<1>2. /\ q \in 0..len /\ e \in q..len /\ q \in Nat /\ e \in Nat /\ e - q \in Nat
      /\ chunk \in Text /\ Len(chunk) = e - q /\ chunk = Slice(st, q, e)
  <2>1. q \in 0..len /\ e \in q..len /\ q \in Nat /\ e \in Nat /\ e - q \in Nat BY <1>1
  <2> QED BY <1>1, <2>1, SliceFacts, Zenon
<1>3. sink.headerDone \in BOOLEAN /\ sink.body \in Text BY DEF Sinks
<1>4. PICK new : new = BodySinkWrite(sink, chunk) OBVIOUS
<1>5. CASE sink.headerDone
  <2>1. new = [sink EXCEPT !.body = @ \o chunk] BY <1>4, <1>5, Zenon DEF BodySinkWrite
  <2>2. new.headerDone = TRUE /\ new.body = sink.body \o chunk /\ new \in Sinks
    <3>1. sink.body \o chunk \in Text BY <1>2, <1>3, Joins, Zenon
    <3>2. PICK b \in Text : b = sink.body \o chunk BY <3>1, Zenon
    <3>3. new = [sink EXCEPT !.body = b] BY <2>1, <3>2, Zenon
    <3>4. new.headerDone = sink.headerDone /\ new.body = b /\ new \in Sinks BY <3>3 DEF Sinks
    <3> QED BY <1>5, <3>2, <3>4, Zenon
  <2>3. PICK off \in head..q : /\ h \o sink.body = Slice(st, off, q)
                               /\ head <= FlushWindow => off = head
    BY <1>1, <1>5, Zenon DEF Passed
  <2>4. off \in 0..len /\ q \in off..len /\ e \in q..len /\ off \in head..e BY <1>1, <1>2
  <2>5. h \o new.body = Slice(st, off, e)
    <3>1. (h \o sink.body) \o chunk = h \o (sink.body \o chunk) BY <1>2, <1>3, Joins, Zenon
    <3>2. Slice(st, off, q) \o Slice(st, q, e) = Slice(st, off, e) BY <1>1, <2>4, SlicesMeet, Zenon
    <3>3. h \o new.body = (h \o sink.body) \o chunk BY <2>2, <3>1, Zenon
    <3> QED BY <1>2, <2>3, <3>2, <3>3, Zenon
  <2>6. Passed(r, new.headerDone, h \o new.body, e)
    BY <1>1, <2>2, <2>3, <2>4, <2>5, Zenon DEF Passed
  <2> QED BY <1>4, <2>2, <2>6, Zenon
<1>6. CASE ~sink.headerDone
  <2>1. h \o sink.body = <<>> /\ (head <= FlushWindow => q = 0)
    BY <1>1, <1>6, Zenon DEF Passed
  <2>2. head <= FlushWindow => q = 0 /\ head <= e
    BY <1>1, <1>2, <2>1, ConnAssumption
  <2>3. CASE ~ParseResponse(chunk).complete
    <3>1. new = sink BY <1>4, <1>6, <2>3, Zenon DEF BodySinkWrite
    <3>2. ~(head <= FlushWindow)
      <4> SUFFICES ASSUME head <= FlushWindow PROVE FALSE OBVIOUS
      <4>1. e \in head..len /\ chunk = Slice(st, 0, e) BY <1>1, <1>2, <2>2
      <4>2. /\ \E i \in DOMAIN chunk : chunk[i] = "sp"
            /\ head + 1 \in BodyStarts(chunk)
        <5>1. e \in Len(r.header)..Len(Whole(r)) BY <1>1, <4>1, Zenon
        <5>2. HoldsHeader(r, Slice(Whole(r), 0, e)) BY <5>1, HeaderInChunk, Zenon
        <5> QED BY <1>1, <4>1, <5>2, Zenon DEF HoldsHeader
      <4>3. BodyStarts(chunk) # {} BY <4>2, Zenon
      <4>4. ParseResponse(chunk).complete = TRUE
        <5>1. ParseResponse(chunk) =
                [complete |-> TRUE, bodyOff |-> CHOOSE k \in BodyStarts(chunk) :
                                                  \A j \in BodyStarts(chunk) : k <= j]
          BY <4>2, <4>3, Zenon DEF ParseResponse
        <5> QED BY <5>1
      <4> QED BY <2>3, <4>4
    <3>3. Passed(r, new.headerDone, h \o new.body, e)
      BY <1>1, <1>6, <2>1, <3>1, <3>2, Zenon DEF Passed
    <3> QED BY <1>4, <3>1, <3>3, Zenon
  <2>4. CASE ParseResponse(chunk).complete
    <3>1. PICK k : k = CHOOSE j \in BodyStarts(chunk) : \A i \in BodyStarts(chunk) : j <= i
      OBVIOUS
    <3>2. BodyStarts(chunk) # {} /\ ParseResponse(chunk) = [complete |-> TRUE, bodyOff |-> k]
      <4>1. CASE (\E i \in DOMAIN chunk : chunk[i] = "sp") /\ BodyStarts(chunk) # {}
        BY <3>1, <4>1, Zenon DEF ParseResponse
      <4>2. CASE ~((\E i \in DOMAIN chunk : chunk[i] = "sp") /\ BodyStarts(chunk) # {})
        <5>1. ParseResponse(chunk) = [complete |-> FALSE, bodyOff |-> 1]
          BY <4>2, Zenon DEF ParseResponse
        <5>2. ParseResponse(chunk).complete = FALSE BY <5>1
        <5> QED BY <2>4, <5>2
      <4> QED BY <4>1, <4>2, Zenon
    <3>3. k \in BodyStarts(chunk) /\ \A j \in BodyStarts(chunk) : k <= j
      <4>1. Len(chunk) \in Nat BY <1>2, Zenon
      <4> QED BY <3>1, <3>2, <4>1, LeastBodyStart, Zenon
    <3>4. k \in 3..(e - q) + 1 /\ q + k >= head + 1
      BY <1>1, <1>2, <3>3, BodyOffset, Zenon
    <3>5. PICK x \in 2..e - q : x = k - 1 /\ k = x + 1 BY <1>2, <3>4
    <3>6. new = [headerDone |-> TRUE, body |-> sink.body \o Slice(chunk, x, Len(chunk))]
      <4>1. ParseResponse(chunk).bodyOff = k BY <3>2
      <4> QED BY <1>4, <1>6, <2>4, <3>5, <4>1, Zenon DEF BodySinkWrite, Slice
    <3>7. Slice(chunk, x, Len(chunk)) = Slice(st, q + x, e) /\ Slice(chunk, x, Len(chunk)) \in Text
      <4>1. x \in 0..e - q /\ e - q \in x..e - q /\ q + (e - q) = e BY <1>2
      <4>2. Slice(Slice(st, q, e), x, e - q) = Slice(st, q + x, q + (e - q))
        BY <1>1, <1>2, <4>1, SliceOfSlice, Zenon
      <4>3. q + x \in 0..len /\ e \in q + x..len BY <1>2, <3>5
      <4>4. Slice(st, q + x, e) \in Text BY <1>1, <4>3, SliceFacts, Zenon
      <4> QED BY <1>2, <4>1, <4>2, <4>4, Zenon
    <3>8. PICK y \in Text : y = Slice(st, q + x, e) /\ y = Slice(chunk, x, Len(chunk))
      BY <3>7, Zenon
    <3>9. new.headerDone = TRUE /\ new.body = sink.body \o y /\ new \in Sinks
      <4>1. sink.body \o y \in Text BY <1>3, Joins, Zenon
      <4>2. PICK b \in Text : b = sink.body \o y BY <4>1, Zenon
      <4>3. new = [headerDone |-> TRUE, body |-> b] BY <3>6, <3>8, <4>2, Zenon
      <4>4. new.headerDone = TRUE /\ new.body = b /\ new \in Sinks BY <4>3 DEF Sinks
      <4> QED BY <4>2, <4>4, Zenon
    <3>10. h \o new.body = y
      <4>1. (h \o sink.body) \o y = h \o (sink.body \o y) BY <1>3, Joins, Zenon
      <4>2. <<>> \o y = y BY Joins, Zenon
      <4> QED BY <2>1, <3>9, <4>1, <4>2, Zenon
    <3>11. q + x \in head..e BY <1>1, <1>2, <3>4, <3>5
    <3>12. head <= FlushWindow => q + x = head
      <4> SUFFICES ASSUME head <= FlushWindow PROVE q + x = head OBVIOUS
      <4>1. e \in head..len /\ q = 0 BY <1>1, <1>2, <2>2
      <4>2. head + 1 \in BodyStarts(chunk)
        <5>1. e \in Len(r.header)..Len(Whole(r)) BY <1>1, <4>1, Zenon
        <5>2. HoldsHeader(r, Slice(Whole(r), 0, e)) BY <5>1, HeaderInChunk, Zenon
        <5> QED BY <1>1, <1>2, <4>1, <5>2, Zenon DEF HoldsHeader
      <4>3. k <= head + 1 BY <3>3, <4>2, Zenon
      <4> QED BY <1>1, <3>4, <3>5, <4>1, <4>3
    <3>13. Passed(r, new.headerDone, h \o new.body, e)
      BY <1>1, <3>8, <3>9, <3>10, <3>11, <3>12, Zenon DEF Passed
    <3> QED BY <1>4, <3>9, <3>13, Zenon
  <2> QED BY <2>3, <2>4, Zenon
<1> QED BY <1>3, <1>5, <1>6, Zenon

\* The writes are n consecutive chunks of the response r, cut at c[0] to c[n];
\* the first chunk of a response is a window, or all of it.
CutAt(r, writes, c, n) ==
  /\ n \in Nat /\ Len(writes) = n /\ c \in [0..n -> 0..Len(Whole(r))]
  /\ \A w \in 1..n : /\ c[w - 1] < c[w] /\ writes[w] = Slice(Whole(r), c[w - 1], c[w])
                     /\ c[w - 1] = 0 => c[w] >= FlushWindow \/ c[w] = Len(Whole(r))

(* All the writes of a step pass the sink one after the other: by least    *)
(* counterexample over the number of writes, which also gives the function *)
(* that Drained defines recursively (Conn.acceptPayload's writes).         *)
LEMMA DrainedPasses ==
  ASSUME NEW r \in Responses, NEW sink \in Sinks, NEW h \in Text,
         NEW writes, NEW c, NEW n, CutAt(r, writes, c, n),
         Passed(r, sink.headerDone, h \o sink.body, c[0])
  PROVE  /\ Drained(sink, writes) \in Sinks
         /\ Passed(r, Drained(sink, writes).headerDone, h \o Drained(sink, writes).body, c[n])
<1> DEFINE Upto(m, g) ==
             /\ g = [w \in 0..m |-> IF w = 0 THEN sink ELSE BodySinkWrite(g[w - 1], writes[w])]
             /\ \A w \in 0..m : g[w] \in Sinks
             /\ Passed(r, g[m].headerDone, h \o g[m].body, c[m])
           Bad == {m \in 0..n : ~\E g : Upto(m, g)}
<1>1. n \in Nat /\ Len(writes) = n BY Zenon DEF CutAt
<1>2. \E g : Upto(0, g)
  <2>1. PICK g : g = [w \in 0..0 |-> sink] OBVIOUS
  <2>2. 0 \in 0..0 /\ \A w \in 0..0 : w = 0 OBVIOUS
  <2>3. g[0] = sink /\ \A w \in 0..0 : g[w] = sink BY <2>1, <2>2
  <2>4. g = [w \in 0..0 |-> IF w = 0 THEN sink ELSE BodySinkWrite(g[w - 1], writes[w])]
    <3>1. \A w \in 0..0 : sink = IF w = 0 THEN sink ELSE BodySinkWrite(g[w - 1], writes[w])
      BY <2>2, Zenon
    <3>2. [w \in 0..0 |-> sink] = [w \in 0..0 |-> IF w = 0 THEN sink ELSE BodySinkWrite(g[w - 1], writes[w])]
      BY <3>1, Zenon
    <3> QED BY <2>1, <3>2, Zenon
  <2>5. Passed(r, g[0].headerDone, h \o g[0].body, c[0]) BY <2>3, Zenon
  <2> QED BY <2>3, <2>4, <2>5, Zenon
<1>3. ASSUME NEW m \in 0..n, m + 1 \in 0..n, NEW g, Upto(m, g)
      PROVE  \E f : Upto(m + 1, f)
  <2>1. PICK p \in Nat : p = m + 1 /\ p - 1 = m /\ p # 0 /\ p \in 1..n BY <1>1, <1>3
  <2>2. PICK new : new = BodySinkWrite(g[m], writes[p]) OBVIOUS
  <2>3. g[m] \in Sinks /\ Passed(r, g[m].headerDone, h \o g[m].body, c[m])
    <3>1. m \in 0..m OBVIOUS
    <3> QED BY <1>3, <3>1, Zenon
  <2>4. new \in Sinks /\ Passed(r, new.headerDone, h \o new.body, c[p])
    <3>1. /\ c[m] \in 0..Len(Whole(r)) /\ c[p] \in 0..Len(Whole(r)) /\ c[m] < c[p]
          /\ writes[p] = Slice(Whole(r), c[m], c[p])
          /\ c[m] = 0 => c[p] >= FlushWindow \/ c[p] = Len(Whole(r))
      <4>1. p \in 1..n /\ p \in 0..n /\ m \in 0..n BY <2>1
      <4> QED BY <2>1, <4>1, Zenon DEF CutAt
    <3>2. PICK q \in 0..Len(Whole(r)), e \in 0..Len(Whole(r)) : q = c[m] /\ e = c[p]
      BY <3>1, Zenon
    <3>3. e \in q..Len(Whole(r)) BY <3>1, <3>2
    <3>4. PICK s \in Sinks : s = g[m] BY <2>3, Zenon
    <3>5. PICK chunk : chunk = writes[p] /\ chunk = Slice(Whole(r), q, e) BY <3>1, <3>2, Zenon
    <3>6. /\ q < e /\ (q = 0 => e >= FlushWindow \/ e = Len(Whole(r)))
          /\ Passed(r, s.headerDone, h \o s.body, q)
      BY <2>3, <3>1, <3>2, <3>4, Zenon
    <3>7. /\ BodySinkWrite(s, chunk) \in Sinks
          /\ Passed(r, BodySinkWrite(s, chunk).headerDone, h \o BodySinkWrite(s, chunk).body, e)
      BY <3>3, <3>5, <3>6, ChunkPasses
    <3> QED BY <2>2, <3>2, <3>4, <3>5, <3>7, Zenon
  <2>5. PICK f : f = [w \in 0..p |-> IF w = p THEN new ELSE g[w]] OBVIOUS
  <2>6. f[p] = new /\ \A w \in 0..m : f[w] = g[w] /\ w # p /\ w \in 0..p
    BY <2>1, <2>5
  <2>7. \A w \in 0..p : w = p \/ w \in 0..m BY <2>1
  <2>8. \A w \in 0..p : f[w] \in Sinks BY <1>3, <2>4, <2>6, <2>7, Zenon
  <2>9. \A w \in 0..p : f[w] = IF w = 0 THEN sink ELSE BodySinkWrite(f[w - 1], writes[w])
    <3> SUFFICES ASSUME NEW w \in 0..p
                 PROVE  f[w] = IF w = 0 THEN sink ELSE BodySinkWrite(f[w - 1], writes[w])
      OBVIOUS
    <3>1. CASE w = p
      <4>1. f[m] = g[m]
        <5>1. m \in 0..m OBVIOUS
        <5> QED BY <2>6, <5>1, Zenon
      <4> QED BY <2>1, <2>2, <2>6, <3>1, <4>1, Zenon
    <3>2. CASE w \in 0..m
      <4>1. g[w] = IF w = 0 THEN sink ELSE BodySinkWrite(g[w - 1], writes[w])
        BY <1>3, <3>2, Zenon
      <4>2. CASE w = 0 BY <2>6, <3>2, <4>1, <4>2, Zenon
      <4>3. CASE w # 0
        <5>1. w - 1 \in 0..m BY <3>2, <4>3
        <5>2. f[w - 1] = g[w - 1] BY <2>6, <5>1, Zenon
        <5> QED BY <2>6, <3>2, <4>1, <4>3, <5>2, Zenon
      <4> QED BY <4>2, <4>3, Zenon
    <3> QED BY <2>7, <3>1, <3>2, Zenon
  <2>10. f = [w \in 0..p |-> IF w = 0 THEN sink ELSE BodySinkWrite(f[w - 1], writes[w])]
    <3>1. f = [w \in 0..p |-> f[w]] BY <2>5, Zenon
    <3>2. [w \in 0..p |-> f[w]] = [w \in 0..p |-> IF w = 0 THEN sink ELSE BodySinkWrite(f[w - 1], writes[w])]
      BY <2>9, Zenon
    <3> QED BY <3>1, <3>2, Zenon
  <2>11. Upto(p, f) BY <2>4, <2>6, <2>8, <2>10, Zenon
  <2> QED BY <2>1, <2>11, Zenon
<1>4. Bad = {}
  <2> SUFFICES ASSUME Bad # {} PROVE FALSE OBVIOUS
  <2>1. Bad \subseteq Nat BY <1>1
  <2>2. PICK lo \in Bad : \A m \in Bad : ~(<<m, lo>> \in OpToRel(<, Nat))
    <3> HIDE DEF Bad
    <3> QED BY <2>1, NatLessThanWellFounded, WFMin
  <2>3. lo \in 0..n /\ ~\E g : Upto(lo, g) OBVIOUS
  <2> HIDE DEF Upto
  <2>4. lo # 0 BY <1>2, <2>3, Zenon
  <2>5. PICK m \in 0..n : lo = m + 1 /\ m \in Nat /\ lo \in Nat /\ m < lo BY <1>1, <2>3, <2>4
  <2>6. <<m, lo>> \in OpToRel(<, Nat) BY <2>5 DEF OpToRel
  <2>7. m \notin Bad
    <3> HIDE DEF Bad
    <3> QED BY <2>2, <2>6, Zenon
  <2>8. PICK g : Upto(m, g) BY <2>7
  <2>9. \E f : Upto(lo, f) BY <1>3, <2>3, <2>5, <2>8, Zenon
  <2> QED BY <2>3, <2>9, Zenon
<1>5. PICK g : Upto(n, g)
  <2>1. n \in 0..n BY <1>1
  <2> HIDE DEF Upto
  <2> QED BY <1>4, <2>1
<1>6. \E f : /\ f = [w \in 0..Len(writes) |-> IF w = 0 THEN sink ELSE BodySinkWrite(f[w - 1], writes[w])]
             /\ Drained(sink, writes) = f[Len(writes)]
  <2> DEFINE E(f) == f = [w \in 0..Len(writes) |->
                            IF w = 0 THEN sink ELSE BodySinkWrite(f[w - 1], writes[w])]
  <2>1. PICK f : f = CHOOSE k : E(k) OBVIOUS
  <2>2. E(g) BY <1>1, <1>5, Zenon
  <2>3. Drained(sink, writes) = f[Len(writes)] BY <2>1, Zenon DEF Drained
  <2>4. E(f)
    <3> HIDE DEF E
    <3> QED BY <2>1, <2>2, Zenon
  <2> QED BY <2>3, <2>4, Zenon
<1>7. PICK f : /\ f = [w \in 0..n |-> IF w = 0 THEN sink ELSE BodySinkWrite(f[w - 1], writes[w])]
               /\ Drained(sink, writes) = f[n]
  BY <1>1, <1>6, Zenon
<1>8. f[n] = g[n]
  <2> DEFINE Diff == {w \in 0..n : f[w] # g[w]}
  <2>1. /\ \A w \in 0..n : f[w] = IF w = 0 THEN sink ELSE BodySinkWrite(f[w - 1], writes[w])
        /\ \A w \in 0..n : g[w] = IF w = 0 THEN sink ELSE BodySinkWrite(g[w - 1], writes[w])
    BY <1>5, <1>7, Zenon
  <2>2. Diff = {}
    <3> SUFFICES ASSUME Diff # {} PROVE FALSE OBVIOUS
    <3>1. Diff \subseteq Nat BY <1>1
    <3>2. PICK lo \in Diff : \A w \in Diff : ~(<<w, lo>> \in OpToRel(<, Nat))
      <4> HIDE DEF Diff
      <4> QED BY <3>1, NatLessThanWellFounded, WFMin
    <3>3. lo \in 0..n /\ f[lo] # g[lo] OBVIOUS
    <3>4. lo # 0 BY <2>1, <3>3, Zenon
    <3>5. PICK m \in 0..n : m = lo - 1 /\ m \in Nat /\ lo \in Nat /\ m < lo BY <1>1, <3>3, <3>4
    <3>6. <<m, lo>> \in OpToRel(<, Nat) BY <3>5 DEF OpToRel
    <3>7. f[m] = g[m]
      <4>1. m \notin Diff
        <5> HIDE DEF Diff
        <5> QED BY <3>2, <3>6, Zenon
      <4> QED BY <4>1
    <3> QED BY <2>1, <3>3, <3>4, <3>5, <3>7, Zenon
  <2>3. n \in 0..n BY <1>1
  <2> QED BY <2>2, <2>3
<1>9. g[n] \in Sinks /\ Passed(r, g[n].headerDone, h \o g[n].body, c[n])
  <2>1. n \in 0..n BY <1>1
  <2> QED BY <1>5, <2>1, Zenon
<1> QED BY <1>7, <1>8, <1>9, Zenon
-----------------------------------------------------------------------------
(* The window buffer.                                                      *)

(* Fewer windows are no more bytes; one more window is a window more.      *)
LEMMA WindowsGrow ==
  ASSUME NEW a \in Nat, NEW b \in Nat, a <= b, NEW n \in Nat
  PROVE  a * n \in Nat /\ b * n \in Nat /\ a * n <= b * n /\ (a + 1) * n = a * n + n
<1>1. PICK d \in Nat : b = a + d BY b - a \in Nat
<1>2. b * n = a * n + d * n /\ d * n \in Nat /\ a * n \in Nat /\ (a + 1) * n = a * n + n BY <1>1
<1> QED BY <1>2

(* As many windows as there are, and less than one more.                   *)
LEMMA Quotient ==
  ASSUME NEW t \in Nat, NEW d \in Nat \ {0}
  PROVE  /\ t \div d \in Nat /\ (t \div d) * d \in 0..t /\ t - (t \div d) * d \in 0..d - 1
<1>1. t \div d \in Nat /\ t % d \in 0..d - 1 /\ t = d * (t \div d) + (t % d) OBVIOUS
<1>2. PICK k \in Nat, m \in 0..d - 1 : k = t \div d /\ m = t % d BY <1>1
<1>3. PICK kd \in Nat : kd = k * d OBVIOUS
<1>4. t = kd + m BY <1>1, <1>2, <1>3
<1>5. kd \in 0..t /\ t - kd \in 0..d - 1 BY <1>4
<1> QED BY <1>1, <1>2, <1>3, <1>5

(* And that number of windows is the only one.                             *)
LEMMA OneQuotient ==
  ASSUME NEW t \in Nat, NEW d \in Nat \ {0}, NEW q \in Nat, q * d <= t, t - q * d < d
  PROVE  t \div d = q
<1>1. PICK k \in Nat : k = t \div d BY Quotient
<1>2. PICK kd \in Nat, qd \in Nat : kd = k * d /\ qd = q * d OBVIOUS
<1>3. kd <= t /\ t - kd < d /\ qd <= t /\ t - qd < d
  <2>1. kd \in 0..t /\ t - kd \in 0..d - 1 BY <1>1, <1>2, Quotient
  <2> QED BY <1>2, <2>1
<1>4. ~(k < q)
  <2> SUFFICES ASSUME k < q PROVE FALSE OBVIOUS
  <2>1. k + 1 \in Nat /\ k + 1 <= q OBVIOUS
  <2>2. PICK x \in Nat : x = (k + 1) * d OBVIOUS
  <2>3. x <= qd /\ x = kd + d BY <1>2, <2>1, <2>2, WindowsGrow
  <2> QED BY <1>3, <2>3
<1>5. ~(q < k)
  <2> SUFFICES ASSUME q < k PROVE FALSE OBVIOUS
  <2>1. q + 1 \in Nat /\ q + 1 <= k OBVIOUS
  <2>2. PICK x \in Nat : x = (q + 1) * d OBVIOUS
  <2>3. x <= kd /\ x = qd + d BY <1>2, <2>1, <2>2, WindowsGrow
  <2> QED BY <1>3, <2>3
<1> QED BY <1>1, <1>4, <1>5

Conn == [state : ConnStates, port : Nat, sndNxt : 0..SeqSpace - 1, rcvNxt : 0..SeqSpace - 1,
         flushBuf : Text]

\* Of the response r, t bytes have come in and f, full windows, went out; the
\* buffer holds what is between.
BufferAt(r, buf, f, t) ==
  /\ f \in 0..Len(Whole(r)) /\ t \in f..Len(Whole(r)) /\ buf = Slice(Whole(r), f, t)
  /\ f = (t \div FlushWindow) * FlushWindow

\* The k windows from f to g went out, and the buffer of the connection c holds
\* what is between g and e.
Windows(r, c, a, f, e, k, g) ==
  /\ BufferAt(r, a.conn.flushBuf, g, e) /\ g = f + k * FlushWindow
  /\ a.conn = [c EXCEPT !.flushBuf = a.conn.flushBuf] /\ a.conn.flushBuf \in Text
  /\ a.writes \in Seq(Text) /\ Len(a.writes) = k
  /\ \A w \in 1..k : /\ f + (w - 1) * FlushWindow \in 0..g /\ f + w * FlushWindow \in 0..g
                     /\ f + w * FlushWindow = (f + (w - 1) * FlushWindow) + FlushWindow
                     /\ a.writes[w] = Slice(Whole(r), f + (w - 1) * FlushWindow,
                                            f + w * FlushWindow)

(* The bytes that follow are taken: the full windows go out, the rest      *)
(* stays (Conn.acceptPayload).                                             *)
LEMMA PayloadAccepted ==
  ASSUME NEW r \in Responses, NEW c \in Conn, NEW f, NEW t, BufferAt(r, c.flushBuf, f, t),
         NEW e \in t..Len(Whole(r)), NEW data, data = Slice(Whole(r), t, e)
  PROVE  \E k \in Nat, g \in Nat : Windows(r, c, acceptPayload(c, data), f, e, k, g)
<1>1. PICK st \in Text, len \in Nat : st = Whole(r) /\ len = Len(st)
  <2>1. Whole(r) \in Text BY Response, Zenon
  <2>2. Len(Whole(r)) \in Nat BY <2>1, LenProperties, Zenon DEF Text
  <2> QED BY <2>1, <2>2, Zenon
<1>2. PICK n \in Nat \ {0} : n = FlushWindow BY ConnAssumption
<1>3. /\ f \in 0..len /\ t \in f..len /\ e \in t..len /\ c.flushBuf = Slice(st, f, t)
      /\ data = Slice(st, t, e) /\ f \in Nat /\ t \in Nat /\ e \in Nat /\ t \div n \in Nat
      /\ f = (t \div n) * n
  <2>1. /\ f \in 0..len /\ t \in f..len /\ e \in t..len /\ c.flushBuf = Slice(st, f, t)
        /\ data = Slice(st, t, e) /\ f = (t \div n) * n
    BY <1>1, <1>2, Zenon DEF BufferAt
  <2>2. f \in Nat /\ t \in Nat /\ e \in Nat BY <2>1
  <2>3. t \div n \in Nat BY <2>2, Quotient
  <2> QED BY <2>1, <2>2, <2>3
<1>4. PICK buf \in Text : buf = c.flushBuf \o data /\ buf = Slice(st, f, e) /\ Len(buf) = e - f
  <2>1. Slice(st, f, t) \o Slice(st, t, e) = Slice(st, f, e) BY <1>1, <1>3, SlicesMeet, Zenon
  <2>2. f \in 0..Len(st) /\ e \in f..Len(st) BY <1>1, <1>3
  <2>3. Slice(st, f, e) \in Text /\ Len(Slice(st, f, e)) = e - f BY <2>2, SliceFacts, Zenon
  <2> QED BY <1>3, <2>1, <2>3, Zenon
<1>5. PICK k \in Nat, kn \in Nat : k = (e - f) \div n /\ kn = k * n /\ kn <= e - f /\ (e - f) - kn < n
  <2>1. e - f \in Nat BY <1>3
  <2>2. PICK k \in Nat : k = (e - f) \div n BY <2>1, Quotient
  <2>3. PICK kn \in Nat : kn = k * n OBVIOUS
  <2>4. kn \in 0..e - f /\ (e - f) - kn \in 0..n - 1 BY <2>1, <2>2, <2>3, Quotient
  <2> QED BY <2>1, <2>2, <2>3, <2>4
<1>6. PICK g \in Nat : g = f + kn /\ g \in f..e /\ e - g < n BY <1>3, <1>5
<1>7. PICK a : a = acceptPayload(c, data) OBVIOUS
<1>8. /\ a.conn = [c EXCEPT !.flushBuf = Slice(buf, kn, e - f)]
      /\ a.writes = [w \in 1..k |-> Slice(buf, (w - 1) * n, w * n)]
  <2>1. a = [conn |-> [c EXCEPT !.flushBuf = Slice(buf, kn, e - f)],
             writes |-> [w \in 1..k |-> Slice(buf, (w - 1) * n, w * n)]]
    BY <1>2, <1>4, <1>5, <1>7, Zenon DEF acceptPayload, Slice
  <2> QED BY <2>1
<1>9. PICK left \in Text : left = Slice(buf, kn, e - f) /\ left = Slice(st, g, e)
  <2>1. kn \in 0..e - f /\ e - f \in kn..e - f /\ f + kn = g /\ f + (e - f) = e
        /\ f \in 0..Len(st) /\ e \in f..Len(st) /\ g \in 0..Len(st) /\ e \in g..Len(st)
    BY <1>1, <1>3, <1>5, <1>6
  <2>2. Slice(Slice(st, f, e), kn, e - f) = Slice(st, f + kn, f + (e - f))
    BY <2>1, SliceOfSlice, Zenon
  <2>3. Slice(st, g, e) \in Text BY <2>1, SliceFacts, Zenon
  <2> QED BY <1>4, <2>1, <2>2, <2>3, Zenon
<1>10. a.conn.flushBuf = left /\ a.conn = [c EXCEPT !.flushBuf = left]
  <2>1. a.conn = [c EXCEPT !.flushBuf = left] BY <1>8, <1>9, Zenon
  <2> QED BY <2>1 DEF Conn
<1>11. BufferAt(r, left, g, e)
  <2>1. g = (e \div n) * n
    <3>1. PICK q \in Nat : q = t \div n BY <1>3
    <3>2. PICK qn \in Nat : qn = q * n /\ qn = f BY <1>3, <3>1
    <3>3. (q + k) * n = qn + kn BY <1>5, <3>2
    <3>4. PICK p \in Nat : p = q + k OBVIOUS
    <3>5. p * n = g BY <1>6, <3>2, <3>3, <3>4
    <3>6. p * n <= e /\ e - p * n < n BY <1>3, <1>6, <3>5
    <3>7. e \div n = p BY <1>3, <3>6, OneQuotient
    <3> QED BY <3>5, <3>7
  <2>2. g \in 0..len /\ e \in g..len BY <1>3, <1>6
  <2> QED BY <1>1, <1>2, <1>9, <2>1, <2>2, Zenon DEF BufferAt
<1>12. ASSUME NEW w \in 1..k
       PROVE  \E x \in Nat, y \in Nat : /\ x = (w - 1) * n /\ y = w * n /\ y = x + n /\ y <= kn
                                        /\ x \in 0..e - f /\ y \in x..e - f
                                        /\ f + x \in 0..g /\ f + y \in 0..g /\ f + y = (f + x) + n
  <2>1. PICK x \in Nat, y \in Nat : x = (w - 1) * n /\ y = w * n /\ y = x + n /\ y <= kn
    <3>1. PICK v \in Nat : v = w - 1 /\ v + 1 = w /\ w \in Nat /\ w <= k /\ v <= k BY <1>5
    <3>2. v * n \in Nat /\ w * n \in Nat /\ (v + 1) * n = v * n + n BY <3>1, WindowsGrow
    <3>3. w * n <= kn BY <1>5, <3>1, WindowsGrow
    <3> QED BY <3>1, <3>2, <3>3
  <2>2. x \in 0..e - f /\ y \in x..e - f /\ f + x \in 0..g /\ f + y \in 0..g /\ f + y = (f + x) + n
    <3>1. PICK F \in Nat, E \in Nat : F = f /\ E = e BY <1>3
    <3>2. kn <= E - F /\ g = F + kn BY <1>5, <1>6, <3>1
    <3>3. y = x + n /\ y <= kn BY <2>1
    <3>4. x \in 0..E - F /\ y \in x..E - F BY <3>2, <3>3
    <3>5. F + x \in 0..g /\ F + y \in 0..g /\ F + y = (F + x) + n BY <3>2, <3>3
    <3> QED BY <3>1, <3>4, <3>5
  <2> QED BY <2>1, <2>2, Zenon
<1>13. ASSUME NEW w \in 1..k
       PROVE  /\ f + (w - 1) * n \in 0..g /\ f + w * n \in 0..g
              /\ f + w * n = (f + (w - 1) * n) + n
              /\ a.writes[w] = Slice(st, f + (w - 1) * n, f + w * n)
  <2>1. PICK x \in Nat, y \in Nat : /\ x = (w - 1) * n /\ y = w * n /\ y = x + n /\ y <= kn
                                    /\ x \in 0..e - f /\ y \in x..e - f
                                    /\ f + x \in 0..g /\ f + y \in 0..g /\ f + y = (f + x) + n
    BY <1>12, Zenon
  <2>2. a.writes[w] = Slice(buf, x, y) BY <1>8, <2>1, Zenon
  <2>3. Slice(Slice(st, f, e), x, y) = Slice(st, f + x, f + y)
    <3>1. f \in 0..Len(st) /\ e \in f..Len(st) BY <1>1, <1>3
    <3> QED BY <2>1, <3>1, SliceOfSlice, Zenon
  <2> QED BY <1>4, <2>1, <2>2, <2>3, Zenon
<1>15. a.writes \in Seq(Text) /\ Len(a.writes) = k
  <2>1. ASSUME NEW w \in 1..k PROVE Slice(buf, (w - 1) * n, w * n) \in Text
    <3>1. PICK x \in Nat, y \in Nat : /\ x = (w - 1) * n /\ y = w * n
                                      /\ x \in 0..e - f /\ y \in x..e - f
      BY <1>12, Zenon
    <3> QED BY <1>4, <3>1, SliceFacts, Zenon
  <2>2. PICK d, T : d = a.writes /\ T = Text OBVIOUS
  <2>3. d \in [1..k -> T] BY <1>8, <2>1, <2>2, Zenon
  <2>4. d \in Seq(T) /\ Len(d) = k BY <2>3
  <2> QED BY <2>2, <2>4
<1>14. Windows(r, c, a, f, e, k, g)
  BY <1>1, <1>2, <1>5, <1>6, <1>9, <1>10, <1>11, <1>15, <1>13, Zenon DEF Windows
<1> QED BY <1>7, <1>14, Zenon

\* The writes go out in n chunks, from f to e of the response r.
Out(r, writes, f, e) == \E c, n : CutAt(r, writes, c, n) /\ c[0] = f /\ c[n] = e

(* The windows that go out are chunks of the response.                     *)
LEMMA WindowsOut ==
  ASSUME NEW r \in Responses, NEW c, NEW a, NEW f, NEW e, NEW k \in Nat, NEW g \in Nat,
         Windows(r, c, a, f, e, k, g), f \in 0..Len(Whole(r))
  PROVE  Out(r, a.writes, f, g)
<1>1. PICK n \in Nat \ {0}, len \in Nat : n = FlushWindow /\ len = Len(Whole(r)) /\ f \in 0..len
  BY Response, ConnAssumption
<1>2. PICK cut : cut = [w \in 0..k |-> f + w * n] OBVIOUS
<1>3. g \in 0..len /\ g = f + k * n BY <1>1, Zenon DEF Windows, BufferAt
<1>4. ASSUME NEW w \in 1..k
      PROVE  /\ f + (w - 1) * n \in 0..g /\ f + w * n \in 0..g
             /\ f + w * n = (f + (w - 1) * n) + n
             /\ a.writes[w] = Slice(Whole(r), f + (w - 1) * n, f + w * n)
  BY <1>1, Zenon DEF Windows
<1>5. f + 0 * n = f BY <1>1
<1>6. cut \in [0..k -> 0..len]
  <2> SUFFICES ASSUME NEW w \in 0..k PROVE f + w * n \in 0..len BY <1>2, Zenon
  <2>1. CASE w = 0 BY <1>1, <2>1
  <2>2. CASE w # 0
    <3>1. w \in 1..k BY <2>2
    <3>2. PICK x : x = f + w * n /\ x \in 0..g BY <1>4, <3>1, Zenon
    <3>3. x \in 0..len BY <1>3, <3>2
    <3> QED BY <3>2, <3>3, Zenon
  <2> QED BY <2>1, <2>2
<1>7. ASSUME NEW w \in 1..k
      PROVE  /\ cut[w - 1] < cut[w] /\ a.writes[w] = Slice(Whole(r), cut[w - 1], cut[w])
             /\ cut[w - 1] = 0 => cut[w] >= n
  <2>1. w - 1 \in 0..k /\ w \in 0..k OBVIOUS
  <2>2. PICK x, y : x = f + (w - 1) * n /\ y = f + w * n OBVIOUS
  <2>3. x \in 0..g /\ y = x + n /\ a.writes[w] = Slice(Whole(r), x, y) BY <1>4, <2>2, Zenon
  <2>4. x < y /\ (x = 0 => y >= n) BY <1>1, <2>3
  <2>5. cut[w - 1] = x /\ cut[w] = y BY <1>2, <2>1, <2>2, Zenon
  <2> QED BY <2>3, <2>4, <2>5, Zenon
<1>8. cut[0] = f /\ cut[k] = g
  <2>1. 0 \in 0..k /\ k \in 0..k OBVIOUS
  <2> QED BY <1>2, <1>3, <1>5, <2>1, Zenon
<1>9. Len(a.writes) = k BY Zenon DEF Windows
<1>10. CutAt(r, a.writes, cut, k) BY <1>1, <1>6, <1>7, <1>9, Zenon DEF CutAt
<1> QED BY <1>8, <1>10, Zenon DEF Out

(* What is left in the buffer at the end of the response goes out too      *)
(* (Conn.flushFinal).                                                      *)
LEMMA AllOut ==
  ASSUME NEW r \in Responses, NEW c, NEW a, NEW f, NEW e, NEW k \in Nat, NEW g \in Nat,
         Windows(r, c, a, f, e, k, g), f \in 0..Len(Whole(r)), e = Len(Whole(r))
  PROVE  Out(r, a.writes \o flushFinal(a.conn), f, e)
<1>1. PICK buf \in Text : buf = a.conn.flushBuf /\ buf = Slice(Whole(r), g, e)
  BY Zenon DEF Windows, BufferAt
<1>2. PICK len \in Nat : len = Len(Whole(r)) /\ e = len /\ f \in 0..len BY Response
<1>3. g \in 0..len BY <1>2, Zenon DEF Windows, BufferAt
<1>4. Len(buf) = len - g
  <2>1. Whole(r) \in Text BY Response, Zenon
  <2>2. e \in g..Len(Whole(r)) BY <1>2, <1>3
  <2>3. Len(Slice(Whole(r), g, e)) = e - g BY <1>2, <1>3, <2>1, <2>2, SliceFacts, Zenon
  <2> QED BY <1>1, <1>2, <2>3, Zenon
<1>5. a.writes \in Seq(Text) /\ Len(a.writes) = k BY Zenon DEF Windows
<1>6. PICK cut : CutAt(r, a.writes, cut, k) /\ cut[0] = f /\ cut[k] = g
  <2>1. Out(r, a.writes, f, g) BY WindowsOut
  <2>2. PICK cut, m : CutAt(r, a.writes, cut, m) /\ cut[0] = f /\ cut[m] = g
    BY <2>1, Zenon DEF Out
  <2>3. m = k BY <1>5, <2>2, Zenon DEF CutAt
  <2> QED BY <2>2, <2>3, Zenon
<1>7. CASE buf = <<>>
  <2>1. g = e BY <1>2, <1>3, <1>4, <1>7
  <2>2. flushFinal(a.conn) = <<>> BY <1>1, <1>7, Zenon DEF flushFinal
  <2>3. a.writes \o <<>> = a.writes BY <1>5, ConcatEmptySeq
  <2> QED BY <1>6, <2>1, <2>2, <2>3, Zenon DEF Out
<1>8. CASE buf # <<>>
  <2>1. PICK T : T = Text OBVIOUS
  <2>2. PICK m \in Nat : m = k + 1 OBVIOUS
  <2>3. PICK ws : ws = a.writes \o flushFinal(a.conn) OBVIOUS
  <2>4. ws = a.writes \o <<buf>> BY <1>1, <1>8, <2>3, Zenon DEF flushFinal
  <2>5. /\ Len(ws) = m /\ ws[m] = buf
        /\ \A w \in 1..k : ws[w] = a.writes[w]
    <3>1. PICK aw \in Seq(T) : aw = a.writes /\ Len(aw) = k BY <1>5, <2>1
    <3>2. buf \in T BY <2>1
    <3>3. ws = Append(aw, buf) BY <2>4, <3>1, <3>2, AppendIsConcat, Zenon
    <3>4. /\ Len(Append(aw, buf)) = Len(aw) + 1 /\ Append(aw, buf)[Len(aw) + 1] = buf
          /\ \A w \in 1..Len(aw) : Append(aw, buf)[w] = aw[w]
      BY <3>2, AppendProperties
    <3>5. Len(ws) = k + 1 /\ ws[k + 1] = buf /\ \A w \in 1..k : ws[w] = aw[w]
      BY <3>1, <3>3, <3>4, Zenon
    <3> QED BY <2>2, <3>1, <3>5, Zenon
  <2>6. PICK all : all = [w \in 0..m |-> IF w = m THEN e ELSE cut[w]] OBVIOUS
  <2>7. \A w \in 0..m : w = m \/ w \in 0..k BY <2>2
  <2>8. \A w \in 0..k : w # m /\ w \in 0..m BY <2>2
  <2>9. m \in 0..m /\ 0 \in 0..k /\ k \in 0..k /\ m - 1 = k BY <2>2
  <2>10. all[m] = e /\ \A w \in 0..k : all[w] = cut[w] BY <2>6, <2>8, <2>9, Zenon
  <2>11. cut \in [0..k -> 0..len] BY <1>2, <1>6, Zenon DEF CutAt
  <2>12. all \in [0..m -> 0..len]
    <3>1. e \in 0..len BY <1>2
    <3>2. \A w \in 0..m : (IF w = m THEN e ELSE cut[w]) \in 0..len BY <2>7, <2>11, <3>1, Zenon
    <3> QED BY <2>6, <3>2, Zenon
  <2>13. g < e
    <3>1. Len(buf) # 0
      <4>1. buf \in Seq(Bytes) BY Zenon DEF Text
      <4> QED BY <1>8, <4>1, EmptySeq
    <3> QED BY <1>2, <1>3, <1>4, <3>1
  <2>14. ASSUME NEW w \in 1..m
         PROVE  /\ all[w - 1] < all[w] /\ ws[w] = Slice(Whole(r), all[w - 1], all[w])
                /\ all[w - 1] = 0 => all[w] >= FlushWindow \/ all[w] = Len(Whole(r))
    <3>1. CASE w = m BY <1>1, <1>2, <1>6, <2>5, <2>9, <2>10, <2>13, <3>1, Zenon
    <3>2. CASE w # m
      <4>1. w \in 1..k /\ w \in 0..k /\ w - 1 \in 0..k BY <2>2, <3>2
      <4>2. /\ cut[w - 1] < cut[w] /\ a.writes[w] = Slice(Whole(r), cut[w - 1], cut[w])
            /\ cut[w - 1] = 0 => cut[w] >= FlushWindow \/ cut[w] = Len(Whole(r))
        BY <1>6, <4>1, Zenon DEF CutAt
      <4> QED BY <2>5, <2>10, <4>1, <4>2, Zenon
    <3> QED BY <3>1, <3>2
  <2>15. CutAt(r, ws, all, m) BY <1>2, <2>5, <2>12, <2>14, Zenon DEF CutAt
  <2>16. all[0] = f BY <1>6, <2>9, <2>10, Zenon
  <2> QED BY <2>3, <2>10, <2>15, <2>16, Zenon DEF Out
<1> QED BY <1>7, <1>8
-----------------------------------------------------------------------------
(* The transfer in progress.                                               *)
ServerEnd == [iss : 0..SeqSpace - 1, ack : 0..SeqSpace - 1, asked : BOOLEAN,
              response : Responses \cup {<<>>}]

\* Of the response r, whose bytes are numbered from iss + 1, the connection c
\* has taken t bytes, and f, full windows, went to the sink; the server knows
\* of u.
StreamAt(r, iss, t, f, c, u, done, h) ==
  /\ c.rcvNxt = (iss + 1 + t) % SeqSpace /\ u \in 0..t
  /\ BufferAt(r, c.flushBuf, f, t)
  /\ done \in BOOLEAN /\ h \in Text /\ Passed(r, done, h, f)

Streaming ==
  LET r == served[idx].response IN
  \E t, f \in 0..Len(Whole(r)) : StreamAt(r, served[idx].iss, t, f, conn, una, headerDone, hashed)

ServerInv ==
  /\ served \in Seq(ServerEnd)
  /\ \A i \in Asked : served[i].response \in Responses

\* What the phases of a fetch know of its connection.
ClientInv ==
  /\ phase # "DONE" => conn \in Conn /\ conn.port = Port(idx)
  /\ phase = "ARP" => Len(served) = idx - 1 /\ conn.state = "CLOSED"
  /\ phase = "HANDSHAKE" => Len(served) \in {idx - 1, idx} /\ conn.state = "SYN_SENT" /\ una = 0
  /\ phase \in {"ARP", "HANDSHAKE"} => conn.flushBuf = <<>> /\ headerDone = FALSE /\ hashed = <<>>
  /\ phase = "RECV" => Len(served) = idx /\ conn.state = "ESTABLISHED"
  /\ phase = "DONE" => Len(served) = idx

TransferInv ==
  /\ ServerInv /\ ClientInv
  /\ phase = "RECV" /\ idx \in Asked => Streaming
-----------------------------------------------------------------------------
(* The connection.                                                         *)

(* A number is its own remainder, or differs from it by the modulus.       *)
LEMMA Remainder ==
  ASSUME NEW d \in Nat \ {0}, NEW m \in 0..d - 1, NEW a \in Int, a \in {m - d, m, m + d}
  PROVE  a % d = m
<1>1. PICK k \in Int, x \in 0..d - 1 : k = a \div d /\ x = a % d /\ a = d * k + x OBVIOUS
<1>2. CASE k = 0 BY <1>1, <1>2
<1>3. CASE k = 1 BY <1>1, <1>3
<1>4. CASE k = -1 BY <1>1, <1>4
<1>5. CASE k > 1
  <2>1. PICK j \in Nat : k = j + 2 BY <1>5, k - 2 \in Nat
  <2>2. PICK dj \in Nat : dj = d * j OBVIOUS
  <2>3. d * k = dj + 2 * d BY <2>1, <2>2
  <2> QED BY <1>1, <2>3
<1>6. CASE k < -1
  <2>1. PICK j \in Nat : k = -2 - j BY <1>6, -2 - k \in Nat
  <2>2. PICK dj \in Nat : dj = d * j OBVIOUS
  <2>3. d * k = -(dj + 2 * d) BY <2>1, <2>2
  <2> QED BY <1>1, <2>3
<1> QED BY <1>1, <1>2, <1>3, <1>4, <1>5, <1>6

(* Less than a round of bytes from the initial number, every byte has a    *)
(* number of its own, and numbers add up.                                  *)
LEMMA Numbers ==
  ASSUME NEW iss \in 0..SeqSpace - 1, NEW t \in 0..SeqSpace - 1
  PROVE  /\ ((iss + 1 + t) % SeqSpace) \in 0..SeqSpace - 1
         /\ (((iss + 1 + t) % SeqSpace) - iss - 1) % SeqSpace = t
         /\ \A n \in Nat : t + n < SeqSpace =>
              (((iss + 1 + t) % SeqSpace) + n) % SeqSpace = (iss + 1 + (t + n)) % SeqSpace
<1>1. PICK d \in Nat \ {0} : d = SeqSpace BY ConnAssumption
<1>2. iss \in 0..d - 1 /\ t \in 0..d - 1 BY <1>1
<1>3. PICK x \in 0..d - 1 : /\ x \in {iss + 1 + t, (iss + 1 + t) - d}
                            /\ x = (iss + 1 + t) % d
  <2>1. CASE iss + 1 + t < d
    <3>1. PICK m \in 0..d - 1 : m = iss + 1 + t BY <1>2, <2>1
    <3>2. m % d = m BY <3>1, Remainder
    <3> QED BY <3>1, <3>2
  <2>2. CASE iss + 1 + t >= d
    <3>1. (iss + 1 + t) - d \in 0..d - 1 /\ ((iss + 1 + t) - d) + d = iss + 1 + t
          /\ iss + 1 + t \in Int
      BY <1>2, <2>2
    <3>2. PICK m \in 0..d - 1 : m = (iss + 1 + t) - d BY <3>1
    <3>3. iss + 1 + t = m + d BY <1>2, <3>2
    <3>4. (iss + 1 + t) % d = m BY <3>1, <3>3, Remainder
    <3> QED BY <3>2, <3>4
  <2> QED BY <1>2, <2>1, <2>2
<1>4. (x - iss - 1) % d = t
  <2>1. x - iss - 1 \in {t - d, t, t + d} /\ x - iss - 1 \in Int BY <1>2, <1>3
  <2> QED BY <1>2, <2>1, Remainder
<1>5. ASSUME NEW n \in Nat, t + n < d PROVE (x + n) % d = (iss + 1 + (t + n)) % d
  <2>1. PICK y \in Int, z \in Int : y = x + n /\ z = iss + 1 + (t + n) BY <1>2
  <2>2. y \in {z, z - d} /\ z \in 0..2 * d - 1 /\ y \in Nat BY <1>2, <1>3, <1>5, <2>1
  <2>3. CASE z < d
    <3>1. y \in Nat /\ y = z BY <2>2, <2>3
    <3> QED BY <2>1, <3>1
  <2>4. CASE z >= d
    <3>1. PICK m \in 0..d - 1 : m = z - d BY <2>2, <2>4
    <3>2. z = m + d /\ y \in {m, m + d} BY <2>2, <3>1
    <3>3. z % d = m BY <3>2, Remainder
    <3>4. y % d = m BY <3>2, Remainder
    <3> QED BY <2>1, <3>3, <3>4
  <2> QED BY <2>2, <2>3, <2>4
<1> QED BY <1>1, <1>3, <1>4, <1>5

(* What an open connection makes of a segment (Conn.onEstablished).        *)
LEMMA Handled ==
  ASSUME NEW c, NEW s, c.state = "ESTABLISHED"
  PROVE  \/ OnSegment(c, s) = Ignore(c)
         \/ ForUs(c, s) /\ InOrder(c, s) /\ "FIN" \in s.flags /\ OnSegment(c, s) = OnFin(c, s)
         \/ /\ ForUs(c, s) /\ InOrder(c, s) /\ "FIN" \notin s.flags /\ s.data # <<>>
            /\ OnSegment(c, s) = OnData(c, s)
BY DEF OnSegment

(* Of all that can arrive only the stretch of this file's response that is *)
(* next is taken: the segments of other files are for other ports, and a   *)
(* SYN-ACK has nothing to take.                                            *)
LEMMA OnlyTheNextStretch ==
  ASSUME FetchInv, ServerInv, ClientInv, phase = "RECV",
         NEW s \in SynAcks \cup UNION {Segments(i) : i \in Asked},
         OnSegment(conn, s) # Ignore(conn)
  PROVE  /\ idx \in Asked /\ idx \in DOMAIN served
         /\ \E from \in 0..Len(Stream(idx)), n \in Nat, fin \in BOOLEAN :
              /\ from + n <= Len(Stream(idx)) /\ (fin => from + n = Len(Stream(idx)))
              /\ s.data = SubSeq(Stream(idx), from + 1, from + n)
              /\ conn.rcvNxt = (served[idx].iss + 1 + from) % SeqSpace
              /\ OnSegment(conn, s) = IF fin THEN OnFin(conn, s) ELSE OnData(conn, s)
<1>1. conn.port = Port(idx) /\ conn.state = "ESTABLISHED" /\ Len(served) = idx
      /\ idx \in DOMAIN Plan /\ served \in Seq(ServerEnd)
  BY DEF ClientInv, FetchInv, ServerInv
<1>2. DOMAIN served \subseteq DOMAIN Plan /\ idx \in DOMAIN served BY <1>1, PlanIsSequence
<1>3. CASE s \in SynAcks
  <2>1. s.flags = {"SYN", "ACK"} /\ s.data = <<>> BY <1>3 DEF SynAcks, Segment
  <2>2. "FIN" \notin s.flags BY <2>1
  <2> QED BY <1>1, <2>1, <2>2, Handled
<1>4. CASE \E i \in Asked : s \in Segments(i)
  <2>1. PICK i \in Asked : s \in Segments(i) BY <1>4
  <2>2. PICK fin \in BOOLEAN, from \in 0..Len(Stream(i)), n \in 0..MaxSegment :
          /\ from + n <= Len(Stream(i))
          /\ s = Stretch(i, from, n, from + n = Len(Stream(i)) /\ fin)
    BY <2>1 DEF Segments
  <2>3. PICK end \in BOOLEAN : end = (from + n = Len(Stream(i)) /\ fin) OBVIOUS
  <2>4. /\ s.dst = Port(i) /\ s.flags = (IF end THEN {"FIN", "ACK"} ELSE {"ACK"})
        /\ s.seq = (served[i].iss + 1 + from) % SeqSpace
        /\ s.data = SubSeq(Stream(i), from + 1, from + n)
    BY <2>2, <2>3 DEF Stretch, Segment
  <2>5. ForUs(conn, s) /\ InOrder(conn, s)
        /\ OnSegment(conn, s) = IF end THEN OnFin(conn, s) ELSE OnData(conn, s)
    <3>1. "FIN" \in s.flags <=> end BY <2>4
    <3> QED BY <1>1, <3>1, Handled
  <2>6. i = idx
    <3>1. i \in DOMAIN Plan BY <1>2 DEF Asked
    <3> QED BY <1>1, <2>4, <2>5, <3>1, PortAssumption DEF ForUs
  <2>7. n \in Nat BY ServerAssumption
  <2>8. conn.rcvNxt = (served[idx].iss + 1 + from) % SeqSpace
    BY <2>4, <2>5, <2>6, Zenon DEF InOrder
  <2> QED BY <1>2, <2>2, <2>3, <2>4, <2>5, <2>6, <2>7, <2>8, Zenon
<1> QED BY <1>3, <1>4

(* No writes change nothing in the sink.                                   *)
LEMMA DrainedNothing == ASSUME NEW sink PROVE Drained(sink, <<>>) = sink
<1> DEFINE E(g) == g = [w \in 0..Len(<<>>) |-> IF w = 0 THEN sink ELSE BodySinkWrite(g[w - 1], <<>>[w])]
<1>1. Len(<<>>) = 0 /\ 0 \in 0..0 /\ \A w \in 0..0 : w = 0 OBVIOUS
<1>2. PICK g : g = [w \in 0..0 |-> sink] OBVIOUS
<1>3. E(g)
  <2>1. \A w \in 0..0 : sink = IF w = 0 THEN sink ELSE BodySinkWrite(g[w - 1], <<>>[w])
    BY <1>1, Zenon
  <2>2. [w \in 0..0 |-> sink] = [w \in 0..0 |-> IF w = 0 THEN sink ELSE BodySinkWrite(g[w - 1], <<>>[w])]
    BY <2>1, Zenon
  <2> QED BY <1>1, <1>2, <2>2, Zenon
<1>4. PICK f : f = CHOOSE k : E(k) OBVIOUS
<1>5. E(f)
  <2> HIDE DEF E
  <2> QED BY <1>3, <1>4, Zenon
<1>6. f[0] = sink BY <1>1, <1>5, Zenon
<1>7. Drained(sink, <<>>) = f[Len(<<>>)] BY <1>4, Zenon DEF Drained
<1> QED BY <1>1, <1>6, <1>7, Zenon

(* What goes out from the connection goes through the header skip.         *)
LEMMA OutPasses ==
  ASSUME NEW r \in Responses, headerDone \in BOOLEAN, hashed \in Text, NEW f, NEW e,
         Passed(r, headerDone, hashed, f), NEW writes, Out(r, writes, f, e)
  PROVE  LET d == Drained(NothingYet, writes) IN
         /\ d.headerDone \in BOOLEAN /\ hashed \o d.body \in Text
         /\ Passed(r, d.headerDone, hashed \o d.body, e)
<1>1. PICK c, n : CutAt(r, writes, c, n) /\ c[0] = f /\ c[n] = e BY Zenon DEF Out
<1>2. PICK sink \in Sinks : sink = NothingYet /\ sink.headerDone = headerDone /\ sink.body = <<>>
  <2>1. <<>> \in Text BY Joins, Zenon
  <2>2. NothingYet \in Sinks BY <2>1 DEF NothingYet, Sinks
  <2> QED BY <2>2 DEF NothingYet
<1>3. hashed \o <<>> = hashed BY Joins, Zenon
<1>4. Passed(r, sink.headerDone, hashed \o sink.body, c[0]) BY <1>1, <1>2, <1>3, Zenon
<1>5. PICK d : d = Drained(sink, writes) OBVIOUS
<1>6. d \in Sinks /\ Passed(r, d.headerDone, hashed \o d.body, c[n])
  BY <1>1, <1>4, <1>5, DrainedPasses
<1>7. d.headerDone \in BOOLEAN /\ d.body \in Text BY <1>6 DEF Sinks
<1>8. hashed \o d.body \in Text BY <1>7, Joins, Zenon
<1> QED BY <1>1, <1>2, <1>5, <1>6, <1>7, <1>8, Zenon

(* What was only looked at changes nothing.                                *)
LEMMA IgnoredStep ==
  ASSUME NEW s, OnStreamFrame(s), OnSegment(conn, s) = Ignore(conn), conn.state = "ESTABLISHED"
  PROVE  /\ phase = "RECV" /\ UNCHANGED <<conn, headerDone, phase, res, una, idx, served>>
         /\ hashed \in Text => hashed' = hashed
<1>1. PICK r : r = OnSegment(conn, s) /\ r.conn = conn /\ r.tx = <<>> /\ r.writes = <<>>
  BY DEF Ignore, Reply
<1>2. Drained(NothingYet, r.writes) = NothingYet BY <1>1, DrainedNothing, Zenon
<1>3. /\ phase = "RECV" /\ conn' = r.conn
      /\ headerDone' = Drained(NothingYet, r.writes).headerDone
      /\ hashed' = hashed \o Drained(NothingYet, r.writes).body
      /\ ~(r.conn.state \in {"FIN_WAIT", "CLOSED"}) => UNCHANGED <<phase, res>>
      /\ r.tx = <<>> => una' \in {una}
      /\ UNCHANGED <<idx, served>>
  BY <1>1, Zenon DEF OnStreamFrame
<1>4. headerDone' = headerDone /\ hashed' = hashed \o <<>>
  <2>1. NothingYet.headerDone = headerDone /\ NothingYet.body = <<>> BY DEF NothingYet
  <2> QED BY <1>2, <1>3, <2>1, Zenon
<1>5. hashed \in Text => hashed' = hashed BY <1>4, Joins, Zenon
<1> QED BY <1>1, <1>3, <1>4, <1>5

(* Data is taken in order: as many bytes more have come in, the windows    *)
(* they fill went to the hash, and the server learns of them or not.       *)
LEMMA DataStep ==
  ASSUME NEW r \in Responses, NEW iss \in 0..SeqSpace - 1, iss = served[idx].iss, conn \in Conn,
         NEW t, NEW f, StreamAt(r, iss, t, f, conn, una, headerDone, hashed),
         NEW e \in t..Len(Whole(r)),
         NEW s, s.data = Slice(Whole(r), t, e), conn.state = "ESTABLISHED",
         OnSegment(conn, s) = OnData(conn, s), OnStreamFrame(s)
  PROVE  /\ conn' \in Conn /\ conn'.port = conn.port /\ conn'.state = "ESTABLISHED"
         /\ UNCHANGED <<phase, res, idx, served>>
         /\ \E g \in 0..Len(Whole(r)) : StreamAt(r, iss, e, g, conn', una', headerDone', hashed')
<1>1. /\ conn.rcvNxt = (iss + 1 + t) % SeqSpace /\ una \in 0..t
      /\ BufferAt(r, conn.flushBuf, f, t)
      /\ headerDone \in BOOLEAN /\ hashed \in Text /\ Passed(r, headerDone, hashed, f)
  BY Zenon DEF StreamAt
<1>2. PICK a : a = acceptPayload(conn, s.data) OBVIOUS
<1>3. PICK k \in Nat, g \in Nat : Windows(r, conn, a, f, e, k, g)
  BY <1>1, <1>2, PayloadAccepted, Zenon
<1>4. /\ f \in 0..Len(Whole(r)) /\ t \in f..Len(Whole(r)) /\ Len(Whole(r)) \in Nat
      /\ Len(Whole(r)) < SeqSpace
  <2>1. f \in 0..Len(Whole(r)) /\ t \in f..Len(Whole(r)) BY <1>1, Zenon DEF BufferAt
  <2>2. PICK x \in Nat, y \in Nat : x = Len(r.header) /\ y = Len(r.body) /\ Len(Whole(r)) = x + y
    BY Response, Zenon
  <2>3. x + y + 1 < SeqSpace BY <2>2, ServerAssumption
  <2>4. x + y \in Nat /\ x + y < SeqSpace BY <2>3, ConnAssumption
  <2> QED BY <2>1, <2>2, <2>4, Zenon
<1>5. Out(r, a.writes, f, g) BY <1>3, <1>4, WindowsOut
<1>6. Len(s.data) = e - t /\ e - t \in Nat /\ t \in Nat
  <2>1. Whole(r) \in Text BY Response, Zenon
  <2>2. t \in 0..Len(Whole(r)) BY <1>4
  <2>3. Len(s.data) = e - t BY <2>1, <2>2, SliceFacts, Zenon
  <2> QED BY <1>4, <2>3
<1>7. PICK new : new = [a.conn EXCEPT !.rcvNxt = (@ + Len(s.data)) % SeqSpace] OBVIOUS
<1>8. PICK o : o = OnSegment(conn, s) /\ o.conn = new /\ o.writes = a.writes /\ o.tx # <<>>
  <2>1. OnSegment(conn, s) = Reply(new, <<build(new, {"ACK"}, <<>>)>>, a.writes)
    BY <1>2, <1>7, Zenon DEF OnData
  <2>2. PICK tx : tx = <<build(new, {"ACK"}, <<>>)>> /\ tx # <<>>
    <3>1. \A one : <<one>> # <<>> OBVIOUS
    <3> QED BY <3>1, Zenon
  <2>3. PICK o : o = Reply(new, tx, a.writes) OBVIOUS
  <2>4. o.conn = new /\ o.writes = a.writes /\ o.tx = tx BY <2>3 DEF Reply
  <2> QED BY <2>1, <2>2, <2>3, <2>4, Zenon
<1>9. /\ BufferAt(r, a.conn.flushBuf, g, e) /\ a.conn.flushBuf \in Text
      /\ a.conn = [conn EXCEPT !.flushBuf = a.conn.flushBuf]
  BY <1>3, Zenon DEF Windows
<1>10. /\ new \in Conn /\ new.port = conn.port /\ new.state = "ESTABLISHED"
       /\ new.flushBuf = a.conn.flushBuf
       /\ new.rcvNxt = (iss + 1 + e) % SeqSpace
  <2>1. PICK num \in 0..SeqSpace - 1 : /\ num = (conn.rcvNxt + Len(s.data)) % SeqSpace
                                       /\ num = (iss + 1 + e) % SeqSpace
    <3>1. t \in 0..SeqSpace - 1 /\ e \in 0..SeqSpace - 1 /\ t + (e - t) = e /\ t + (e - t) < SeqSpace
      BY <1>4, <1>6, ConnAssumption
    <3>2. (((iss + 1 + t) % SeqSpace) + (e - t)) % SeqSpace = (iss + 1 + (t + (e - t))) % SeqSpace
      BY <1>6, <3>1, Numbers, Zenon
    <3>3. ((iss + 1 + e) % SeqSpace) \in 0..SeqSpace - 1 BY <3>1, Numbers, Zenon
    <3> QED BY <1>1, <1>6, <3>1, <3>2, <3>3, Zenon
  <2>2. PICK b \in Text : b = a.conn.flushBuf BY <1>9, Zenon
  <2>3. PICK ac : ac = a.conn /\ ac = [conn EXCEPT !.flushBuf = b] BY <1>9, <2>2, Zenon
  <2>4. /\ ac \in Conn /\ ac.port = conn.port /\ ac.state = "ESTABLISHED" /\ ac.flushBuf = b
        /\ ac.rcvNxt = conn.rcvNxt
    BY <2>3 DEF Conn
  <2>5. new = [ac EXCEPT !.rcvNxt = num] BY <1>7, <2>1, <2>3, <2>4, Zenon
  <2>6. /\ new \in Conn /\ new.port = ac.port /\ new.state = ac.state /\ new.flushBuf = b
        /\ new.rcvNxt = num
    BY <2>4, <2>5 DEF Conn
  <2> QED BY <2>1, <2>2, <2>4, <2>6, Zenon
<1>11. /\ phase = "RECV" /\ conn' = new
       /\ headerDone' = Drained(NothingYet, a.writes).headerDone
       /\ hashed' = hashed \o Drained(NothingYet, a.writes).body
       /\ ~(new.state \in {"FIN_WAIT", "CLOSED"}) => UNCHANGED <<phase, res>>
       /\ phase' # "DONE" => una' \in {una, (new.rcvNxt - served[idx].iss - 1) % SeqSpace}
       /\ UNCHANGED <<idx, served>>
  <2>1. /\ phase = "RECV" /\ conn' = o.conn
        /\ headerDone' = Drained(NothingYet, o.writes).headerDone
        /\ hashed' = hashed \o Drained(NothingYet, o.writes).body
        /\ ~(o.conn.state \in {"FIN_WAIT", "CLOSED"}) => UNCHANGED <<phase, res>>
        /\ una' \in IF o.tx = <<>> \/ phase' = "DONE" THEN {una}
                    ELSE {(o.conn.rcvNxt - served[idx].iss - 1) % SeqSpace} \cup
                         (IF reliable THEN {} ELSE {una})
        /\ UNCHANGED <<idx, served>>
    BY <1>8, Zenon DEF OnStreamFrame
  <2>2. phase' # "DONE" => una' \in {una, (o.conn.rcvNxt - served[idx].iss - 1) % SeqSpace}
    BY <1>8, <2>1, Zenon
  <2> QED BY <1>8, <2>1, <2>2, Zenon
<1>12. UNCHANGED <<phase, res>>
  <2>1. ~(new.state \in {"FIN_WAIT", "CLOSED"}) BY <1>10
  <2> QED BY <1>11, <2>1, Zenon
<1>13. una' \in 0..e
  <2>1. phase' # "DONE" BY <1>11, <1>12
  <2>2. e \in 0..SeqSpace - 1 BY <1>4, <1>6, ConnAssumption
  <2>3. (new.rcvNxt - served[idx].iss - 1) % SeqSpace = e
    <3>1. (((iss + 1 + e) % SeqSpace) - iss - 1) % SeqSpace = e BY <2>2, Numbers
    <3> QED BY <1>10, <3>1, Zenon
  <2>4. una' \in {una, e} BY <1>11, <2>1, <2>3, Zenon
  <2>5. una \in 0..e /\ e \in 0..e BY <1>1, <1>4, <1>6
  <2> QED BY <2>4, <2>5, Zenon
<1>14. /\ headerDone' \in BOOLEAN /\ hashed' \in Text /\ Passed(r, headerDone', hashed', g)
  BY <1>1, <1>5, <1>11, OutPasses
<1>15. StreamAt(r, iss, e, g, conn', una', headerDone', hashed')
  BY <1>9, <1>10, <1>11, <1>13, <1>14, Zenon DEF StreamAt
<1>16. g \in 0..Len(Whole(r)) BY <1>9, Zenon DEF BufferAt
<1> QED BY <1>10, <1>11, <1>12, <1>15, <1>16, Zenon

(* The FIN empties the buffer and ends the file.                           *)
LEMMA FinStep ==
  ASSUME NEW r \in Responses, conn \in Conn, NEW iss,
         NEW t, NEW f, StreamAt(r, iss, t, f, conn, una, headerDone, hashed),
         NEW e, e = Len(Whole(r)),
         NEW s, s.data = Slice(Whole(r), t, e),
         OnSegment(conn, s) = OnFin(conn, s), OnStreamFrame(s)
  PROVE  /\ phase' = "DONE" /\ UNCHANGED <<idx, served>>
         /\ res' = Append(res, [name |-> Plan[idx].name, verified |-> hashed' = Plan[idx].pinned])
         /\ headerDone' \in BOOLEAN /\ hashed' \in Text /\ Passed(r, headerDone', hashed', e)
<1>1. /\ BufferAt(r, conn.flushBuf, f, t)
      /\ headerDone \in BOOLEAN /\ hashed \in Text /\ Passed(r, headerDone, hashed, f)
  BY Zenon DEF StreamAt
<1>2. PICK a : a = acceptPayload(conn, s.data) OBVIOUS
<1>3. f \in 0..Len(Whole(r)) /\ e \in t..Len(Whole(r))
  <2>1. f \in 0..Len(Whole(r)) /\ t \in f..Len(Whole(r)) BY <1>1, Zenon DEF BufferAt
  <2> QED BY <2>1
<1>4. PICK k \in Nat, g \in Nat : Windows(r, conn, a, f, e, k, g)
  BY <1>1, <1>2, <1>3, PayloadAccepted, Zenon
<1>5. PICK writes : writes = a.writes \o flushFinal(a.conn) OBVIOUS
<1>6. Out(r, writes, f, e) BY <1>3, <1>4, <1>5, AllOut, Zenon
<1>7. PICK o : o = OnSegment(conn, s) /\ o.conn.state = "FIN_WAIT" /\ o.writes = writes
  <2>1. PICK mid : mid = [a.conn EXCEPT !.rcvNxt = (@ + Len(s.data) + 1) % SeqSpace, !.flushBuf = <<>>]
    OBVIOUS
  <2>2. PICK new : new = [mid EXCEPT !.sndNxt = (@ + 1) % SeqSpace, !.state = "FIN_WAIT"] OBVIOUS
  <2>3. OnSegment(conn, s) = Reply(new, <<build(mid, {"FIN", "ACK"}, <<>>)>>, writes)
    BY <1>2, <1>5, <2>1, <2>2, Zenon DEF OnFin
  <2>4. PICK b : a.conn = [conn EXCEPT !.flushBuf = b] BY <1>4, Zenon DEF Windows
  <2>5. DOMAIN a.conn = DOMAIN conn /\ "state" \in DOMAIN conn BY <2>4 DEF Conn
  <2>6. "state" \in DOMAIN mid BY <2>1, <2>5
  <2>7. new.state = "FIN_WAIT" BY <2>2, <2>6
  <2>8. PICK tx : tx = <<build(mid, {"FIN", "ACK"}, <<>>)>> OBVIOUS
  <2>9. PICK o : o = Reply(new, tx, writes) OBVIOUS
  <2>10. o.conn = new /\ o.writes = writes BY <2>9 DEF Reply
  <2> QED BY <2>3, <2>7, <2>8, <2>9, <2>10, Zenon
<1>8. /\ phase' = "DONE" /\ UNCHANGED <<idx, served>>
      /\ headerDone' = Drained(NothingYet, writes).headerDone
      /\ hashed' = hashed \o Drained(NothingYet, writes).body
      /\ res' = Append(res, [name |-> Plan[idx].name, verified |-> hashed' = Plan[idx].pinned])
  <2>1. o.conn.state \in {"FIN_WAIT", "CLOSED"} BY <1>7
  <2> QED BY <1>7, <2>1, Zenon DEF OnStreamFrame
<1>9. headerDone' \in BOOLEAN /\ hashed' \in Text /\ Passed(r, headerDone', hashed', e)
  BY <1>1, <1>6, <1>8, OutPasses
<1> QED BY <1>8, <1>9

(* What has passed when all of the response went to the sink: the body, if *)
(* the header fits into a window, or else an end of it.                    *)
LEMMA AllPassed ==
  ASSUME NEW r \in Responses, NEW done, NEW h \in Text, Passed(r, done, h, Len(Whole(r)))
  PROVE  IF Len(r.header) <= FlushWindow THEN h = r.body ELSE IsSuffix(h, r.body)
<1>0. PICK head \in Nat, m \in Nat, len \in Nat :
        head = Len(r.header) /\ m = Len(r.body) /\ len = Len(Whole(r)) /\ len = head + m
  <2>1. Len(r.header) \in Nat /\ Len(r.body) \in Nat
        /\ Len(Whole(r)) = Len(r.header) + Len(r.body)
    BY Response, Zenon
  <2>2. PICK head \in Nat, m \in Nat : head = Len(r.header) /\ m = Len(r.body) BY <2>1, Zenon
  <2>3. PICK len \in Nat : len = head + m OBVIOUS
  <2> QED BY <2>1, <2>2, <2>3, Zenon
<1>1. PICK st \in Text, body \in Text :
        /\ st = Whole(r) /\ body = r.body /\ len = Len(st) /\ m = Len(body)
        /\ body = Slice(st, head, len)
  <2>1. r.body \in Text /\ Whole(r) \in Text
        /\ Slice(Whole(r), Len(r.header), Len(Whole(r))) = r.body
    BY Response, Zenon
  <2> QED BY <1>0, <2>1, Zenon
<1>5. len = head + m BY <1>0
<1>2. head # 0
  <2>1. head + 1 \in BodyStarts(r.header) BY <1>0, ServerAssumption
  <2>2. head + 1 \in 3..Len(r.header) + 1 BY <2>1, Zenon DEF BodyStarts
  <2> QED BY <2>2
<1>3. CASE head <= FlushWindow
  <2>1. done
    <3>1. CASE ~done
      <4>1. len = 0 BY <1>0, <1>3, <3>1, Zenon DEF Passed
      <4> QED BY <1>2, <1>5, <4>1
    <3> QED BY <3>1, Zenon
  <2>2. h = Slice(st, head, len) BY <1>0, <1>1, <1>3, <2>1, Zenon DEF Passed
  <2> QED BY <1>0, <1>1, <1>3, <2>2, Zenon
<1>4. CASE ~(head <= FlushWindow)
  <2>1. PICK n \in 0..m : Len(h) = n /\ \A i \in 1..n : h[i] = body[(m - n) + i]
    <3>1. CASE ~done
      <4>1. h = <<>> BY <3>1, Zenon DEF Passed
      <4>2. Len(h) = 0 /\ \A i \in 1..0 : h[i] = body[(m - 0) + i] BY <4>1
      <4>3. 0 \in 0..m OBVIOUS
      <4> QED BY <4>2, <4>3, Zenon
    <3>2. CASE done
      <4>1. PICK off \in head..len : h = Slice(st, off, len)
        BY <1>0, <1>1, <3>2, Zenon DEF Passed
      <4>2. PICK x \in 0..m, n \in 0..m : x = off - head /\ head + x = off /\ n = m - x /\ m - n = x
                                          /\ n = len - off
        <5>1. off \in Nat /\ off - head \in 0..m /\ head + (off - head) = off
              /\ m - (off - head) \in 0..m /\ m - (m - (off - head)) = off - head
              /\ m - (off - head) = len - off
          BY <1>5
        <5> QED BY <5>1
      <4>3. Slice(Slice(st, head, len), x, m) = Slice(st, head + x, head + m)
        <5>1. head \in 0..Len(st) /\ len \in head..Len(st) /\ x \in 0..len - head
              /\ m \in x..len - head
          <6>1. head \in 0..len /\ len \in head..len /\ len - head = m /\ m \in x..m BY <1>5
          <6> QED BY <1>1, <6>1, Zenon
        <5> QED BY <1>1, <5>1, SliceOfSlice, Zenon
      <4>4. h = Slice(body, x, m) BY <1>1, <1>5, <4>1, <4>2, <4>3, Zenon
      <4>5. Len(h) = m - x /\ \A i \in 1..m - x : h[i] = body[x + i]
        <5>1. x \in 0..Len(body) /\ m \in x..Len(body) BY <1>1
        <5> QED BY <4>4, <5>1, SliceFacts, Zenon
      <4> QED BY <4>2, <4>5, Zenon
    <3> QED BY <3>1, <3>2, Zenon
  <2>2. PICK hr : hr = Reverse(h) /\ hr = [i \in 1..n |-> h[(n - i) + 1]] BY <2>1, Zenon DEF Reverse
  <2>3. PICK br : br = Reverse(body) /\ br = [i \in 1..m |-> body[(m - i) + 1]]
    BY <1>1, Zenon DEF Reverse
  <2>4. \A i \in 1..n : hr[i] = br[i]
    <3> SUFFICES ASSUME NEW i \in 1..n PROVE hr[i] = br[i] OBVIOUS
    <3>1. (n - i) + 1 \in 1..n /\ i \in 1..m /\ (m - n) + ((n - i) + 1) = (m - i) + 1 BY <2>1
    <3>2. h[(n - i) + 1] = body[(m - n) + ((n - i) + 1)] BY <2>1, <3>1, Zenon
    <3>3. hr[i] = h[(n - i) + 1] BY <2>2, Zenon
    <3>4. br[i] = body[(m - i) + 1] BY <2>3, <3>1, Zenon
    <3> QED BY <3>1, <3>2, <3>3, <3>4, Zenon
  <2>5. PICK B : B = Bytes OBVIOUS
  <2>6. h \in Seq(B) /\ body \in Seq(B) BY <2>5, Zenon DEF Text
  <2>7. hr \in Seq(B) /\ Len(hr) = n
    <3>1. \A i \in 1..n : h[(n - i) + 1] \in B BY <2>1, <2>6
    <3> QED BY <2>2, <3>1
  <2>8. br \in Seq(B) /\ Len(br) = m
    <3>1. \A i \in 1..m : body[(m - i) + 1] \in B BY <1>1, <2>6
    <3> QED BY <2>3, <3>1
  <2>9. n <= m /\ SubSeq(hr, 1, n) = SubSeq(br, 1, n)
    <3>1. SubSeq(hr, 1, n) = [i \in 1..n |-> hr[i]] BY <2>1, <2>7
    <3>2. SubSeq(br, 1, n) = [i \in 1..n |-> br[i]] BY <2>1, <2>8
    <3>3. [i \in 1..n |-> hr[i]] = [i \in 1..n |-> br[i]] BY <2>4, Zenon
    <3>4. n <= m OBVIOUS
    <3> QED BY <3>1, <3>2, <3>3, <3>4, Zenon
  <2>10. IsSuffix(h, body) BY <2>2, <2>3, <2>7, <2>8, <2>9, Zenon DEF IsSuffix, IsPrefix
  <2> QED BY <1>0, <1>1, <1>4, <2>10, Zenon
<1> QED BY <1>0, <1>3, <1>4
-----------------------------------------------------------------------------
(* The steps. Together with the fetch in progress, the transfer and the    *)
(* verdicts are inductive.                                                 *)
Inv == IInv /\ TransferInv /\ VerdictIsRight

(* A new connection is one.                                                *)
LEMMA NewConns ==
  ASSUME NEW i \in Nat \ {0}
  PROVE  /\ NewConn(Port(i), ISS(i)) \in Conn /\ NewConn(Port(i), ISS(i)).port = Port(i)
         /\ NewConn(Port(i), ISS(i)).state = "CLOSED" /\ NewConn(Port(i), ISS(i)).flushBuf = <<>>
<1>1. Port(i) \in Nat
  <2>1. BasePort + i - 1 \in Nat /\ PortMod \in Nat \ {0} BY PortAssumption
  <2> QED BY <2>1 DEF Port
<1>2. ISS(i) \in 0..SeqSpace - 1
  <2>1. PICK x \in Nat : x = (i - 1) * ISSStride
    <3>1. i - 1 \in Nat /\ ISSStride \in Nat BY PortAssumption
    <3> QED BY <3>1
  <2>2. BaseISS + x \in Nat /\ SeqSpace \in Nat \ {0} BY PortAssumption, ConnAssumption
  <2>3. ((BaseISS + x) % SeqSpace) \in 0..SeqSpace - 1 BY <2>2
  <2> QED BY <2>1, <2>3, Zenon DEF ISS
<1>3. <<>> \in Text BY Joins, Zenon
<1>4. PICK p \in Nat, q \in 0..SeqSpace - 1 : p = Port(i) /\ q = ISS(i) BY <1>1, <1>2
<1>5. 0 \in 0..SeqSpace - 1 BY ConnAssumption
<1>6. /\ NewConn(p, q) \in Conn /\ NewConn(p, q).port = p
      /\ NewConn(p, q).state = "CLOSED" /\ NewConn(p, q).flushBuf = <<>>
  BY <1>3, <1>5 DEF NewConn, Conn, ConnStates
<1> QED BY <1>4, <1>6, Zenon

(* Verdicts stay right while the server's ends they are about stay.        *)
LEMMA VerdictsStay ==
  ASSUME VerdictIsRight, res' = res, \A i \in DOMAIN res : served'[i] = served[i]
  PROVE  VerdictIsRight'
<1> SUFFICES ASSUME NEW i \in DOMAIN res
             PROVE  LET sent == served'[i].response.body = Plan[i].pinned
                        good == res'[i].verified
                    IN  IF Len(served'[i].response.header) <= FlushWindow THEN good <=> sent
                        ELSE good => IsSuffix(Plan[i].pinned, served'[i].response.body)
  BY Zenon DEF VerdictIsRight, HeaderFits
<1>1. LET sent == served[i].response.body = Plan[i].pinned
          good == res[i].verified
      IN  IF Len(served[i].response.header) <= FlushWindow THEN good <=> sent
          ELSE good => IsSuffix(Plan[i].pinned, served[i].response.body)
  BY Zenon DEF VerdictIsRight, HeaderFits
<1>2. served'[i] = served[i] /\ res'[i] = res[i] BY Zenon
<1> QED BY <1>1, <1>2, Zenon

LEMMA InitTransfer == Init => TransferInv /\ VerdictIsRight
<1> SUFFICES ASSUME Init PROVE TransferInv /\ VerdictIsRight OBVIOUS
<1>1. /\ idx = 1 /\ phase = "ARP" /\ conn = NewConn(Port(1), ISS(1)) /\ served = <<>>
      /\ headerDone = FALSE /\ hashed = <<>> /\ res = <<>>
  BY DEF Init
<1>2. ServerInv BY <1>1 DEF ServerInv, Asked
<1>3. ClientInv
  <2>1. /\ conn \in Conn /\ conn.port = Port(idx) /\ conn.state = "CLOSED" /\ conn.flushBuf = <<>>
    BY <1>1, NewConns
  <2>2. Len(served) = idx - 1 BY <1>1
  <2> QED BY <1>1, <2>1, <2>2 DEF ClientInv
<1> QED BY <1>1, <1>2, <1>3 DEF TransferInv, VerdictIsRight

LEMMA ArpTransfer ==
  ASSUME Inv, OnArpReply
  PROVE  TransferInv' /\ VerdictIsRight'
<1>1. /\ phase = "ARP" /\ phase' = "HANDSHAKE" /\ conn' = Connect(conn).conn /\ una' = 0
      /\ UNCHANGED <<idx, headerDone, hashed, res>>
  BY DEF OnArpReply
<1>2. PICK iss \in ServerISSs : served' \in {served, Append(served,
             [iss |-> iss, ack |-> conn'.sndNxt, asked |-> FALSE, response |-> <<>>])}
  BY DEF OnArpReply
<1>3. /\ ServerInv /\ conn \in Conn /\ conn.port = Port(idx) /\ Len(served) = idx - 1
      /\ conn.flushBuf = <<>> /\ headerDone = FALSE /\ hashed = <<>>
      /\ idx \in Nat \ {0} /\ Len(res) = idx - 1 /\ res \in Seq(Verdict)
  BY <1>1, PlanIsSequence DEF Inv, IInv, FetchInv, TransferInv, ClientInv
<1>4. /\ conn' \in Conn /\ conn'.port = Port(idx) /\ conn'.flushBuf = <<>>
      /\ conn'.state = "SYN_SENT"
  <2>1. conn' = [conn EXCEPT !.sndNxt = (@ + 1) % SeqSpace, !.state = "SYN_SENT"]
    BY <1>1 DEF Connect, Reply
  <2>2. PICK x \in 0..SeqSpace - 1 : x = (conn.sndNxt + 1) % SeqSpace
    <3>1. conn.sndNxt + 1 \in Nat /\ SeqSpace \in Nat \ {0} BY <1>3, ConnAssumption DEF Conn
    <3> QED BY <3>1
  <2>3. conn' = [conn EXCEPT !.sndNxt = x, !.state = "SYN_SENT"] BY <2>1, <2>2, Zenon
  <2> QED BY <1>3, <2>3 DEF Conn, ConnStates
<1>5. PICK end \in ServerEnd : end.asked = FALSE /\ served' \in {served, Append(served, end)}
  <2>1. conn'.sndNxt \in 0..SeqSpace - 1 BY <1>4 DEF Conn
  <2>2. PICK end : end = [iss |-> iss, ack |-> conn'.sndNxt, asked |-> FALSE, response |-> <<>>]
    OBVIOUS
  <2>3. end \in ServerEnd /\ end.asked = FALSE BY <2>1, <2>2, ServerAssumption DEF ServerEnd
  <2> QED BY <1>2, <2>2, <2>3, Zenon
<1>6. /\ served' \in Seq(ServerEnd) /\ Len(served') \in {idx - 1, idx}
      /\ \A i \in DOMAIN served : i \in DOMAIN served' /\ served'[i] = served[i]
      /\ \A i \in DOMAIN served' : i \in DOMAIN served \/ served'[i].asked = FALSE
  <2>1. served \in Seq(ServerEnd) BY <1>3 DEF ServerInv
  <2>2. CASE served' = served BY <1>3, <2>1, <2>2
  <2>3. CASE served' = Append(served, end)
    <3>1. /\ served' \in Seq(ServerEnd) /\ Len(served') = Len(served) + 1
          /\ \A i \in 1..Len(served) : served'[i] = served[i]
          /\ served'[Len(served) + 1] = end
      BY <2>1, <2>3, AppendProperties
    <3>2. DOMAIN served = 1..Len(served) /\ DOMAIN served' = 1..Len(served') /\ Len(served) \in Nat
      BY <2>1, <3>1, LenProperties
    <3>3. Len(served') = idx BY <1>3, <3>1
    <3>4. \A i \in 1..Len(served') : i \in 1..Len(served) \/ i = Len(served) + 1 BY <3>1, <3>2
    <3>5. \A i \in 1..Len(served) : i \in 1..Len(served') BY <3>1, <3>2
    <3> QED BY <1>5, <3>1, <3>2, <3>3, <3>4, <3>5, Zenon
  <2> QED BY <1>5, <2>2, <2>3
<1>7. ServerInv'
  <2>1. \A i \in DOMAIN served : served[i].asked => served[i].response \in Responses
    BY <1>3 DEF ServerInv, Asked
  <2>2. \A i \in DOMAIN served' : served'[i].asked => served'[i].response \in Responses
    BY <1>6, <2>1, Zenon
  <2> QED BY <1>6, <2>2 DEF ServerInv, Asked
<1>8. ClientInv' BY <1>1, <1>3, <1>4, <1>6 DEF ClientInv
<1>9. VerdictIsRight'
  <2>1. \A i \in DOMAIN res : i \in DOMAIN served BY <1>3 DEF ServerInv
  <2>2. \A i \in DOMAIN res : served'[i] = served[i] BY <1>6, <2>1
  <2> QED BY <1>1, <2>2, VerdictsStay DEF Inv
<1> QED BY <1>1, <1>7, <1>8, <1>9 DEF TransferInv

(* The SYN-ACK that opens the connection is the one of its own port, and   *)
(* tells the number from which the response is counted.                    *)
LEMMA Opened ==
  ASSUME Inv, phase = "HANDSHAKE",
         NEW s \in SynAcks \cup UNION {Segments(i) : i \in Asked}, OnSegment(conn, s).tx # <<>>
  PROVE  /\ idx \in DOMAIN served /\ Len(served) = idx
         /\ OnSegment(conn, s).conn = [conn EXCEPT !.rcvNxt = (served[idx].iss + 1) % SeqSpace,
                                                   !.state = "ESTABLISHED"]
<1>1. /\ conn.port = Port(idx) /\ conn.state = "SYN_SENT" /\ Len(served) \in {idx - 1, idx}
      /\ idx \in DOMAIN Plan /\ served \in Seq(ServerEnd) /\ idx \in Nat
  BY PlanIsSequence DEF Inv, IInv, FetchInv, TransferInv, ClientInv, ServerInv
<1>2. ForUs(conn, s) /\ OnSegment(conn, s) = OnSynAck(conn, s)
  <2>1. Ignore(conn).tx = <<>> BY DEF Ignore, Reply
  <2> QED BY <1>1, <2>1 DEF OnSegment
<1>3. /\ {"SYN", "ACK"} \subseteq s.flags
      /\ OnSegment(conn, s).conn = [conn EXCEPT !.rcvNxt = (s.seq + 1) % SeqSpace,
                                                !.state = "ESTABLISHED"]
  <2>1. Ignore(conn).tx = <<>> BY DEF Ignore, Reply
  <2>2. {"SYN", "ACK"} \subseteq s.flags /\ s.ack = conn.sndNxt
    <3>1. CASE ~({"SYN", "ACK"} \subseteq s.flags /\ s.ack = conn.sndNxt)
      <4>1. OnSynAck(conn, s) = Ignore(conn) BY <3>1, Zenon DEF OnSynAck
      <4> QED BY <1>2, <2>1, <4>1, Zenon
    <3> QED BY <3>1, Zenon
  <2>3. PICK e : e = [conn EXCEPT !.rcvNxt = (s.seq + 1) % SeqSpace, !.state = "ESTABLISHED"]
    OBVIOUS
  <2>4. OnSynAck(conn, s) = Reply(e, <<build(e, {"ACK"}, <<>>)>>, <<>>)
    BY <2>2, <2>3, Zenon DEF OnSynAck
  <2>5. PICK tx : tx = <<build(e, {"ACK"}, <<>>)>> OBVIOUS
  <2>6. Reply(e, tx, <<>>).conn = e BY DEF Reply
  <2> QED BY <1>2, <2>2, <2>3, <2>4, <2>5, <2>6, Zenon
<1>4. s \notin UNION {Segments(i) : i \in Asked}
  <2> SUFFICES ASSUME NEW i \in Asked, s \in Segments(i) PROVE FALSE BY Zenon
  <2>1. PICK fin \in BOOLEAN, from \in Int, n \in Int : s = Stretch(i, from, n, fin)
    <3>1. PICK fin \in BOOLEAN, from \in 0..Len(Stream(i)), n \in 0..MaxSegment :
            s = Stretch(i, from, n, from + n = Len(Stream(i)) /\ fin)
      BY DEF Segments
    <3>2. PICK end \in BOOLEAN : end = (from + n = Len(Stream(i)) /\ fin) OBVIOUS
    <3>3. from \in Int /\ n \in Int OBVIOUS
    <3> QED BY <3>1, <3>2, <3>3, Zenon
  <2>2. s.flags = IF fin THEN {"FIN", "ACK"} ELSE {"ACK"} BY <2>1 DEF Stretch, Segment
  <2> QED BY <1>3, <2>2
<1>5. PICK i \in DOMAIN served : \E a : s = Segment(Port(i), {"SYN", "ACK"}, served[i].iss, a, <<>>)
  <2>1. s \in SynAcks BY <1>4
  <2> QED BY <2>1 DEF SynAcks
<1>6. s.dst = Port(i) /\ s.seq = served[i].iss BY <1>5 DEF Segment
<1>7. i \in DOMAIN Plan BY <1>1, PlanIsSequence
<1>8. i = idx BY <1>1, <1>2, <1>6, <1>7, PortAssumption DEF ForUs
<1>9. Len(served) = idx BY <1>1, <1>8
<1> QED BY <1>3, <1>6, <1>8, <1>9, Zenon

(* When nothing has come in yet, the stream is at its start.               *)
LEMMA AtTheStart ==
  ASSUME NEW r \in Responses, NEW iss \in 0..SeqSpace - 1, NEW c,
         c.rcvNxt = (iss + 1) % SeqSpace, c.flushBuf = <<>>
  PROVE  StreamAt(r, iss, 0, 0, c, 0, FALSE, <<>>) /\ 0 \in 0..Len(Whole(r))
<1>1. PICK st \in Text, len \in Nat : st = Whole(r) /\ len = Len(st)
  <2>1. Whole(r) \in Text BY Response, Zenon
  <2>2. Len(Whole(r)) \in Nat BY <2>1, LenProperties, Zenon DEF Text
  <2> QED BY <2>1, <2>2, Zenon
<1>2. Slice(st, 0, 0) = <<>>
  <2>1. 0 \in 0..Len(st) BY <1>1
  <2>2. 0 \in 0..0 /\ 0 - 0 = 0 OBVIOUS
  <2>3. PICK u : u = Slice(st, 0, 0) /\ u \in Text /\ Len(u) = 0
    <3>1. PICK a \in 0..Len(st) : a = 0 /\ a \in a..Len(st) BY <2>1
    <3>2. Slice(st, a, a) \in Text /\ Len(Slice(st, a, a)) = a - a BY <3>1, SliceFacts, Zenon
    <3> QED BY <2>2, <3>1, <3>2, Zenon
  <2>4. u \in Seq(Bytes) BY <2>3, Zenon DEF Text
  <2> QED BY <2>3, <2>4, EmptySeq
<1>3. 0 = (0 \div FlushWindow) * FlushWindow
  <2>1. PICK n \in Nat \ {0} : n = FlushWindow BY ConnAssumption
  <2>2. 0 \div n = 0
    <3>1. 0 * n <= 0 /\ 0 - 0 * n < n /\ 0 \in Nat OBVIOUS
    <3> QED BY <3>1, OneQuotient
  <2> QED BY <2>1, <2>2
<1>4. 0 \in 0..len OBVIOUS
<1>5. BufferAt(r, c.flushBuf, 0, 0) BY <1>1, <1>2, <1>3, <1>4, Zenon DEF BufferAt
<1>6. Passed(r, FALSE, <<>>, 0) BY Zenon DEF Passed
<1>7. c.rcvNxt = (iss + 1 + 0) % SeqSpace
  <2>1. iss + 1 + 0 = iss + 1 OBVIOUS
  <2> QED BY <2>1, Zenon
<1>8. <<>> \in Text BY Joins, Zenon
<1>9. 0 \in 0..0 OBVIOUS
<1>10. StreamAt(r, iss, 0, 0, c, 0, FALSE, <<>>) BY <1>5, <1>6, <1>7, <1>8, <1>9, Zenon DEF StreamAt
<1> QED BY <1>1, <1>4, <1>10, Zenon

LEMMA SynAckTransfer ==
  ASSUME Inv, NEW s \in SynAcks \cup UNION {Segments(i) : i \in Asked}, OnSynAckFrame(s)
  PROVE  TransferInv' /\ VerdictIsRight'
<1>1. CASE OnSegment(conn, s).tx = <<>>
  <2>1. UNCHANGED <<clientVars, served, una>> BY <1>1 DEF OnSynAckFrame
  <2>2. UNCHANGED <<idx, phase, conn, headerDone, hashed, res, served, una>>
    BY <2>1 DEF clientVars
  <2>3. TransferInv'
    BY <2>2 DEF Inv, TransferInv, ServerInv, ClientInv, Streaming, Asked
  <2>4. VerdictIsRight' BY <2>2, VerdictsStay DEF Inv
  <2> QED BY <2>3, <2>4
<1>2. CASE OnSegment(conn, s).tx # <<>>
  <2>1. /\ phase = "HANDSHAKE" /\ phase' = "RECV"
        /\ conn' = Send(OnSegment(conn, s).conn, GET).conn
        /\ UNCHANGED <<idx, headerDone, hashed, res, una>>
    BY <1>2 DEF OnSynAckFrame
  <2>2. PICK response \in Responses :
          served' \in {served, [served EXCEPT ![idx] = [@ EXCEPT !.asked = TRUE, !.response = response]]}
    BY <1>2 DEF OnSynAckFrame
  <2>3. /\ idx \in DOMAIN served /\ Len(served) = idx
        /\ OnSegment(conn, s).conn = [conn EXCEPT !.rcvNxt = (served[idx].iss + 1) % SeqSpace,
                                                  !.state = "ESTABLISHED"]
    BY <1>2, <2>1, Opened
  <2>4. /\ conn \in Conn /\ conn.port = Port(idx) /\ conn.flushBuf = <<>> /\ una = 0
        /\ headerDone = FALSE /\ hashed = <<>> /\ served \in Seq(ServerEnd)
        /\ \A i \in Asked : served[i].response \in Responses
        /\ idx \in Nat \ {0} /\ Len(res) = idx - 1 /\ res \in Seq(Verdict)
    BY <2>1, PlanIsSequence DEF Inv, IInv, FetchInv, TransferInv, ClientInv, ServerInv
  <2>5. PICK end \in ServerEnd : end = served[idx] /\ served[idx].iss \in 0..SeqSpace - 1
    <3>1. PICK end \in ServerEnd : end = served[idx] BY <2>3, <2>4
    <3>2. end.iss \in 0..SeqSpace - 1 BY DEF ServerEnd
    <3> QED BY <3>1, <3>2, Zenon
  <2>6. /\ conn' \in Conn /\ conn'.port = Port(idx) /\ conn'.state = "ESTABLISHED"
        /\ conn'.rcvNxt = (served[idx].iss + 1) % SeqSpace /\ conn'.flushBuf = <<>>
    <3>1. PICK x \in 0..SeqSpace - 1 : x = (served[idx].iss + 1) % SeqSpace
      BY <2>5, ConnAssumption
    <3>2. PICK c : c = OnSegment(conn, s).conn OBVIOUS
    <3>3. c = [conn EXCEPT !.rcvNxt = x, !.state = "ESTABLISHED"] BY <2>3, <3>1, <3>2, Zenon
    <3>4. /\ c \in Conn /\ c.port = conn.port /\ c.state = "ESTABLISHED" /\ c.rcvNxt = x
          /\ c.flushBuf = conn.flushBuf
      BY <2>4, <3>3 DEF Conn, ConnStates
    <3>5. conn' = [c EXCEPT !.sndNxt = (@ + Len(GET)) % SeqSpace]
      BY <2>1, <3>2, <3>4 DEF Send, Reply
    <3>6. PICK y \in 0..SeqSpace - 1 : y = (c.sndNxt + Len(GET)) % SeqSpace
      <4>1. c.sndNxt + Len(GET) \in Nat /\ SeqSpace \in Nat \ {0} BY <3>4, ConnAssumption DEF GET, Conn
      <4> QED BY <4>1
    <3>7. conn' = [c EXCEPT !.sndNxt = y] BY <3>5, <3>6, Zenon
    <3>8. /\ conn' \in Conn /\ conn'.port = c.port /\ conn'.state = c.state
          /\ conn'.rcvNxt = c.rcvNxt /\ conn'.flushBuf = c.flushBuf
      BY <3>4, <3>7 DEF Conn
    <3> QED BY <2>4, <3>1, <3>4, <3>8, Zenon
  <2>7. /\ served' \in Seq(ServerEnd) /\ Len(served') = idx /\ DOMAIN served' = DOMAIN served
        /\ \A i \in DOMAIN served : i # idx => served'[i] = served[i]
        /\ served'[idx].iss = served[idx].iss
        /\ served'[idx] = served[idx] \/ served'[idx].response = response
    <3>1. PICK new : new = [end EXCEPT !.asked = TRUE, !.response = response] OBVIOUS
    <3>2. new \in ServerEnd /\ new.iss = end.iss /\ new.response = response BY <3>1 DEF ServerEnd
    <3>3. CASE served' = served BY <2>3, <2>4, <3>3
    <3>4. CASE served' = [served EXCEPT ![idx] = new]
      <4>1. served' \in Seq(ServerEnd) BY <2>3, <2>4, <3>2, <3>4
      <4>2. Len(served') = Len(served) /\ DOMAIN served' = DOMAIN served /\ served'[idx] = new
            /\ \A i \in DOMAIN served : i # idx => served'[i] = served[i]
        BY <2>3, <2>4, <3>4
      <4> QED BY <2>3, <2>5, <3>2, <4>1, <4>2, Zenon
    <3> QED BY <2>2, <2>5, <3>1, <3>3, <3>4, Zenon
  <2>8. ServerInv'
    <3>1. \A i \in DOMAIN served' : served'[i].asked => served'[i].response \in Responses
      BY <2>2, <2>4, <2>7 DEF Asked
    <3> QED BY <2>7, <3>1 DEF ServerInv, Asked
  <2>9. ClientInv' BY <2>1, <2>4, <2>6, <2>7 DEF ClientInv
  <2>10. idx' \in Asked' => Streaming'
    <3> SUFFICES ASSUME idx' \in Asked' PROVE Streaming' OBVIOUS
    <3>1. PICK r \in Responses : r = served'[idx].response
      BY <2>1, <2>8 DEF ServerInv
    <3>2. PICK iss \in 0..SeqSpace - 1 : iss = served[idx].iss BY <2>5
    <3>3. StreamAt(r, iss, 0, 0, conn', 0, FALSE, <<>>) /\ 0 \in 0..Len(Whole(r))
      BY <2>6, <3>2, AtTheStart, Zenon
    <3>4. StreamAt(r, iss, 0, 0, conn', una', headerDone', hashed')
      BY <2>1, <2>4, <3>3, Zenon
    <3> QED BY <2>1, <2>7, <3>1, <3>2, <3>3, <3>4, Zenon DEF Streaming
  <2>11. VerdictIsRight'
    <3>1. \A i \in DOMAIN res : i \in DOMAIN served /\ i # idx BY <2>3, <2>4
    <3>2. \A i \in DOMAIN res : served'[i] = served[i] BY <2>7, <3>1
    <3> QED BY <2>1, <3>2, VerdictsStay DEF Inv
  <2> QED BY <2>8, <2>9, <2>10, <2>11 DEF TransferInv
<1> QED BY <1>1, <1>2

(* What the response of the file being fetched is.                         *)
LEMMA StreamingOf ==
  ASSUME Inv, phase = "RECV", idx \in Asked
  PROVE  \E r \in Responses, iss \in 0..SeqSpace - 1, t, f \in Nat :
           /\ t \in 0..Len(Whole(r)) /\ f \in 0..Len(Whole(r))
           /\ r = served[idx].response /\ iss = served[idx].iss /\ Stream(idx) = Whole(r)
           /\ StreamAt(r, iss, t, f, conn, una, headerDone, hashed)
           /\ t \in 0..SeqSpace - 1
<1>1. PICK r \in Responses : r = served[idx].response
  BY DEF Inv, TransferInv, ServerInv
<1>2. PICK iss \in 0..SeqSpace - 1 : iss = served[idx].iss
  <2>1. idx \in DOMAIN served /\ served \in Seq(ServerEnd)
    BY DEF Inv, TransferInv, ServerInv, Asked
  <2>2. PICK end \in ServerEnd : end = served[idx] BY <2>1
  <2>3. end.iss \in 0..SeqSpace - 1 BY DEF ServerEnd
  <2> QED BY <2>2, <2>3, Zenon
<1>3. Stream(idx) = Whole(r) BY <1>1, Zenon DEF Stream, Whole
<1>4. Streaming BY DEF Inv, TransferInv
<1>5. PICK t \in 0..Len(Whole(r)), f \in 0..Len(Whole(r)) :
        StreamAt(r, iss, t, f, conn, una, headerDone, hashed)
  BY <1>1, <1>2, <1>4, Zenon DEF Streaming
<1>6. t \in 0..SeqSpace - 1
  <2>1. PICK x \in Nat, y \in Nat : x = Len(r.header) /\ y = Len(r.body) /\ Len(Whole(r)) = x + y
    BY Response, Zenon
  <2>2. x + y + 1 < SeqSpace BY <2>1, ServerAssumption
  <2>3. t \in 0..x + y BY <2>1, Zenon
  <2> QED BY <2>2, <2>3, ConnAssumption
<1>7. t \in Nat /\ f \in Nat
  <2>1. Len(Whole(r)) \in Nat
    <3>1. Whole(r) \in Text BY Response, Zenon
    <3> QED BY <3>1, LenProperties, Zenon DEF Text
  <2> QED BY <2>1
<1> QED BY <1>1, <1>2, <1>3, <1>5, <1>6, <1>7, Zenon

LEMMA StreamTransfer ==
  ASSUME Inv, NEW s \in SynAcks \cup UNION {Segments(i) : i \in Asked}, OnStreamFrame(s)
  PROVE  TransferInv' /\ VerdictIsRight'
<1>1. phase = "RECV" BY DEF OnStreamFrame
<1>2. /\ FetchInv /\ ServerInv /\ ClientInv /\ VerdictIsRight
      /\ conn \in Conn /\ conn.port = Port(idx) /\ conn.state = "ESTABLISHED"
      /\ Len(served) = idx /\ idx \in Nat \ {0} /\ Len(res) = idx - 1 /\ res \in Seq(Verdict)
      /\ served \in Seq(ServerEnd)
  BY <1>1, PlanIsSequence DEF Inv, IInv, FetchInv, TransferInv, ClientInv, ServerInv
<1>3. CASE OnSegment(conn, s) = Ignore(conn)
  <2>1. /\ UNCHANGED <<conn, headerDone, phase, res, una, idx, served>>
        /\ hashed \in Text => hashed' = hashed
    BY <1>2, <1>3, IgnoredStep
  <2>2. ServerInv' BY <1>2, <2>1 DEF ServerInv, Asked
  <2>3. ClientInv' BY <1>1, <1>2, <2>1 DEF ClientInv
  <2>4. idx' \in Asked' => Streaming'
    <3> SUFFICES ASSUME idx' \in Asked' PROVE Streaming' OBVIOUS
    <3>1. idx \in Asked BY <2>1 DEF Asked
    <3>2. PICK r \in Responses, iss \in 0..SeqSpace - 1, t \in Nat, f \in Nat :
            /\ t \in 0..Len(Whole(r)) /\ f \in 0..Len(Whole(r))
            /\ r = served[idx].response /\ iss = served[idx].iss
            /\ StreamAt(r, iss, t, f, conn, una, headerDone, hashed)
      BY <1>1, <3>1, StreamingOf, Zenon
    <3>3. hashed' = hashed BY <2>1, <3>2, Zenon DEF StreamAt
    <3>4. StreamAt(r, iss, t, f, conn', una', headerDone', hashed') BY <2>1, <3>2, <3>3, Zenon
    <3> QED BY <2>1, <3>2, <3>4, Zenon DEF Streaming
  <2>5. VerdictIsRight' BY <1>2, <2>1, VerdictsStay
  <2> QED BY <2>2, <2>3, <2>4, <2>5 DEF TransferInv
<1>4. CASE OnSegment(conn, s) # Ignore(conn)
  <2>1. /\ idx \in Asked /\ idx \in DOMAIN served
        /\ \E from \in 0..Len(Stream(idx)), n \in Nat, fin \in BOOLEAN :
             /\ from + n <= Len(Stream(idx)) /\ (fin => from + n = Len(Stream(idx)))
             /\ s.data = SubSeq(Stream(idx), from + 1, from + n)
             /\ conn.rcvNxt = (served[idx].iss + 1 + from) % SeqSpace
             /\ OnSegment(conn, s) = IF fin THEN OnFin(conn, s) ELSE OnData(conn, s)
    BY <1>1, <1>2, <1>4, OnlyTheNextStretch
  <2>2. PICK r \in Responses, iss \in 0..SeqSpace - 1, t \in Nat, f \in Nat :
          /\ t \in 0..Len(Whole(r)) /\ f \in 0..Len(Whole(r))
          /\ r = served[idx].response /\ iss = served[idx].iss /\ Stream(idx) = Whole(r)
          /\ StreamAt(r, iss, t, f, conn, una, headerDone, hashed)
          /\ t \in 0..SeqSpace - 1
    BY <1>1, <2>1, StreamingOf, Zenon
  <2>3. PICK from \in 0..Len(Whole(r)), n \in Nat, fin \in BOOLEAN :
          /\ from + n <= Len(Whole(r)) /\ (fin => from + n = Len(Whole(r)))
          /\ s.data = Slice(Whole(r), from, from + n)
          /\ conn.rcvNxt = (iss + 1 + from) % SeqSpace
          /\ OnSegment(conn, s) = IF fin THEN OnFin(conn, s) ELSE OnData(conn, s)
    BY <2>1, <2>2, Zenon DEF Slice
  <2>4. PICK len \in Nat : len = Len(Whole(r)) /\ len < SeqSpace
    <3>1. PICK x \in Nat, y \in Nat : x = Len(r.header) /\ y = Len(r.body) /\ Len(Whole(r)) = x + y
      BY Response, Zenon
    <3>2. x + y + 1 < SeqSpace BY <3>1, ServerAssumption
    <3>3. PICK len \in Nat : len = x + y /\ len < SeqSpace BY <3>2, ConnAssumption
    <3> QED BY <3>1, <3>3, Zenon
  <2>5. from = t
    <3>1. from \in 0..SeqSpace - 1 BY <2>4, ConnAssumption
    <3>2. (((iss + 1 + from) % SeqSpace) - iss - 1) % SeqSpace = from BY <3>1, Numbers
    <3>3. (((iss + 1 + t) % SeqSpace) - iss - 1) % SeqSpace = t BY <2>2, Numbers
    <3>4. conn.rcvNxt = (iss + 1 + t) % SeqSpace BY <2>2, Zenon DEF StreamAt
    <3> QED BY <2>3, <3>2, <3>3, <3>4, Zenon
  <2>6. PICK e \in t..Len(Whole(r)) : e = from + n BY <2>3, <2>4, <2>5
  <2>7. s.data = Slice(Whole(r), t, e) BY <2>3, <2>5, <2>6, Zenon
  <2>8. CASE ~fin
    <3>1. OnSegment(conn, s) = OnData(conn, s) BY <2>3, <2>8, Zenon
    <3>2. /\ conn' \in Conn /\ conn'.port = conn.port /\ conn'.state = "ESTABLISHED"
          /\ UNCHANGED <<phase, res, idx, served>>
          /\ \E g \in 0..Len(Whole(r)) : StreamAt(r, iss, e, g, conn', una', headerDone', hashed')
      BY <1>2, <2>2, <2>7, <3>1, DataStep
    <3>3. ServerInv' BY <1>2, <3>2 DEF ServerInv, Asked
    <3>4. ClientInv' BY <1>1, <1>2, <3>2 DEF ClientInv
    <3>5. Streaming'
      <4>1. PICK g \in 0..Len(Whole(r)) : StreamAt(r, iss, e, g, conn', una', headerDone', hashed')
        BY <3>2, Zenon
      <4>2. e \in 0..Len(Whole(r)) BY <2>4
      <4> QED BY <2>2, <3>2, <4>1, <4>2, Zenon DEF Streaming
    <3>6. VerdictIsRight' BY <1>2, <3>2, VerdictsStay
    <3> QED BY <3>3, <3>4, <3>5, <3>6 DEF TransferInv
  <2>9. CASE fin
    <3>1. OnSegment(conn, s) = OnFin(conn, s) /\ e = Len(Whole(r)) BY <2>3, <2>6, <2>9, Zenon
    <3>2. /\ phase' = "DONE" /\ UNCHANGED <<idx, served>>
          /\ res' = Append(res, [name |-> Plan[idx].name, verified |-> hashed' = Plan[idx].pinned])
          /\ hashed' \in Text /\ Passed(r, headerDone', hashed', Len(Whole(r)))
      BY <1>2, <2>2, <2>7, <3>1, FinStep
    <3>3. ServerInv' BY <1>2, <3>2 DEF ServerInv, Asked
    <3>4. ClientInv' BY <1>2, <3>2 DEF ClientInv
    <3>5. IF Len(r.header) <= FlushWindow THEN hashed' = r.body ELSE IsSuffix(hashed', r.body)
      BY <3>2, AllPassed
    <3>6. PICK v \in Verdict : /\ res' = Append(res, v) /\ (v.verified <=> hashed' = Plan[idx].pinned)
      <4>1. PICK v : v = [name |-> Plan[idx].name, verified |-> hashed' = Plan[idx].pinned] OBVIOUS
      <4>2. Plan[idx].name \in Names BY <1>2, PlanNames DEF FetchInv
      <4>3. v \in Verdict /\ (v.verified <=> hashed' = Plan[idx].pinned)
        BY <4>1, <4>2 DEF Verdict
      <4> QED BY <3>2, <4>1, <4>3, Zenon
    <3>7. /\ \A i \in DOMAIN res' : i = idx \/ i \in DOMAIN res
          /\ \A i \in DOMAIN res : res'[i] = res[i]
          /\ res'[idx] = v
      BY <1>2, <3>6
    <3>8. VerdictIsRight'
      <4> SUFFICES ASSUME NEW i \in DOMAIN res'
                   PROVE  LET sent == served[i].response.body = Plan[i].pinned
                              good == res'[i].verified
                          IN  IF Len(served[i].response.header) <= FlushWindow THEN good <=> sent
                              ELSE good => IsSuffix(Plan[i].pinned, served[i].response.body)
        BY <3>2, Zenon DEF VerdictIsRight, HeaderFits
      <4>1. CASE i = idx
        <5>1. res'[i].verified <=> hashed' = Plan[i].pinned BY <3>6, <3>7, <4>1, Zenon
        <5>2. CASE Len(r.header) <= FlushWindow
          <6>1. hashed' = r.body BY <3>5, <5>2, Zenon
          <6> QED BY <2>2, <4>1, <5>1, <5>2, <6>1, Zenon
        <5>3. CASE ~(Len(r.header) <= FlushWindow)
          <6>1. IsSuffix(hashed', r.body) BY <3>5, <5>3, Zenon
          <6> QED BY <2>2, <4>1, <5>1, <5>3, <6>1, Zenon
        <5> QED BY <5>2, <5>3, Zenon
      <4>2. CASE i \in DOMAIN res
        <5>1. LET sent == served[i].response.body = Plan[i].pinned
                  good == res[i].verified
              IN  IF Len(served[i].response.header) <= FlushWindow THEN good <=> sent
                  ELSE good => IsSuffix(Plan[i].pinned, served[i].response.body)
          BY <1>2, <4>2, Zenon DEF VerdictIsRight, HeaderFits
        <5> QED BY <3>7, <4>2, <5>1, Zenon
      <4> QED BY <3>7, <4>1, <4>2, Zenon
    <3> QED BY <3>2, <3>3, <3>4, <3>8 DEF TransferInv
  <2> QED BY <2>8, <2>9
<1> QED BY <1>3, <1>4

LEMMA NextFileTransfer ==
  ASSUME Inv, NextFile
  PROVE  TransferInv' /\ VerdictIsRight'
<1>1. /\ phase = "DONE" /\ idx' = idx + 1 /\ phase' = "ARP"
      /\ conn' = NewConn(Port(idx + 1), ISS(idx + 1)) /\ headerDone' = FALSE /\ hashed' = <<>>
      /\ res' = res /\ served' = served
  BY DEF NextFile, StartFields
<1>2. idx \in Nat \ {0} /\ Len(served) = idx /\ ServerInv
  BY <1>1, PlanIsSequence DEF Inv, IInv, FetchInv, TransferInv, ClientInv
<1>3. ServerInv' BY <1>1, <1>2 DEF ServerInv, Asked
<1>4. ClientInv'
  <2>1. PICK i \in Nat \ {0} : i = idx + 1 /\ i - 1 = idx BY <1>2
  <2>2. /\ conn' \in Conn /\ conn'.port = Port(i) /\ conn'.state = "CLOSED" /\ conn'.flushBuf = <<>>
    BY <1>1, <2>1, NewConns
  <2> QED BY <1>1, <1>2, <2>1, <2>2 DEF ClientInv
<1>5. VerdictIsRight' BY <1>1, VerdictsStay DEF Inv
<1> QED BY <1>1, <1>3, <1>4, <1>5 DEF TransferInv

LEMMA InvHolds == Spec => []Inv
<1>1. Init => Inv BY InitInv, InitTransfer DEF Inv
<1>2. Inv /\ [Next]_vars => Inv'
  <2> SUFFICES ASSUME Inv, [Next]_vars PROVE Inv'
    OBVIOUS
  <2>1. CASE OnArpReply BY <2>1, ArpStep, ArpTransfer DEF Inv
  <2>2. CASE OnFrame
    <3>1. PICK s \in SynAcks \cup UNION {Segments(i) : i \in Asked} :
            OnSynAckFrame(s) \/ OnStreamFrame(s)
      BY <2>2, Zenon DEF OnFrame
    <3>2. IInv' BY <3>1, SynAckStep, StreamStep DEF Inv
    <3>3. TransferInv' /\ VerdictIsRight' BY <3>1, SynAckTransfer, StreamTransfer
    <3> QED BY <3>2, <3>3 DEF Inv
  <2>3. CASE NextFile BY <2>3, NextFileStep, NextFileTransfer DEF Inv
  <2>4. CASE UNCHANGED vars
    <3>1. IInv' BY <2>4 DEF vars, clientVars, Inv, IInv, FetchInv, VerifiedIsStored
    <3>2. UNCHANGED <<idx, phase, conn, headerDone, hashed, res, served, una>>
      BY <2>4 DEF vars, clientVars
    <3>3. TransferInv'
      BY <3>2 DEF Inv, TransferInv, ServerInv, ClientInv, Streaming, Asked
    <3>4. VerdictIsRight' BY <3>2, VerdictsStay DEF Inv
    <3> QED BY <3>1, <3>3, <3>4 DEF Inv
  <2> QED BY <2>1, <2>2, <2>3, <2>4 DEF Next
<1> QED BY <1>1, <1>2, PTL DEF Spec

(* Whatever is lost, repeated, cut anew, reordered or left over from an    *)
(* earlier connection, the sequence numbers wrapping round or not: the     *)
(* hash has had the full windows of the body from its first byte, and the  *)
(* buffer of the connection holds the rest (Conn.acceptPayload,            *)
(* bodySink.Write).                                                        *)
THEOREM BytesArriveInOrder == Spec => []BytesInOrder
<1>1. Inv => BytesInOrder
  <2> SUFFICES ASSUME Inv, phase = "RECV", idx \in Asked PROVE BytesInOrder
    BY DEF BytesInOrder
  <2>1. PICK r \in Responses, iss \in 0..SeqSpace - 1, t \in Nat, f \in Nat :
          /\ t \in 0..Len(Whole(r)) /\ f \in 0..Len(Whole(r))
          /\ r = served[idx].response /\ iss = served[idx].iss /\ Stream(idx) = Whole(r)
          /\ StreamAt(r, iss, t, f, conn, una, headerDone, hashed)
          /\ t \in 0..SeqSpace - 1
    BY StreamingOf, Zenon
  <2>2. /\ conn.rcvNxt = (iss + 1 + t) % SeqSpace /\ una \in 0..t
        /\ conn.flushBuf = Slice(Whole(r), f, t) /\ f = (t \div FlushWindow) * FlushWindow
        /\ Passed(r, headerDone, hashed, f)
    BY <2>1, Zenon DEF StreamAt, BufferAt
  <2>3. Taken = t
    <3>1. (((iss + 1 + t) % SeqSpace) - iss - 1) % SeqSpace = t BY <2>1, Numbers
    <3> QED BY <2>1, <2>2, <3>1, Zenon DEF Taken
  <2>4. FlushWindow * (Taken \div FlushWindow) = f
    <3>1. PICK n \in Nat \ {0} : n = FlushWindow BY ConnAssumption
    <3>2. PICK q \in Nat : q = t \div n BY Quotient
    <3>3. q * n = n * q OBVIOUS
    <3> QED BY <2>2, <2>3, <3>1, <3>2, <3>3, Zenon
  <2>5. una <= Taken /\ Taken <= Len(Stream(idx)) BY <2>1, <2>2, <2>3
  <2>6. conn.flushBuf = SubSeq(Stream(idx), f + 1, Taken) BY <2>1, <2>2, <2>3, Zenon DEF Slice
  <2>7. HeaderFits(idx) => hashed = SubSeq(Stream(idx), Len(served[idx].response.header) + 1, f)
    <3> SUFFICES ASSUME Len(r.header) <= FlushWindow
                 PROVE  hashed = Slice(Whole(r), Len(r.header), f)
      BY <2>1, Zenon DEF HeaderFits, Slice
    <3>1. CASE headerDone BY <2>2, <3>1, Zenon DEF Passed
    <3>2. CASE ~headerDone
      <4>1. hashed = <<>> /\ f = 0 BY <2>2, <3>2, Zenon DEF Passed
      <4>2. Whole(r) \in Seq(Bytes) /\ Len(r.header) \in Nat BY Response, Zenon DEF Text
      <4>3. SubSeq(Whole(r), Len(r.header) + 1, 0) = <<>> BY <4>2
      <4> QED BY <4>1, <4>3, Zenon DEF Slice
    <3> QED BY <3>1, <3>2
  <2> QED BY <2>4, <2>5, <2>6, <2>7, Zenon DEF BytesInOrder
<1> QED BY <1>1, InvHolds, PTL

(* A file is verified if and only if the server sent the pinned bytes; if  *)
(* its header fills more than a window, only if what was pinned is an end  *)
(* of what was sent (bodySink.Write, Provisioner.OnFrame).                 *)
THEOREM VerdictsAreRight == Spec => []VerdictIsRight
BY InvHolds, PTL DEF Inv
=============================================================================
