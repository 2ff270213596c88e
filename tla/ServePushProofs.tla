-------------------------- MODULE ServePushProofs --------------------------
(***************************************************************************)
(* What the serve program's clients end up with, for every cast of pushers *)
(* and readers, every file and block size, and however often datagrams are *)
(* repeated, late or lost.  The argument: every DATA on the wire is the    *)
(* block it is numbered as, a receiver holds exactly the blocks it has     *)
(* acknowledged, and an acknowledgement of a file's short block is sent    *)
(* only once the push has been settled.                                    *)
(***************************************************************************)
EXTENDS ServePush, SequenceTheorems, FiniteSetTheorems, WellFoundedInduction, TLAPS


(* Arithmetic and sequences.                                               *)

(* Fewer blocks are no more units.                                         *)
LEMMA BlocksGrow ==
  ASSUME NEW a \in Nat, NEW b \in Nat, a <= b, NEW n \in Nat
  PROVE  a * n <= b * n
<1>1. PICK d \in Nat : b = a + d BY b - a \in Nat
<1>2. b * n = a * n + d * n /\ d * n \in Nat /\ a * n \in Nat BY <1>1
<1> QED BY <1>2
(* Quotient and remainder.                                                 *)
LEMMA Quotient ==
  ASSUME NEW t \in Nat, NEW d \in Nat \ {0}
  PROVE  \E q \in Nat : t = q * d + (t % d) /\ t % d \in 0..d - 1 /\ t % d <= t
<1>0. t \div d \in Nat /\ t % d \in 0..d - 1 OBVIOUS
<1>3. t = d * (t \div d) + (t % d) OBVIOUS
<1>1. PICK q \in Nat : q = t \div d BY <1>0
<1>2. PICK r \in 0..d - 1 : r = t % d BY <1>0
<1>4. t = q * d + r BY <1>1, <1>2, <1>3
<1>5. q * d \in Nat OBVIOUS
<1>6. r <= t BY <1>4, <1>5
<1> QED BY <1>2, <1>4, <1>6

(* A remainder is the only one.                                            *)
LEMMA OneRemainder ==
  ASSUME NEW d \in Nat \ {0}, NEW p \in Nat, NEW q \in Nat,
         NEW a \in 0..d - 1, NEW b \in 0..d - 1, p * d + a = q * d + b
  PROVE  a = b
<1>1. p * d \in Nat /\ q * d \in Nat OBVIOUS
<1>2. ASSUME NEW x \in Nat, NEW y \in Nat, x < y PROVE x * d + d <= y * d
  <2>1. (x + 1) * d = x * d + d OBVIOUS
  <2> QED BY <1>2, <2>1, BlocksGrow
<1>3. ~(p < q) BY <1>1, <1>2
<1>4. ~(q < p) BY <1>1, <1>2
<1> QED BY <1>1, <1>3, <1>4

(* What is left over of a sum is what is left over of the two left-overs.  *)
LEMMA RemainderOfSum ==
  ASSUME NEW t \in Nat, NEW k \in Nat, NEW d \in Nat \ {0}
  PROVE  ((t % d) + k) % d = (t + k) % d
<1>1. PICK p \in Nat : t = p * d + (t % d) /\ t % d \in 0..d - 1 BY Quotient
<1>2. PICK s \in Nat : s = (t % d) + k
  <2>1. t % d \in 0..d - 1 BY <1>1
  <2> QED BY <2>1
<1>3. PICK q \in Nat : s = q * d + (s % d) /\ s % d \in 0..d - 1 BY Quotient
<1>4. PICK r \in Nat : t + k = r * d + ((t + k) % d) /\ (t + k) % d \in 0..d - 1
  BY t + k \in Nat, Quotient
<1>5. PICK a \in 0..d - 1, b \in 0..d - 1 : a = s % d /\ b = (t + k) % d BY <1>3, <1>4
<1>6. PICK u \in Nat : u = p + q OBVIOUS
<1>7. u * d + a = r * d + b
  <2>1. PICK pd \in Nat, qd \in Nat, rd \in Nat : pd = p * d /\ qd = q * d /\ rd = r * d
    OBVIOUS
  <2>2. u * d = pd + qd BY <1>6, <2>1
  <2>3. t = pd + (t % d) /\ s = qd + a /\ t + k = rd + b /\ s = (t % d) + k
    BY <1>1, <1>2, <1>3, <1>4, <1>5, <2>1
  <2>4. pd + qd + a = rd + b BY <1>1, <2>3
  <2> QED BY <2>1, <2>2, <2>4
<1>8. a = b BY <1>7, OneRemainder
<1> QED BY <1>2, <1>5, <1>8

(* A sequence is its first k elements and then the others.                 *)
LEMMA FirstAndRest ==
  ASSUME NEW S, NEW s \in Seq(S), NEW k \in 0..Len(s), NEW n \in k..Len(s)
  PROVE  SubSeq(s, 1, k) \o SubSeq(s, k + 1, n) = SubSeq(s, 1, n)
<1>1. 1 \in 1..Len(s) + 1 /\ k \in 1 - 1..Len(s) /\ n \in k..Len(s) OBVIOUS
<1> QED BY <1>1, ConcatAdjacentSubSeq

-----------------------------------------------------------------------------
Files == DOMAIN Size
Units == Files \X Nat
Text == Seq(Units)

\* The first k units of a file, or all there are.
Upto(f, k) == IF k < Size[f] THEN k ELSE Size[f]
Start(f, k) == SubSeq(Content(f), 1, Upto(f, k))
Piece(f, k, n) == SubSeq(Content(f), k + 1, Upto(f, k + n))
-----------------------------------------------------------------------------
(* A file is a sequence of units of the length the program is told         *)
(* (tftp.ByteSource).                                                      *)
LEMMA ContentIsSeq ==
  ASSUME NEW f \in Files
  PROVE  Content(f) \in Seq(Units) /\ Len(Content(f)) = Size[f] /\ Size[f] \in Nat
<1>1. Size[f] \in Nat BY PushAssumption DEF Files
<1>2. \A u \in 1..Size[f] : <<f, u>> \in Units BY <1>1 DEF Units
<1> QED BY <1>1, <1>2 DEF Content

(* No more than the file, and no less than nothing.                        *)
LEMMA UptoIsNat == ASSUME NEW f \in Files, NEW k \in Nat PROVE Upto(f, k) \in Nat
BY ContentIsSeq DEF Upto

(* The start of a file: how long it is, that it is a prefix, and when it   *)
(* is the whole.                                                           *)
LEMMA StartFacts ==
  ASSUME NEW f \in Files, NEW k \in Nat
  PROVE  /\ Start(f, k) \in Seq(Units) /\ Len(Start(f, k)) = Upto(f, k)
         /\ Upto(f, k) \in 0..Size[f]
         /\ Size[f] <= k => Start(f, k) = Content(f)
         /\ IsPrefix(Start(f, k), Content(f))
<1>1. Content(f) \in Seq(Units) /\ Len(Content(f)) = Size[f] /\ Size[f] \in Nat
  BY ContentIsSeq
<1>2. Upto(f, k) \in 0..Size[f] /\ (Size[f] <= k => Upto(f, k) = Size[f]) BY <1>1 DEF Upto
<1>3. Start(f, k) \in Seq(Units) /\ Len(Start(f, k)) = Upto(f, k)
  BY <1>1, <1>2 DEF Start
<1>4. Size[f] <= k => Start(f, k) = Content(f) BY <1>1, <1>2, SubSeqFull DEF Start
<1>5. SubSeq(Start(f, k), 1, Len(Start(f, k))) = Start(f, k) BY <1>3, SubSeqFull
<1>6. IsPrefix(Start(f, k), Content(f))
  <2>1. Len(Start(f, k)) <= Len(Content(f)) BY <1>1, <1>2, <1>3
  <2>2. SubSeq(Content(f), 1, Len(Start(f, k))) = Start(f, k) BY <1>3 DEF Start
  <2> QED BY <1>5, <2>1, <2>2 DEF IsPrefix
<1> QED BY <1>2, <1>3, <1>4, <1>6

(* The piece of n units from k on takes the start from k to k + n, and it  *)
(* is short exactly when the file ends before k + n.                       *)
LEMMA PieceFacts ==
  ASSUME NEW f \in Files, NEW k \in Nat, NEW n \in Nat \ {0}
  PROVE  /\ Piece(f, k, n) \in Seq(Units)
         /\ Len(Piece(f, k, n)) = Upto(f, k + n) - Upto(f, k)
         /\ Len(Piece(f, k, n)) < n <=> Size[f] < k + n
         /\ Start(f, k) \o Piece(f, k, n) = Start(f, k + n)
<1>1. Content(f) \in Seq(Units) /\ Len(Content(f)) = Size[f] /\ Size[f] \in Nat
  BY ContentIsSeq
<1>2. CASE k <= Size[f]
  <2>1. /\ Upto(f, k) = k /\ Upto(f, k + n) \in k..Size[f]
        /\ Upto(f, k + n) < k + n <=> Size[f] < k + n
    BY <1>1, <1>2 DEF Upto
  <2>2. Piece(f, k, n) \in Seq(Units) /\ Len(Piece(f, k, n)) = Upto(f, k + n) - k
    BY <1>1, <2>1 DEF Piece
  <2>3. k \in 0..Len(Content(f)) /\ Upto(f, k + n) \in k..Len(Content(f))
    BY <1>1, <1>2, <2>1
  <2>4. SubSeq(Content(f), 1, k) \o SubSeq(Content(f), k + 1, Upto(f, k + n))
          = SubSeq(Content(f), 1, Upto(f, k + n))
    BY <1>1, <2>3, FirstAndRest
  <2> QED BY <2>1, <2>2, <2>4 DEF Start, Piece
<1>3. CASE Size[f] < k
  <2>1. Upto(f, k) = Size[f] /\ Upto(f, k + n) = Size[f] BY <1>1, <1>3 DEF Upto
  <2>2. Piece(f, k, n) = <<>> BY <1>1, <1>3, <2>1, SubSeqEmpty DEF Piece
  <2>3. Start(f, k) = Start(f, k + n) /\ Start(f, k) \in Seq(Units)
    BY <2>1, StartFacts DEF Start
  <2>4. Start(f, k) \o <<>> = Start(f, k) BY <2>3, ConcatEmptySeq
  <2> QED BY <1>1, <1>3, <2>1, <2>2, <2>3, <2>4
<1> QED BY <1>1, <1>2, <1>3

(* Block b of a file in blocks of n (ServerXfer.NextData, a client's DATA):*)
(* it follows the b - 1 blocks before it, and is short when the file ends  *)
(* in it.                                                                  *)
LEMMA BlockFacts ==
  ASSUME NEW f \in Files, NEW n \in Nat \ {0}, NEW b \in Nat \ {0}
  PROVE  /\ (b - 1) * n \in Nat /\ b * n = (b - 1) * n + n
         /\ Block(f, n, b) \in Seq(Units)
         /\ Len(Block(f, n, b)) = Upto(f, b * n) - Upto(f, (b - 1) * n)
         /\ Len(Block(f, n, b)) < n <=> Size[f] < b * n
         /\ Start(f, (b - 1) * n) \o Block(f, n, b) = Start(f, b * n)
<1>1. (b - 1) * n \in Nat /\ b * n = (b - 1) * n + n OBVIOUS
<1>2. PICK k \in Nat : k = (b - 1) * n /\ k + n = b * n BY <1>1
<1>3. Block(f, n, b) = Piece(f, k, n) BY <1>2, Zenon DEF Block, Piece, Upto
<1>4. /\ Piece(f, k, n) \in Seq(Units)
      /\ Len(Piece(f, k, n)) = Upto(f, k + n) - Upto(f, k)
      /\ Len(Piece(f, k, n)) < n <=> Size[f] < k + n
      /\ Start(f, k) \o Piece(f, k, n) = Start(f, k + n)
  BY PieceFacts, Zenon
<1> QED BY <1>1, <1>2, <1>3, <1>4, Zenon

-----------------------------------------------------------------------------
(* The sector sink.                                                        *)

(* Joining sequences is associative.                                       *)
LEMMA Associative == \A x, y, z \in Text : (x \o y) \o z = x \o (y \o z)
<1> SUFFICES ASSUME NEW x \in Text, NEW y \in Text, NEW z \in Text
             PROVE  (x \o y) \o z = x \o (y \o z)
  OBVIOUS
<1>1. x \in Seq(Units) /\ y \in Seq(Units) /\ z \in Seq(Units) BY Zenon DEF Text
<1>2. (x \o y) \o z = x \o (y \o z) BY <1>1, ConcatAssociative
<1> QED BY <1>2, Zenon

Sink == [buf : Seq(Units), total : Nat, written : Seq(Units)]

\* What a sink was given is what its sectors and its buffer hold.
SinkHolds(sink, f, k) == /\ sink.total = Upto(f, k)
                         /\ sink.written \o sink.buf = Start(f, k)
                         /\ Len(sink.buf) = sink.total % SectorSize

(* The sizes are what the program's constants are.                         *)
LEMMA SectorSizes == /\ SectorSize \in Nat \ {0} /\ RecordSize \in Nat
                     /\ RecordSize % SectorSize = 0
BY PushAssumption

\* A buffer b, with w on the sectors before it, is given p.
FlushingKeeps(w, b, p) ==
  /\ Flushed(b \o p) \in Text /\ Remainder(b \o p) \in Text
  /\ (w \o Flushed(b \o p)) \o Remainder(b \o p) = (w \o b) \o p
  /\ Len(Remainder(b \o p)) = (Len(b) + Len(p)) % SectorSize

(* Full sectors are flushed and the rest stays behind: together they are   *)
(* what was in the buffer and what was written (RawSink.Write).            *)
LEMMA Flushing == ASSUME NEW w \in Text, NEW b \in Text, NEW p \in Text
                  PROVE  FlushingKeeps(w, b, p)
<1>0. PICK s : s = b \o p OBVIOUS
<1>1. s \in Seq(Units) /\ Len(s) = Len(b) + Len(p)
  <2>1. b \in Seq(Units) /\ p \in Seq(Units) BY Zenon DEF Text
  <2> QED BY <1>0, <2>1, ConcatProperties
<1>2. PICK l \in Nat : l = Len(s) BY <1>1
<1>3. PICK r \in Nat : r = l % SectorSize /\ r <= l
  <2>1. l % SectorSize \in 0..SectorSize - 1 /\ l % SectorSize <= l BY SectorSizes, Quotient
  <2> QED BY <2>1, SectorSizes
<1>4. PICK c \in 0..l : c = l - r BY <1>3
<1>5. Flushed(s) = SubSeq(s, 1, c) /\ Remainder(s) = SubSeq(s, c + 1, l)
  BY <1>2, <1>3, <1>4 DEF Flushed, Remainder, Rest
<1>6. SubSeq(s, 1, c) \o SubSeq(s, c + 1, l) = s
  <2>1. c \in 0..Len(s) /\ l \in c..Len(s) BY <1>2
  <2>2. SubSeq(s, 1, c) \o SubSeq(s, c + 1, l) = SubSeq(s, 1, l) BY <1>1, <2>1, FirstAndRest
  <2> QED BY <1>1, <1>2, <2>2, SubSeqFull
<1>7. /\ SubSeq(s, 1, c) \in Seq(Units) /\ SubSeq(s, c + 1, l) \in Seq(Units)
      /\ Len(SubSeq(s, c + 1, l)) = l - c
  BY <1>1, <1>2
<1>8. /\ Flushed(s) \in Text /\ Remainder(s) \in Text
      /\ Flushed(s) \o Remainder(s) = b \o p
  BY <1>0, <1>5, <1>6, <1>7, Zenon DEF Text
<1>9. (w \o Flushed(s)) \o Remainder(s) = (w \o b) \o p
  <2>1. (w \o Flushed(s)) \o Remainder(s) = w \o (Flushed(s) \o Remainder(s))
    BY <1>8, Associative, Zenon
  <2>2. (w \o b) \o p = w \o (b \o p) BY Associative, Zenon
  <2> QED BY <1>8, <2>1, <2>2, Zenon
<1>10. Len(Remainder(s)) = (Len(b) + Len(p)) % SectorSize
  <2>1. l - c = r BY <1>3, <1>4
  <2> QED BY <1>1, <1>2, <1>3, <1>5, <1>7, <2>1, Zenon
<1> QED BY <1>0, <1>8, <1>9, <1>10, Zenon DEF FlushingKeeps

(* Writing a piece of a file to a sink that holds what comes before it     *)
(* (RawSink.Write).                                                        *)
LEMMA WriteHolds ==
  ASSUME NEW sink \in Sink, NEW f \in Files, NEW k \in Nat, NEW n \in Nat \ {0},
         SinkHolds(sink, f, k), NEW p, p = Piece(f, k, n)
  PROVE  /\ SinkWrite(sink, p) \in Sink
         /\ SinkHolds(SinkWrite(sink, p), f, k + n)
<1>1. /\ p \in Seq(Units) /\ Len(p) = Upto(f, k + n) - Upto(f, k)
      /\ Start(f, k) \o p = Start(f, k + n)
  BY PieceFacts
<1>2. /\ sink.buf \in Seq(Units) /\ sink.written \in Seq(Units)
      /\ sink.total = Upto(f, k) /\ sink.written \o sink.buf = Start(f, k)
      /\ Len(sink.buf) = sink.total % SectorSize
  BY DEF Sink, SinkHolds
<1>3. PICK s : s = sink.buf \o p OBVIOUS
<1>4. /\ Flushed(s) \in Seq(Units) /\ Remainder(s) \in Seq(Units)
      /\ (sink.written \o Flushed(s)) \o Remainder(s) = Start(f, k + n)
      /\ Len(Remainder(s)) = (Len(sink.buf) + Len(p)) % SectorSize
  <2>1. sink.written \in Text /\ sink.buf \in Text /\ p \in Text
    BY <1>1, <1>2, Zenon DEF Text
  <2>2. PICK w \in Text, b \in Text : w = sink.written /\ b = sink.buf BY <2>1, Zenon
  <2>3. s = b \o p BY <1>3, <2>2, Zenon
  <2>4. /\ Flushed(s) \in Text /\ Remainder(s) \in Text
        /\ (w \o Flushed(s)) \o Remainder(s) = (w \o b) \o p
        /\ Len(Remainder(s)) = (Len(b) + Len(p)) % SectorSize
    <3>1. FlushingKeeps(w, b, p) BY <2>1, Flushing, Zenon
    <3> QED BY <2>3, <3>1, Zenon DEF FlushingKeeps
  <2>5. w \o b = Start(f, k) BY <1>2, <2>2, Zenon
  <2>6. (w \o b) \o p = Start(f, k + n) BY <1>1, <2>5, Zenon
  <2>7. (w \o Flushed(s)) \o Remainder(s) = Start(f, k + n) BY <2>4, <2>6, Zenon
  <2>8. Flushed(s) \in Seq(Units) /\ Remainder(s) \in Seq(Units) BY <2>4, Zenon DEF Text
  <2>9. Len(Remainder(s)) = (Len(sink.buf) + Len(p)) % SectorSize BY <2>2, <2>4, Zenon
  <2> QED BY <2>2, <2>7, <2>8, <2>9, Zenon
<1>5. PICK a \in Nat, l \in Nat : a = Upto(f, k) /\ l = Len(p) /\ Upto(f, k + n) = a + l
  <2>1. Upto(f, k) \in Nat /\ Upto(f, k + n) \in Nat
    <3>1. k \in Nat /\ k + n \in Nat OBVIOUS
    <3> QED BY <3>1, UptoIsNat, Zenon
  <2>2. Len(p) \in Nat /\ Len(p) = Upto(f, k + n) - Upto(f, k) BY <1>1, LenProperties, Zenon
  <2>3. PICK a \in Nat, l \in Nat, u \in Nat : a = Upto(f, k) /\ l = Len(p) /\ u = Upto(f, k + n)
    BY <2>1, <2>2, Zenon
  <2>4. l = u - a BY <2>2, <2>3, Zenon
  <2>5. u = a + l BY <2>4
  <2> QED BY <2>3, <2>5, Zenon
<1>6. ((a % SectorSize) + l) % SectorSize = (a + l) % SectorSize
  BY SectorSizes, RemainderOfSum
<1>7. PICK w : w = SinkWrite(sink, p) OBVIOUS
<1>8. w = [buf |-> Remainder(s), total |-> a + l, written |-> sink.written \o Flushed(s)]
  BY <1>2, <1>3, <1>5, <1>7, Zenon DEF SinkWrite
<1>9. sink.written \o Flushed(s) \in Seq(Units) BY <1>2, <1>4, ConcatProperties
<1>10. w \in Sink BY <1>4, <1>8, <1>9 DEF Sink
<1>11. w.total = a + l /\ w.buf = Remainder(s) /\ w.written = sink.written \o Flushed(s)
  BY <1>8
<1>12. SinkHolds(w, f, k + n) BY <1>2, <1>4, <1>5, <1>6, <1>11, Zenon DEF SinkHolds
<1> QED BY <1>7, <1>10, <1>12, Zenon

(* An image of the right size ends on a sector: what the sectors hold is   *)
(* the file (RawSink.Finish).                                              *)
LEMMA WholeSectors ==
  ASSUME NEW sink \in Sink, NEW f \in Files, NEW k \in Nat, SinkHolds(sink, f, k),
         Size[f] <= k, Size[f] = RecordSize
  PROVE  SinkFinish(sink).written = Content(f)
<1>1. /\ sink.buf \in Seq(Units) /\ sink.written \in Seq(Units)
      /\ sink.total = Upto(f, k) /\ sink.written \o sink.buf = Start(f, k)
      /\ Len(sink.buf) = sink.total % SectorSize
  BY DEF Sink, SinkHolds
<1>2. Upto(f, k) = RecordSize BY ContentIsSeq, SectorSizes DEF Upto
<1>3. sink.buf = <<>> BY <1>1, <1>2, SectorSizes, EmptySeq
<1>4. sink.written = Start(f, k) BY <1>1, <1>3, ConcatEmptySeq
<1>5. Start(f, k) = Content(f) BY StartFacts
<1> QED BY <1>3, <1>4, <1>5 DEF SinkFinish
-----------------------------------------------------------------------------
USE PushAssumption

(* The invariant.                                                          *)

Receiver == [acked : Nat, done : BOOLEAN, data : Seq(Units), sink : Sink, filename : Pushers]
Xfer == [file : Served, blksize : Nat \ {0}, next : Nat \ {0}, sent : Seq(Units), done : BOOLEAN]
Claims == {[record |-> r, owner |-> c, body |-> Content(c)] :
             r \in FreeAtStart, c \in {p \in Pushers : Acceptable(p)}}

AtMostOne(s, S) == s = <<>> \/ (s[1] \in S /\ s = <<s[1]>>)

StateOK ==
  /\ strategy \in {"highest", "lowest", "explicit"}
  /\ cphase \in [Clients -> {"off", "idle", "busy", "done", "failed"}]
  /\ cblk \in [Clients -> Nat] /\ got \in [Readers -> Seq(Units)]
  /\ AtMostOne(wrqRecv, Receiver) /\ AtMostOne(xfer, Xfer)
  /\ freeRecords \subseteq FreeAtStart /\ claims \in Seq(Claims)

\* What has become of c's push is decided: it is on a record if it may be.
Settled(c) == Acceptable(c) => \E i \in DOMAIN claims : claims[i].owner = c

\* A datagram on the wire tells the truth.
RequestOK(m) == /\ m.to = "tftp" /\ m.op = "WRQ" => m.host \in Pushers
                /\ m.to = "tftp" /\ m.op = "RRQ" => m.host \in Readers
PushedOK(m) == m.to = "tid" /\ m.op = "DATA" =>
  /\ m.host \in Pushers /\ m.block \in Nat \ {0} /\ m.block <= cblk[m.host]
  /\ m.data = Block(m.host, blksize[m.host], m.block)
ReadOK(m) == m.to = "host" /\ m.op = "DATA" =>
  /\ m.host \in Readers /\ Resolves(Reads[m.host]) /\ m.block \in Nat \ {0}
  /\ m.data = Block(Reads[m.host], blksize[m.host], m.block)
AckOK(m) == m.to = "host" /\ m.op = "ACK" =>
  /\ m.host \in Pushers /\ m.block \in Nat
  /\ m.block * blksize[m.host] > Size[m.host] => Settled(m.host)
Honest(m) == RequestOK(m) /\ PushedOK(m) /\ ReadOK(m) /\ AckOK(m)

WireInv == \A m \in net : Honest(m)

\* A pusher sends nothing after its short block, and is done when that one
\* is acknowledged.
PusherInv == \A c \in Pushers :
  /\ cblk[c] > 0 => (cblk[c] - 1) * blksize[c] <= Size[c]
  /\ cphase[c] = "done" => Settled(c)

\* A reader holds the blocks it has counted.
ReaderInv == \A c \in Readers :
  IF Resolves(Reads[c])
    THEN /\ got[c] = Start(Reads[c], cblk[c] * blksize[c])
         /\ cphase[c] = "done" => got[c] = Content(Reads[c])
    ELSE got[c] = <<>> /\ cphase[c] # "done"

\* A transfer serves the client that asked last, and a read that waits for
\* its first packet has one.
XferInv == /\ justFirst => xfer # <<>>
           /\ xfer # <<>> => /\ client \in Readers /\ Resolves(Reads[client])
                             /\ xfer[1].file = Reads[client]
                             /\ xfer[1].blksize = blksize[client]

\* A receiver holds the blocks it has acknowledged; once the short one is
\* among them its push is settled, and until then a record is free for it.
Acked(r) == r.acked * blksize[r.filename]
HasBlocks(r) == IF push(r) THEN SinkHolds(r.sink, r.filename, Acked(r))
                           ELSE r.data = Start(r.filename, Acked(r))
Holds(r) == /\ HasBlocks(r)
            /\ IF Acked(r) > Size[r.filename] THEN Settled(r.filename)
                                              ELSE nextRecordForStrategy \in freeRecords
RecvInv == wrqRecv # <<>> => wrqRecv[1].filename = wrqClient /\ Holds(wrqRecv[1])

\* No record is claimed twice, and none that is free.
ClaimInv == /\ \A i \in DOMAIN claims : claims[i].record \notin freeRecords
            /\ \A i, j \in DOMAIN claims : claims[i].record = claims[j].record => i = j

IInv == /\ StateOK /\ WireInv /\ PusherInv /\ ReaderInv
        /\ XferInv /\ RecvInv /\ ClaimInv
-----------------------------------------------------------------------------
(* A pusher is a client with a file of its own, and so is what a reader    *)
(* asks for when it is served.                                             *)
LEMMA NamesAreFiles ==
  /\ Pushers \subseteq Files /\ Served \subseteq Files
  /\ \A c \in Clients : blksize[c] \in Nat \ {0}
  /\ \A c \in Readers : c \notin Pushers
BY DEF Files, Clients

(* The wire stays honest when honest datagrams join it, no client has sent *)
(* less and no settled push is open again.                                 *)
LEMMA WireGrows ==
  ASSUME StateOK, StateOK', WireInv, NEW out, net' \subseteq net \cup out,
         \A m \in out : Honest(m)',
         \A c \in Clients : cblk[c] <= cblk'[c],
         \A c \in Pushers : Settled(c) => Settled(c)'
  PROVE  WireInv'
<1> SUFFICES ASSUME NEW m \in net PROVE Honest(m)' BY DEF WireInv
<1>1. Honest(m) BY DEF WireInv
<1>2. RequestOK(m)' /\ ReadOK(m)' BY <1>1 DEF Honest, RequestOK, ReadOK
<1>3. PushedOK(m)'
  <2>1. \A c \in Pushers : cblk[c] \in Nat /\ cblk'[c] \in Nat /\ cblk[c] <= cblk'[c]
    BY DEF StateOK, Clients
  <2> QED BY <1>1, <2>1 DEF Honest, PushedOK
<1>4. AckOK(m)' BY <1>1 DEF Honest, AckOK
<1> QED BY <1>2, <1>3, <1>4 DEF Honest

(* The same for one datagram.                                              *)
LEMMA WireGrowsBy ==
  ASSUME StateOK, StateOK', WireInv, NEW m, net' \subseteq net \cup {m}, Honest(m)',
         \A c \in Clients : cblk[c] <= cblk'[c],
         \A c \in Pushers : Settled(c) => Settled(c)'
  PROVE  WireInv'
<1>1. \A x \in {m} : Honest(x)' OBVIOUS
<1> QED BY <1>1, WireGrows

(* A step of a client leaves the program's own invariants alone.           *)
LEMMA ClientKeepsServer ==
  ASSUME IInv, UNCHANGED <<strategy, pushVars, justFirst, readVars>>
  PROVE  /\ XferInv' /\ RecvInv' /\ ClaimInv'
         /\ \A c \in Pushers : Settled(c) <=> Settled(c)'
<1>0. /\ UNCHANGED <<strategy, wrqClient, wrqRecv, freeRecords, claims>>
      /\ UNCHANGED <<justFirst, client, xfer>>
  BY DEF pushVars, readVars
<1>1. XferInv' BY <1>0 DEF IInv, XferInv
<1>2. \A c : Settled(c) <=> Settled(c)' BY <1>0 DEF Settled
<1>3. ASSUME NEW r, Holds(r) PROVE Holds(r)'
  BY <1>0, <1>2, <1>3 DEF Holds, HasBlocks, Acked, nextRecordForStrategy
<1>4. RecvInv' BY <1>0, <1>3 DEF IInv, RecvInv
<1>5. ClaimInv' BY <1>0 DEF IInv, ClaimInv
<1> QED BY <1>1, <1>2, <1>4, <1>5
-----------------------------------------------------------------------------
(* The clients.                                                            *)

(* A request (Responder.OnFrame's input on port 69).                       *)
LEMMA AskKeeps == ASSUME IInv, NEW c \in Clients, Ask(c) PROVE IInv'
<1> PICK m : m = Request(IF c \in Readers THEN "RRQ" ELSE "WRQ", c) OBVIOUS
<1>0. /\ UNCHANGED <<strategy, pushVars, justFirst, readVars, cblk, got>>
      /\ net' = net \cup {m} /\ cphase' = [cphase EXCEPT ![c] = "busy"]
  BY DEF Ask
<1>1. StateOK'
  BY <1>0 DEF IInv, StateOK, pushVars, readVars
<1>2. XferInv' /\ RecvInv' /\ ClaimInv' /\ \A p \in Pushers : Settled(p) <=> Settled(p)'
  BY <1>0, ClientKeepsServer
<1>3. Honest(m)'
  BY DEF Request, Honest, RequestOK, PushedOK, ReadOK, AckOK, Clients
<1>4. WireInv'
  <2>1. \A p \in Clients : cblk[p] <= cblk'[p] BY <1>0 DEF IInv, StateOK
  <2> QED BY <1>0, <1>1, <1>2, <1>3, <2>1, WireGrowsBy DEF IInv
<1>5. \A p \in Clients : cphase'[p] = "done" => cphase[p] = "done"
  BY <1>0 DEF IInv, StateOK
<1>6. PusherInv' BY <1>0, <1>2, <1>5 DEF IInv, PusherInv, Clients
<1>7. ReaderInv' BY <1>0, <1>5 DEF IInv, ReaderInv, Clients
<1> QED BY <1>1, <1>2, <1>4, <1>6, <1>7 DEF IInv

(* A pusher's ACK: its next block goes out, or the short one is settled.   *)
LEMMA GetsAckKeeps == ASSUME IInv, NEW c \in Clients, GetsAck(c) PROVE IInv'
<1> DEFINE n == blksize[c]
<1>0. /\ UNCHANGED <<strategy, pushVars, justFirst, readVars, got>>
      /\ c \in Pushers /\ c \notin Readers /\ c \in Files
      /\ n \in Nat \ {0} /\ Size[c] \in Nat /\ cblk[c] \in Nat
      /\ ACK(c, cblk[c]) \in net
  BY NamesAreFiles DEF GetsAck, Take, IInv, StateOK, Files
<1>1. XferInv' /\ RecvInv' /\ ClaimInv' /\ \A p \in Pushers : Settled(p) <=> Settled(p)'
  BY <1>0, ClientKeepsServer
<1>2. CASE LastSent(c)
  <2>1. net' = net \cup {} /\ cphase' = [cphase EXCEPT ![c] = "done"] /\ UNCHANGED cblk
    BY <1>2 DEF GetsAck, Take
  <2>2. StateOK' BY <1>0, <2>1 DEF IInv, StateOK, pushVars, readVars
  <2>3. WireInv'
    <3>1. \A p \in Clients : cblk[p] <= cblk'[p] BY <2>1 DEF IInv, StateOK
    <3> QED BY <1>1, <2>1, <2>2, <3>1, WireGrows DEF IInv
  <2>4. Settled(c)
    <3>1. Size[c] < cblk[c] * n BY <1>0, <1>2, BlockFacts DEF LastSent
    <3>2. AckOK(ACK(c, cblk[c])) BY <1>0 DEF IInv, WireInv, Honest
    <3> QED BY <1>0, <3>1, <3>2 DEF AckOK, ACK, ToHost
  <2>5. \A p \in Clients \ {c} : cphase'[p] = cphase[p] BY <2>1 DEF IInv, StateOK
  <2>6. PusherInv' BY <1>1, <2>1, <2>4, <2>5 DEF IInv, PusherInv, Clients
  <2>7. ReaderInv' BY <1>0, <2>1, <2>5 DEF IInv, ReaderInv, Clients
  <2> QED BY <1>1, <2>2, <2>3, <2>6, <2>7 DEF IInv
<1>3. CASE ~LastSent(c)
  <2>1. /\ net' = net \cup {SendsBlock(c, cblk[c] + 1)} /\ UNCHANGED cphase
        /\ cblk' = [cblk EXCEPT ![c] = @ + 1]
    BY <1>3 DEF GetsAck, Take
  <2>2. StateOK' BY <1>0, <2>1 DEF IInv, StateOK, pushVars, readVars
  <2>3. cblk'[c] = cblk[c] + 1 /\ \A p \in Clients \ {c} : cblk'[p] = cblk[p]
    BY <2>1 DEF IInv, StateOK
  <2>4. WireInv'
    <3>1. \A p \in Clients : cblk[p] <= cblk'[p]
      <4>1. \A p \in Clients : cblk[p] \in Nat BY DEF IInv, StateOK
      <4> QED BY <2>3, <4>1
    <3>2. PICK m : m = SendsBlock(c, cblk[c] + 1) OBVIOUS
    <3>3. cblk[c] + 1 \in Nat \ {0} /\ cblk[c] + 1 <= cblk'[c] BY <1>0, <2>3
    <3>4. /\ m.to = "tid" /\ m.op = "DATA" /\ m.host = c /\ m.block = cblk[c] + 1
          /\ m.data = Block(c, n, m.block)
      BY <3>2 DEF SendsBlock, ToServer
    <3>5. Honest(m)' BY <1>0, <3>3, <3>4 DEF Honest, RequestOK, PushedOK, ReadOK, AckOK
    <3> QED BY <1>1, <2>1, <2>2, <3>1, <3>2, <3>5, WireGrowsBy DEF IInv
  <2>5. (cblk'[c] - 1) * n <= Size[c]
    <3>1. CASE cblk[c] = 0 BY <1>0, <2>3, <3>1
    <3>2. CASE cblk[c] > 0
      <4>1. ~(Size[c] < cblk[c] * n) BY <1>0, <1>3, <3>2, BlockFacts DEF LastSent
      <4>2. cblk'[c] - 1 = cblk[c] /\ cblk[c] * n \in Nat BY <1>0, <2>3
      <4> QED BY <1>0, <4>1, <4>2
    <3> QED BY <1>0, <3>1, <3>2
  <2>6. PusherInv' BY <1>1, <2>1, <2>3, <2>5 DEF IInv, PusherInv, Clients
  <2>7. ReaderInv' BY <1>0, <2>1, <2>3 DEF IInv, ReaderInv, Clients
  <2> QED BY <1>1, <2>2, <2>4, <2>6, <2>7 DEF IInv
<1> QED BY <1>2, <1>3

(* An ERROR ends a transfer that had not ended.                            *)
LEMMA GetsErrorKeeps == ASSUME IInv, NEW c \in Clients, GetsError(c) PROVE IInv'
<1>0. /\ UNCHANGED <<strategy, pushVars, justFirst, readVars, cblk, got>>
      /\ net' = net \cup {} /\ cphase' = [cphase EXCEPT ![c] = "failed"]
  BY DEF GetsError, Take
<1>1. StateOK' BY <1>0 DEF IInv, StateOK, pushVars, readVars
<1>2. XferInv' /\ RecvInv' /\ ClaimInv' /\ \A p \in Pushers : Settled(p) <=> Settled(p)'
  BY <1>0, ClientKeepsServer
<1>3. WireInv'
  <2>1. \A p \in Clients : cblk[p] <= cblk'[p] BY <1>0 DEF IInv, StateOK
  <2> QED BY <1>0, <1>1, <1>2, <2>1, WireGrows DEF IInv
<1>4. \A p \in Clients : cphase'[p] = "done" => cphase[p] = "done"
  BY <1>0 DEF IInv, StateOK
<1>5. PusherInv' BY <1>0, <1>2, <1>4 DEF IInv, PusherInv, Clients
<1>6. ReaderInv' BY <1>0, <1>4 DEF IInv, ReaderInv, Clients
<1> QED BY <1>1, <1>2, <1>3, <1>5, <1>6 DEF IInv

(* A step after which only the wire has changed, by one honest datagram.   *)
LEMMA OneMoreOnTheWire ==
  ASSUME IInv, NEW m, net' \subseteq net \cup {m}, Honest(m),
         UNCHANGED <<strategy, clientVars, pushVars, justFirst, readVars>>
  PROVE  IInv'
<1>0. UNCHANGED <<strategy, pushVars, justFirst, readVars, cphase, cblk, got>>
  BY DEF clientVars
<1>1. StateOK' BY <1>0 DEF IInv, StateOK, pushVars, readVars
<1>2. XferInv' /\ RecvInv' /\ ClaimInv' /\ \A p \in Pushers : Settled(p) <=> Settled(p)'
  BY <1>0, ClientKeepsServer
<1>3. WireInv'
  <2>1. \A p \in Clients : cblk[p] <= cblk'[p] BY <1>0 DEF IInv, StateOK
  <2>2. Honest(m)'
    BY <1>0 DEF Honest, RequestOK, PushedOK, ReadOK, AckOK, Settled, pushVars
  <2> QED BY <1>1, <1>2, <2>1, <2>2, WireGrowsBy DEF IInv
<1>4. PusherInv' BY <1>0, <1>2 DEF IInv, PusherInv
<1>5. ReaderInv' BY <1>0 DEF IInv, ReaderInv
<1> QED BY <1>1, <1>2, <1>3, <1>4, <1>5 DEF IInv

(* A reader answers the OACK.                                              *)
LEMMA GetsOACKKeeps == ASSUME IInv, NEW c \in Clients, GetsOACK(c) PROVE IInv'
<1>1. PICK m : m = ToServer("ACK", c, 0, <<>>) OBVIOUS
<1>2. net' \subseteq net \cup {m} BY <1>1 DEF GetsOACK, Take
<1>3. Honest(m) BY <1>1 DEF ToServer, Honest, RequestOK, PushedOK, ReadOK, AckOK
<1> QED BY <1>2, <1>3, OneMoreOnTheWire DEF GetsOACK

(* The next block of the file a reader waits for: it has one block more of *)
(* the file, and the whole of it when the block is short.                  *)
LEMMA GetsDataKeeps == ASSUME IInv, NEW c \in Clients, GetsData(c) PROVE IInv'
<1> DEFINE n == blksize[c]
           f == Reads[c]
           b == cblk[c] + 1
<1>0. /\ UNCHANGED <<strategy, pushVars, justFirst, readVars>>
      /\ c \in Readers /\ c \notin Pushers
      /\ n \in Nat \ {0} /\ cblk[c] \in Nat
  BY NamesAreFiles DEF GetsData, IInv, StateOK
<1>1. PICK m \in net : /\ m.to = "host" /\ m.host = c /\ m.op = "DATA" /\ m.block = b
                       /\ Take(m, {ToServer("ACK", c, m.block, <<>>)})
                       /\ got' = [got EXCEPT ![c] = @ \o m.data]
                       /\ cblk' = [cblk EXCEPT ![c] = m.block]
                       /\ cphase' = [cphase EXCEPT ![c] = IF Len(m.data) < n THEN "done" ELSE "busy"]
  BY DEF GetsData
<1>2. Resolves(f) /\ m.data = Block(f, n, b)
  <2>1. ReadOK(m) BY DEF IInv, WireInv, Honest
  <2> QED BY <1>1, <2>1 DEF ReadOK
<1>3. f \in Files /\ Size[f] \in Nat BY <1>2, NamesAreFiles DEF Resolves, Files
<1>4. /\ got[c] = Start(f, cblk[c] * n) /\ b \in Nat \ {0} /\ b - 1 = cblk[c]
      /\ b * n \in Nat
  <2>1. got[c] = Start(f, cblk[c] * n) BY <1>0, <1>2 DEF IInv, ReaderInv
  <2>2. b \in Nat \ {0} /\ b - 1 = cblk[c] BY <1>0
  <2> QED BY <1>0, <2>1, <2>2
<1>5. /\ Block(f, n, b) \in Seq(Units)
      /\ Len(Block(f, n, b)) < n <=> Size[f] < b * n
      /\ Start(f, cblk[c] * n) \o Block(f, n, b) = Start(f, b * n)
  <2>1. /\ Block(f, n, b) \in Seq(Units)
        /\ Len(Block(f, n, b)) < n <=> Size[f] < b * n
        /\ Start(f, (b - 1) * n) \o Block(f, n, b) = Start(f, b * n)
    <3> HIDE DEF n, f, b
    <3> QED BY <1>0, <1>3, <1>4, BlockFacts
  <2> QED BY <1>4, <2>1, Zenon
<1>6. /\ Start(f, b * n) \in Seq(Units)
      /\ Size[f] <= b * n => Start(f, b * n) = Content(f)
  BY <1>3, <1>4, StartFacts
<1>7. /\ got' = [got EXCEPT ![c] = Start(f, b * n)] /\ cblk' = [cblk EXCEPT ![c] = b]
      /\ cphase' = [cphase EXCEPT ![c] = IF Size[f] < b * n THEN "done" ELSE "busy"]
  BY <1>1, <1>2, <1>4, <1>5, Zenon
<1>8. StateOK'
  <2>1. cblk' \in [Clients -> Nat] BY <1>4, <1>7 DEF IInv, StateOK
  <2>2. got' \in [Readers -> Seq(Units)] BY <1>6, <1>7 DEF IInv, StateOK
  <2>3. cphase' \in [Clients -> {"off", "idle", "busy", "done", "failed"}]
    BY <1>7 DEF IInv, StateOK
  <2> QED BY <1>0, <2>1, <2>2, <2>3 DEF IInv, StateOK, pushVars, readVars
<1>9. XferInv' /\ RecvInv' /\ ClaimInv' /\ \A p \in Pushers : Settled(p) <=> Settled(p)'
  BY <1>0, ClientKeepsServer
<1>10. /\ cblk'[c] = b /\ got'[c] = Start(f, b * n)
       /\ cphase'[c] = IF Size[f] < b * n THEN "done" ELSE "busy"
       /\ \A p \in Clients \ {c} : cblk'[p] = cblk[p] /\ cphase'[p] = cphase[p]
       /\ \A p \in Readers \ {c} : got'[p] = got[p]
  BY <1>0, <1>7 DEF IInv, StateOK
<1>11. WireInv'
  <2>1. \A p \in Clients : cblk[p] <= cblk'[p]
    <3>1. \A p \in Clients : cblk[p] \in Nat BY DEF IInv, StateOK
    <3> QED BY <1>10, <3>1
  <2>2. PICK a : a = ToServer("ACK", c, m.block, <<>>) OBVIOUS
  <2>3. Honest(a)' BY <2>2 DEF ToServer, Honest, RequestOK, PushedOK, ReadOK, AckOK
  <2>4. net' \subseteq net \cup {a} BY <1>1, <2>2 DEF Take
  <2> QED BY <1>8, <1>9, <2>1, <2>3, <2>4, WireGrowsBy DEF IInv
<1>12. PusherInv' BY <1>0, <1>9, <1>10 DEF IInv, PusherInv, Clients
<1>13. ReaderInv'
  <2>1. ASSUME NEW p \in Readers \ {c}
        PROVE  IF Resolves(Reads[p])
                 THEN /\ got'[p] = Start(Reads[p], cblk'[p] * blksize[p])
                      /\ cphase'[p] = "done" => got'[p] = Content(Reads[p])
                 ELSE got'[p] = <<>> /\ cphase'[p] # "done"
    BY <1>10, <2>1 DEF IInv, ReaderInv, Clients
  <2>2. cphase'[c] = "done" => got'[c] = Content(f)
    <3>1. Size[f] < b * n => Size[f] <= b * n BY <1>3, <1>4
    <3> QED BY <1>6, <1>10, <3>1
  <2> QED BY <1>2, <1>10, <2>1, <2>2 DEF ReaderInv
<1> QED BY <1>8, <1>9, <1>11, <1>12, <1>13 DEF IInv
-----------------------------------------------------------------------------
(* The record a push goes to.                                              *)

(* A set of numbers that is not empty has a least one.                     *)
LEMMA HasLowest == ASSUME NEW S \in SUBSET Nat, S # {}
                   PROVE  Lowest(S) \in S
<1>1. PICK lo \in S : \A x \in S : ~(<<x, lo>> \in OpToRel(<, Nat))
  BY NatLessThanWellFounded, WFMin
<1>2. \A x \in S : lo <= x
  <2> SUFFICES ASSUME NEW x \in S, x < lo PROVE FALSE
    OBVIOUS
  <2>1. <<x, lo>> \in OpToRel(<, Nat) BY DEF OpToRel
  <2> QED BY <1>1, <2>1
<1> QED BY <1>2 DEF Lowest

(* And, if it is finite, a greatest one: of the finite sets without one    *)
(* the smallest would, less any of its members, have one.                  *)
LEMMA HasHighest == ASSUME NEW S \in SUBSET Nat, S # {}, IsFiniteSet(S)
                    PROVE  Highest(S) \in S
<1> DEFINE Bounded(T) == \E hi \in T : \A x \in T : hi >= x
           Bad == {T \in SUBSET S : T # {} /\ ~Bounded(T)}
<1>1. Bad = {}
  <2> SUFFICES ASSUME Bad # {} PROVE FALSE OBVIOUS
  <2>1. Bad \subseteq FiniteSubsetsOf(S) BY FS_FiniteSubsetsOfFinite
  <2>2. PICK T \in Bad : \A U \in Bad : ~(<<U, T>> \in StrictSubsetOrdering(S))
    <3>1. IsWellFoundedOn(StrictSubsetOrdering(S), FiniteSubsetsOf(S))
      BY FS_StrictSubsetOrderingWellFounded
    <3> HIDE DEF Bad
    <3> QED BY <2>1, <3>1, WFMin
  <2>3. PICK x \in T : TRUE OBVIOUS
  <2>4. T \ {x} \in SUBSET S /\ <<T \ {x}, T>> \in StrictSubsetOrdering(S)
    BY <2>3 DEF StrictSubsetOrdering
  <2>5. CASE T \ {x} = {}
    <3>1. T = {x} /\ x \in Nat BY <2>3, <2>5
    <3> QED BY <3>1
  <2>6. CASE T \ {x} # {}
    <3>1. PICK hi \in T \ {x} : \A y \in T \ {x} : hi >= y BY <2>2, <2>4, <2>6
    <3>2. x \in Nat /\ hi \in Nat /\ \A y \in T : y \in Nat BY <2>3
    <3>3. CASE hi >= x BY <3>1, <3>2, <3>3
    <3>4. CASE x >= hi
      <4>1. \A y \in T : x >= y BY <3>1, <3>2, <3>4
      <4> QED BY <2>3, <4>1
    <3> QED BY <3>2, <3>3, <3>4
  <2> QED BY <2>5, <2>6
<1>2. Bounded(S) BY <1>1
<1> QED BY <1>2 DEF Highest

(* The record a push is given is a free one (nextRecordForStrategy).       *)
LEMMA RoomIsFree ==
  ASSUME StateOK, HasRoom
  PROVE  nextRecordForStrategy \in freeRecords
<1>1. freeRecords \subseteq Nat /\ IsFiniteSet(freeRecords)
  BY FS_Subset DEF StateOK
<1>2. strategy \in {"highest", "lowest", "explicit"} BY DEF StateOK
<1>3. freeRecords # {} => Lowest(freeRecords) \in freeRecords /\ Highest(freeRecords) \in freeRecords
  BY <1>1, HasLowest, HasHighest
<1> QED BY <1>2, <1>3 DEF HasRoom, nextRecordForStrategy
-----------------------------------------------------------------------------
(* The program's own steps.                                                *)

(* The program leaves the clients' state alone.                            *)
LEMMA ServerKeepsClients ==
  ASSUME IInv, UNCHANGED clientVars, \A c \in Pushers : Settled(c) => Settled(c)'
  PROVE  /\ PusherInv' /\ ReaderInv'
         /\ \A c \in Clients : cblk[c] <= cblk'[c]
<1>0. UNCHANGED <<cphase, cblk, got>> BY DEF clientVars
<1>1. PusherInv' BY <1>0 DEF IInv, PusherInv
<1>2. ReaderInv' BY <1>0 DEF IInv, ReaderInv
<1>3. \A c \in Clients : cblk[c] <= cblk'[c] BY <1>0 DEF IInv, StateOK
<1> QED BY <1>1, <1>2, <1>3

(* A receiver that has nothing yet holds nothing (newWRQReceiver).         *)
LEMMA NewReceiver ==
  ASSUME NEW c \in Pushers
  PROVE  /\ newWRQReceiver(c) \in Receiver /\ HasBlocks(newWRQReceiver(c))
         /\ Acked(newWRQReceiver(c)) = 0 /\ Size[c] \in Nat
<1>1. c \in Files /\ Size[c] \in Nat /\ blksize[c] \in Nat BY NamesAreFiles DEF Files, Clients
<1>2. Upto(c, 0) = 0 BY <1>1 DEF Upto
<1>3. Start(c, 0) = <<>> BY <1>1, <1>2, ContentIsSeq, SubSeqEmpty DEF Start
<1>4. NewRawSink \in Sink BY DEF NewRawSink, Sink
<1>5. SinkHolds(NewRawSink, c, 0)
  <2>1. 0 % SectorSize = 0 BY SectorSizes
  <2>2. <<>> \o <<>> = <<>> OBVIOUS
  <2> QED BY <1>2, <1>3, <2>1, <2>2 DEF NewRawSink, SinkHolds
<1>6. PICK r : r = newWRQReceiver(c) OBVIOUS
<1>7. r = [acked |-> 0, done |-> FALSE, data |-> <<>>, sink |-> NewRawSink, filename |-> c]
  BY <1>6 DEF newWRQReceiver
<1>8. r \in Receiver BY <1>4, <1>7 DEF Receiver
<1>9. Acked(r) = 0 BY <1>1, <1>7 DEF Acked
<1>10. HasBlocks(r) BY <1>3, <1>5, <1>7, <1>9 DEF HasBlocks
<1> QED BY <1>1, <1>6, <1>8, <1>9, <1>10

(* A push request arms a receiver, or is refused (Responder.startWrite).   *)
LEMMA StartWriteKeeps == ASSUME IInv, NEW m \in net, startWrite(m) PROVE IInv'
<1> DEFINE c == m.host
<1>0. /\ c \in Pushers /\ wrqClient' = c /\ justFirst' = FALSE
      /\ UNCHANGED <<strategy, clientVars, freeRecords, claims, client, xfer>>
  BY DEF startWrite, readVars, IInv, WireInv, Honest, RequestOK
<1>1. \A p : Settled(p) <=> Settled(p)' BY <1>0 DEF Settled
<1>2. PusherInv' /\ ReaderInv' /\ \A p \in Clients : cblk[p] <= cblk'[p]
  BY <1>0, <1>1, ServerKeepsClients
<1>3. XferInv' BY <1>0 DEF IInv, XferInv
<1>4. ClaimInv' BY <1>0 DEF IInv, ClaimInv
<1>5. CASE HasRoom
  <2>1. wrqRecv' = <<newWRQReceiver(c)>> /\ net' = net \cup {ACK(c, 0)}
    BY <1>5 DEF startWrite, Armed, Take
  <2>2. PICK r \in Receiver : r = newWRQReceiver(c) BY <1>0, NewReceiver
  <2>3. HasBlocks(r) /\ Acked(r) = 0 /\ Size[c] \in Nat /\ r.filename = c
    BY <1>0, <2>2, NewReceiver DEF newWRQReceiver
  <2>4. StateOK' BY <1>0, <2>1, <2>2 DEF IInv, StateOK, AtMostOne, clientVars
  <2>5. Holds(r)'
    <3>1. nextRecordForStrategy \in freeRecords BY <1>5, RoomIsFree DEF IInv
    <3>2. nextRecordForStrategy' = nextRecordForStrategy BY <1>0 DEF nextRecordForStrategy
    <3>3. ~(Acked(r) > Size[r.filename]) BY <2>3
    <3> QED BY <1>0, <2>3, <3>1, <3>2, <3>3 DEF Holds, Acked, HasBlocks
  <2>6. RecvInv' BY <1>0, <2>1, <2>2, <2>3, <2>5 DEF RecvInv
  <2>7. PICK a : a = ACK(c, 0) OBVIOUS
  <2>8. a.to = "host" /\ a.op = "ACK" /\ a.host = c /\ a.block = 0
    BY <2>7 DEF ACK, ToHost
  <2>9. Honest(a)'
    <3>1. 0 * blksize[c] = 0 BY <1>0, NamesAreFiles DEF Clients
    <3> QED BY <1>0, <2>3, <2>8, <3>1 DEF Honest, RequestOK, PushedOK, ReadOK, AckOK
  <2>10. WireInv' BY <1>1, <1>2, <2>1, <2>4, <2>7, <2>9, WireGrowsBy DEF IInv
  <2> QED BY <1>2, <1>3, <1>4, <2>4, <2>6, <2>10 DEF IInv
<1>6. CASE ~HasRoom
  <2>1. wrqRecv' = <<>> /\ net' = net \cup {ERROR(c)} BY <1>6 DEF startWrite, Take
  <2>2. StateOK' BY <1>0, <2>1 DEF IInv, StateOK, AtMostOne, clientVars
  <2>3. RecvInv' BY <2>1 DEF RecvInv
  <2>4. PICK a : a = ERROR(c) OBVIOUS
  <2>5. Honest(a)' BY <2>4 DEF ERROR, ToHost, Honest, RequestOK, PushedOK, ReadOK, AckOK
  <2>6. WireInv' BY <1>1, <1>2, <2>1, <2>2, <2>4, <2>5, WireGrowsBy DEF IInv
  <2> QED BY <1>2, <1>3, <1>4, <2>2, <2>3, <2>6 DEF IInv
<1> QED BY <1>5, <1>6

(* The next block of a push, arrived: the receiver then holds one block    *)
(* more, the block is short exactly when the file ends in it, and a record *)
(* was free for the push (WRQReceiver.recvData).                           *)
LEMMA NextBlock ==
  ASSUME IInv, NEW m \in net, ForReceiver(m), FromPusher(m),
         m.block = wrqRecv[1].acked + 1,
         NEW r, r = wrqRecv[1], NEW x, x = With(r, m)
  PROVE  /\ r \in Receiver /\ x \in Receiver /\ wrqClient \in Pushers /\ Size[wrqClient] \in Nat
         /\ r.filename = wrqClient /\ x.filename = wrqClient /\ m.block \in Nat
         /\ x.acked = m.block /\ HasBlocks(x)
         /\ Acked(x) \in Nat /\ Acked(x) = m.block * blksize[wrqClient]
         /\ IsShort(m) <=> Acked(x) > Size[wrqClient]
         /\ nextRecordForStrategy \in freeRecords
<1> DEFINE c == wrqClient
           n == blksize[c]
           b == m.block
<1>1. r \in Receiver /\ r.filename = c /\ Holds(r)
  BY DEF IInv, StateOK, AtMostOne, ForReceiver, RecvInv
<1>2. /\ c \in Pushers /\ c \in Files /\ Size[c] \in Nat /\ n \in Nat \ {0}
      /\ r.acked \in Nat /\ r.acked + 1 = b
  BY <1>1, NamesAreFiles DEF Receiver, Clients, Files
<1>3. b \in Nat \ {0} /\ b <= cblk[c] /\ m.data = Block(c, n, b)
  <2>1. PushedOK(m) BY DEF IInv, WireInv, Honest
  <2> QED BY <2>1 DEF PushedOK, ForReceiver, FromPusher
<1>4. /\ (b - 1) * n \in Nat /\ b * n = (b - 1) * n + n
      /\ Block(c, n, b) \in Seq(Units)
      /\ Len(Block(c, n, b)) < n <=> Size[c] < b * n
      /\ Start(c, (b - 1) * n) \o Block(c, n, b) = Start(c, b * n)
      /\ Block(c, n, b) = Piece(c, (b - 1) * n, n)
  <2> HIDE DEF c, n, b
  <2>1. /\ (b - 1) * n \in Nat /\ b * n = (b - 1) * n + n
        /\ Block(c, n, b) \in Seq(Units)
        /\ Len(Block(c, n, b)) < n <=> Size[c] < b * n
        /\ Start(c, (b - 1) * n) \o Block(c, n, b) = Start(c, b * n)
    <3>1. c \in Files /\ n \in Nat \ {0} /\ b \in Nat \ {0} BY <1>2, <1>3
    <3> QED BY <3>1, BlockFacts
  <2>2. Block(c, n, b) = Piece(c, (b - 1) * n, n) BY <2>1, Zenon DEF Block, Piece, Upto
  <2> QED BY <2>1, <2>2, Zenon
<1>5. PICK k \in Nat : k = (b - 1) * n /\ k + n = b * n /\ k = Acked(r)
  <2>1. r.acked = b - 1 BY <1>2
  <2> QED BY <1>1, <1>4, <2>1 DEF Acked
<1>6. PICK d \in Seq(Units) : d = m.data /\ d = Piece(c, k, n) /\ Start(c, k) \o d = Start(c, k + n)
  BY <1>3, <1>4, <1>5, Zenon
<1>7. /\ x.acked = b /\ x.filename = c /\ x.done = (r.done \/ IsShort(m))
      /\ x.sink = (IF push(r) THEN SinkWrite(r.sink, d) ELSE r.sink)
      /\ x.data = (IF push(r) THEN r.data ELSE r.data \o d)
      /\ x = [acked |-> x.acked, done |-> x.done, data |-> x.data, sink |-> x.sink, filename |-> x.filename]
      /\ push(x) <=> push(r)
  BY <1>1, <1>6 DEF Receiver, With, push
<1>8. HasBlocks(r) /\ r.sink \in Sink /\ r.data \in Seq(Units) /\ r.done \in BOOLEAN
  BY <1>1 DEF Holds, Receiver
<1>9. /\ x.sink \in Sink /\ x.data \in Seq(Units)
      /\ IF push(x) THEN SinkHolds(x.sink, c, k + n) ELSE x.data = Start(c, k + n)
  <2>1. CASE push(r)
    <3>1. SinkHolds(r.sink, c, k) BY <1>1, <1>5, <1>8, <2>1 DEF HasBlocks
    <3>2. SinkWrite(r.sink, d) \in Sink /\ SinkHolds(SinkWrite(r.sink, d), c, k + n)
      <4> HIDE DEF c, n, b
      <4> QED BY <1>2, <1>6, <1>8, <3>1, WriteHolds
    <3> QED BY <1>7, <1>8, <2>1, <3>2
  <2>2. CASE ~push(r)
    <3>1. r.data = Start(c, k) BY <1>1, <1>5, <1>8, <2>2 DEF HasBlocks
    <3>2. Start(c, k + n) \in Seq(Units)
      <4>1. k + n \in Nat BY <1>2
      <4> HIDE DEF c, n, b
      <4> QED BY <1>2, <4>1, StartFacts
    <3>3. x.data = Start(c, k + n) BY <1>6, <1>7, <2>2, <3>1, Zenon
    <3> QED BY <1>7, <1>8, <2>2, <3>2, <3>3
  <2> QED BY <2>1, <2>2
<1>10. Acked(x) = k + n /\ k + n = b * n BY <1>5, <1>7 DEF Acked
<1>11. x \in Receiver
  <2>1. x.done \in BOOLEAN BY <1>7
  <2>2. x.acked \in Nat /\ x.filename \in Pushers BY <1>2, <1>3, <1>7
  <2> QED BY <1>7, <1>9, <2>1, <2>2 DEF Receiver
<1>12. HasBlocks(x) BY <1>7, <1>9, <1>10, Zenon DEF HasBlocks
<1>13. IsShort(m) <=> Acked(x) > Size[c]
  <2>1. IsShort(m) <=> Len(Block(c, n, b)) < n BY <1>1, <1>3 DEF IsShort
  <2>2. Size[c] < b * n <=> b * n > Size[c] BY <1>2, <1>4
  <2> QED BY <1>4, <1>10, <2>1, <2>2
<1>14. nextRecordForStrategy \in freeRecords
  <2>1. (cblk[c] - 1) * n <= Size[c] BY <1>2, <1>3 DEF IInv, PusherInv, StateOK, Clients
  <2>2. (b - 1) * n <= (cblk[c] - 1) * n
    <3>1. cblk[c] \in Nat BY <1>2 DEF IInv, StateOK, Clients
    <3>2. b - 1 \in Nat /\ cblk[c] - 1 \in Nat /\ b - 1 <= cblk[c] - 1 BY <1>3, <3>1
    <3> HIDE DEF b, n, c
    <3> QED BY <1>2, <3>2, BlocksGrow
  <2>3. ~(k > Size[c])
    <3>1. PICK z \in Nat : z = (cblk[c] - 1) * n
      <4>1. cblk[c] - 1 \in Nat BY <1>2, <1>3 DEF IInv, StateOK, Clients
      <4> QED BY <1>2, <4>1
    <3> QED BY <1>2, <1>5, <2>1, <2>2, <3>1
  <2> QED BY <1>1, <1>5, <2>3 DEF Holds
<1> QED BY <1>1, <1>2, <1>3, <1>7, <1>10, <1>11, <1>12, <1>13, <1>14, <1>5

(* A push that ends goes whole onto a record that was free, if its size is *)
(* right (finalizePush, finalizeFlat).                                     *)
LEMMA ClaimFacts ==
  ASSUME StateOK, ClaimInv, NEW c \in Pushers, NEW x \in Receiver,
         x.filename = c, HasBlocks(x), Acked(x) \in Nat, Acked(x) > Size[c],
         nextRecordForStrategy \in freeRecords, Valid(x), Claim(x)
  PROVE  /\ Acceptable(c) /\ Stored(x) = Content(c)
         /\ claims' \in Seq(Claims) /\ freeRecords' \subseteq FreeAtStart
         /\ ClaimInv' /\ Settled(c)' /\ \A p \in Pushers : Settled(p) => Settled(p)'
<1>1. c \in Files /\ Size[c] \in Nat /\ Class[c] \in {"disk", "flat"}
  BY NamesAreFiles DEF Files
<1>2. PICK k \in Nat : k = Acked(x) /\ Size[c] <= k /\ k > Size[c] BY <1>1
<1>3. Acceptable(c) /\ Stored(x) = Content(c)
  <2>1. CASE push(x)
    <3>1. SinkHolds(x.sink, c, k) /\ x.sink \in Sink BY <1>2, <2>1 DEF HasBlocks, Receiver
    <3>2. Upto(c, k) = Size[c] BY <1>1, <1>2 DEF Upto
    <3>3. Size[c] = RecordSize BY <2>1, <3>1, <3>2 DEF Valid, SinkHolds
    <3>4. SinkFinish(x.sink).written = Content(c)
      BY <1>1, <1>2, <3>1, <3>3, WholeSectors
    <3> QED BY <2>1, <3>3, <3>4 DEF Acceptable, Stored
  <2>2. CASE ~push(x)
    <3>1. x.data = Start(c, k) BY <1>2, <2>2 DEF HasBlocks
    <3>2. Start(c, k) = Content(c) BY <1>1, <1>2, StartFacts
    <3> QED BY <1>1, <2>2, <3>1, <3>2 DEF Acceptable, Stored, push
  <2> QED BY <2>1, <2>2
<1>4. PICK n \in freeRecords : n = nextRecordForStrategy OBVIOUS
<1>5. PICK e : e = [record |-> n, owner |-> c, body |-> Content(c)] OBVIOUS
<1>6. claims' = Append(claims, e) /\ freeRecords' = freeRecords \ {n}
  BY <1>3, <1>4, <1>5 DEF Claim, removeFreeRecord
<1>7. e \in Claims BY <1>3, <1>5 DEF StateOK, Claims
<1>8. claims \in Seq(Claims) /\ freeRecords \subseteq FreeAtStart BY DEF StateOK
<1>9. PICK l \in Nat : /\ l = Len(claims) /\ DOMAIN claims = 1..l /\ DOMAIN claims' = 1..l + 1
                       /\ claims'[l + 1] = e /\ \A i \in 1..l : claims'[i] = claims[i]
  BY <1>6, <1>7, <1>8
<1>10. claims' \in Seq(Claims) BY <1>6, <1>7, <1>8
<1>11. e.record = n /\ e.owner = c BY <1>5
<1>12. ClaimInv'
  <2>1. \A i \in 1..l : claims[i].record \notin freeRecords BY <1>9 DEF ClaimInv
  <2>2. \A i, j \in 1..l : claims[i].record = claims[j].record => i = j
    BY <1>9 DEF ClaimInv
  <2>3. \A i \in 1..l + 1 : i \in 1..l \/ i = l + 1 OBVIOUS
  <2>4. \A i \in 1..l + 1 : claims'[i].record \notin freeRecords'
    BY <1>6, <1>9, <1>11, <2>1, <2>3
  <2>5. \A i, j \in 1..l + 1 : claims'[i].record = claims'[j].record => i = j
    BY <1>9, <1>11, <2>1, <2>2, <2>3
  <2> QED BY <1>9, <2>4, <2>5 DEF ClaimInv
<1>13. Settled(c)'
  <2>1. l + 1 \in 1..l + 1 OBVIOUS
  <2> QED BY <1>9, <1>11, <2>1 DEF Settled
<1>14. \A p \in Pushers : Settled(p) => Settled(p)'
  <2>1. \A i \in 1..l : i \in 1..l + 1 OBVIOUS
  <2> QED BY <1>9, <2>1 DEF Settled
<1> QED BY <1>3, <1>6, <1>8, <1>10, <1>12, <1>13, <1>14

(* The next block of a push is stored (Responder.recvData).                *)
LEMMA StoresNextKeeps ==
  ASSUME IInv, NEW m \in net, ForReceiver(m), StoresNext(m) PROVE IInv'
<1> PICK c : c = wrqClient OBVIOUS
<1>0. /\ FromPusher(m) /\ m.block = wrqRecv[1].acked + 1
      /\ UNCHANGED <<strategy, clientVars, wrqClient, justFirst, readVars>>
  BY DEF StoresNext
<1>1. PICK r : r = wrqRecv[1] OBVIOUS
<1>2. PICK x : x = With(r, m) OBVIOUS
<1>3. /\ r \in Receiver /\ x \in Receiver /\ c \in Pushers /\ Size[c] \in Nat
      /\ r.filename = c /\ x.filename = c /\ m.block \in Nat
      /\ x.acked = m.block /\ HasBlocks(x)
      /\ Acked(x) \in Nat /\ Acked(x) = m.block * blksize[c]
      /\ IsShort(m) <=> Acked(x) > Size[c]
      /\ nextRecordForStrategy \in freeRecords
  BY <1>0, <1>1, <1>2, NextBlock
<1>4. wrqRecv' = <<x>> BY <1>1, <1>2 DEF StoresNext
<1>5. XferInv' BY <1>0 DEF IInv, XferInv, readVars
<1>6. HasBlocks(x)' BY <1>3 DEF HasBlocks, Acked
<1> PICK a : a = ACK(c, m.block) OBVIOUS
<1> PICK e : e = ERROR(c) OBVIOUS
<1>7. /\ a.to = "host" /\ a.op = "ACK" /\ a.host = c /\ a.block = m.block
      /\ e.to = "host" /\ e.op = "ERROR"
  BY DEF ACK, ERROR, ToHost
<1> SUFFICES /\ StateOK' /\ \A p \in Pushers : Settled(p) => Settled(p)'
             /\ net' \in {net \cup {a}, net \cup {e}}
             /\ net' = net \cup {a} /\ Acked(x) > Size[c] => Settled(c)'
             /\ Holds(x)' /\ ClaimInv'
  <2>1. PusherInv' /\ ReaderInv' /\ \A p \in Clients : cblk[p] <= cblk'[p]
    BY <1>0, ServerKeepsClients
  <2>2. RecvInv' BY <1>0, <1>3, <1>4 DEF RecvInv
  <2>3. WireInv'
    <3>1. CASE net' = net \cup {a}
      <4>1. Honest(a)'
        BY <1>3, <1>7, <3>1 DEF Honest, RequestOK, PushedOK, ReadOK, AckOK
      <4> QED BY <2>1, <3>1, <4>1, WireGrowsBy DEF IInv
    <3>2. CASE net' = net \cup {e}
      <4>1. Honest(e)' BY <1>7 DEF Honest, RequestOK, PushedOK, ReadOK, AckOK
      <4> QED BY <2>1, <3>2, <4>1, WireGrowsBy DEF IInv
    <3> QED BY <3>1, <3>2
  <2> QED BY <1>5, <2>1, <2>2, <2>3 DEF IInv
<1>8. CASE IsShort(m) /\ Valid(x)
  <2>1. Claim(x) /\ net' = net \cup {a}
    BY <1>1, <1>2, <1>8 DEF StoresNext, Finalize, Take
  <2>2. /\ claims' \in Seq(Claims) /\ freeRecords' \subseteq FreeAtStart
        /\ ClaimInv' /\ Settled(c)' /\ \A p \in Pushers : Settled(p) => Settled(p)'
    BY <1>3, <1>8, <2>1, ClaimFacts DEF IInv
  <2>3. StateOK'
    BY <1>0, <1>3, <1>4, <2>2 DEF IInv, StateOK, AtMostOne, clientVars, readVars
  <2>4. Holds(x)'
    <3>1. Acked(x)' > Size[x.filename] BY <1>3, <1>8 DEF Acked
    <3> QED BY <1>3, <1>6, <2>2, <3>1 DEF Holds
  <2> QED BY <2>1, <2>2, <2>3, <2>4
<1>9. CASE IsShort(m) /\ ~Valid(x)
  <2>1. net' = net \cup {e} /\ UNCHANGED <<freeRecords, claims>>
    BY <1>1, <1>2, <1>9 DEF StoresNext, Finalize, Take
  <2>2. \A p \in Pushers : Settled(p) => Settled(p)' BY <2>1 DEF Settled
  <2>3. ~Acceptable(c)
    <3>1. push(x) /\ x.sink.total # RecordSize /\ x.sink \in Sink /\ c \in Files
      BY <1>3, <1>9, NamesAreFiles DEF Valid, Receiver
    <3>2. x.sink.total = Upto(c, Acked(x)) BY <1>3, <3>1 DEF HasBlocks, SinkHolds
    <3>3. Upto(c, Acked(x)) = Size[c] BY <1>3, <1>9 DEF Upto
    <3> QED BY <1>3, <3>1, <3>2, <3>3 DEF Acceptable, push
  <2>4. Settled(c)' BY <2>3 DEF Settled, Acceptable
  <2>5. StateOK'
    BY <1>0, <1>3, <1>4, <2>1 DEF IInv, StateOK, AtMostOne, clientVars, readVars
  <2>6. Holds(x)'
    <3>1. Acked(x)' > Size[x.filename] BY <1>3, <1>9 DEF Acked
    <3> QED BY <1>3, <1>6, <2>4, <3>1 DEF Holds
  <2>7. ClaimInv' BY <2>1 DEF IInv, ClaimInv
  <2> QED BY <2>1, <2>2, <2>4, <2>5, <2>6, <2>7
<1>10. CASE ~IsShort(m)
  <2>1. net' = net \cup {a} /\ UNCHANGED <<freeRecords, claims>>
    BY <1>10 DEF StoresNext, Take
  <2>2. \A p \in Pushers : Settled(p) => Settled(p)' BY <2>1 DEF Settled
  <2>3. StateOK'
    BY <1>0, <1>3, <1>4, <2>1 DEF IInv, StateOK, AtMostOne, clientVars, readVars
  <2>4. Holds(x)'
    <3>1. ~(Acked(x)' > Size[x.filename]) BY <1>3, <1>10 DEF Acked
    <3>2. (nextRecordForStrategy \in freeRecords)'
      BY <1>0, <1>3, <2>1 DEF nextRecordForStrategy
    <3> QED BY <1>6, <3>1, <3>2 DEF Holds
  <2>5. ClaimInv' BY <2>1 DEF IInv, ClaimInv
  <2> QED BY <1>3, <1>10, <2>1, <2>2, <2>3, <2>4, <2>5
<1> QED BY <1>8, <1>9, <1>10

(* A repeated block is acknowledged again: when it is the short one, the   *)
(* push has been settled (Responder.recvData).                             *)
LEMMA ReAcksKeeps ==
  ASSUME IInv, NEW m \in net, ForReceiver(m), ReAcks(m) PROVE IInv'
<1>0. /\ FromPusher(m) /\ Repeated(m) /\ net' = net \cup {ACK(wrqClient, m.block)}
      /\ UNCHANGED <<strategy, clientVars, pushVars, justFirst, readVars>>
  BY DEF ReAcks, Take
<1>1. PICK a : a = ACK(wrqClient, m.block) OBVIOUS
<1>2. PICK r \in Receiver : /\ r = wrqRecv[1] /\ r.filename = wrqClient /\ Holds(r)
                            /\ m.block <= r.acked
  BY <1>0 DEF IInv, StateOK, AtMostOne, ForReceiver, RecvInv, Repeated
<1>3. PICK c \in Pushers : c = wrqClient /\ r.filename = c BY <1>2 DEF Receiver
<1>4. PICK n \in Nat \ {0}, z \in Nat, k \in Nat : n = blksize[c] /\ z = Size[c] /\ k = r.acked
  BY <1>2, NamesAreFiles DEF Receiver, Clients, Files
<1>5. PICK b \in Nat : b = m.block /\ b <= k
  <2>1. PushedOK(m) BY DEF IInv, WireInv, Honest
  <2> QED BY <1>2, <1>4, <2>1 DEF PushedOK, ForReceiver
<1>6. b * n > z => Settled(c)
  <2>1. PICK u \in Nat, v \in Nat : u = b * n /\ v = k * n OBVIOUS
  <2>2. u <= v BY <1>5, <2>1, BlocksGrow
  <2>3. v = Acked(r) BY <1>3, <1>4, <2>1 DEF Acked
  <2>4. u > z => v > z BY <2>2
  <2> QED BY <1>2, <1>3, <1>4, <2>1, <2>3, <2>4 DEF Holds
<1>7. a.to = "host" /\ a.op = "ACK" /\ a.host = c /\ a.block = b
  BY <1>1, <1>3, <1>5 DEF ACK, ToHost
<1>8. Honest(a)
  BY <1>3, <1>4, <1>6, <1>7 DEF Honest, RequestOK, PushedOK, ReadOK, AckOK
<1> QED BY <1>0, <1>1, <1>8, OneMoreOnTheWire

(* A step that touches the transfer, and perhaps the wire, and no push:    *)
(* it keeps the invariant if what it leaves is in order.                   *)
LEMMA ReadStepKeeps ==
  ASSUME IInv, UNCHANGED <<strategy, clientVars, pushVars>>,
         NEW a, net' \subseteq net \cup {a}, Honest(a),
         AtMostOne(xfer, Xfer)', XferInv'
  PROVE  IInv'
<1>0. UNCHANGED <<strategy, cphase, cblk, got, wrqClient, wrqRecv, freeRecords, claims>>
  BY DEF clientVars, pushVars
<1>1. StateOK' BY <1>0 DEF IInv, StateOK
<1>2. \A p : Settled(p) <=> Settled(p)' BY <1>0 DEF Settled
<1>3. PusherInv' /\ ReaderInv' /\ \A p \in Clients : cblk[p] <= cblk'[p]
  BY <1>2, ServerKeepsClients
<1>4. Honest(a)' BY <1>0 DEF Honest, RequestOK, PushedOK, ReadOK, AckOK, Settled
<1>5. WireInv' BY <1>1, <1>2, <1>3, <1>4, WireGrowsBy DEF IInv
<1>6. ASSUME NEW r, Holds(r) PROVE Holds(r)'
  BY <1>0, <1>2, <1>6 DEF Holds, HasBlocks, Acked, nextRecordForStrategy
<1>7. RecvInv' BY <1>0, <1>6 DEF IInv, RecvInv
<1>8. ClaimInv' BY <1>0 DEF IInv, ClaimInv
<1> QED BY <1>1, <1>3, <1>5, <1>7, <1>8 DEF IInv

(* A transfer stays one when its next block, what it sent last or its end  *)
(* is written.                                                             *)
LEMMA XferUpdates ==
  ASSUME NEW x \in Xfer
  PROVE  /\ \A s \in Seq(Units) : [x EXCEPT !.sent = s] \in Xfer
         /\ [x EXCEPT !.next = @ + 1] \in Xfer /\ [x EXCEPT !.done = TRUE] \in Xfer
<1>1. /\ x = [file |-> x.file, blksize |-> x.blksize, next |-> x.next,
             sent |-> x.sent, done |-> x.done]
      /\ x.file \in Served /\ x.blksize \in Nat \ {0} /\ x.next \in Nat \ {0}
      /\ x.sent \in Seq(Units) /\ x.done \in BOOLEAN
  BY DEF Xfer
<1>2. ASSUME NEW s \in Seq(Units) PROVE [x EXCEPT !.sent = s] \in Xfer
  BY <1>1 DEF Xfer
<1>3. x.next + 1 \in Nat \ {0} BY <1>1
<1>4. [x EXCEPT !.next = @ + 1] \in Xfer BY <1>1, <1>3 DEF Xfer
<1>5. [x EXCEPT !.done = TRUE] \in Xfer BY <1>1 DEF Xfer
<1> QED BY <1>2, <1>4, <1>5

(* A transfer sends the block it is at (ServerXfer.NextData).              *)
LEMMA SendNextKeeps ==
  ASSUME IInv, UNCHANGED <<strategy, clientVars, pushVars>>,
         NEW m, NEW c \in Readers, NEW x \in Xfer, Resolves(Reads[c]),
         x.file = Reads[c], x.blksize = blksize[c], client' = c, SendNext(m, x, c)
  PROVE  IInv'
<1>1. PICK data : data = Block(x.file, x.blksize, x.next) OBVIOUS
<1>2. PICK a : a = ToHost("DATA", c, x.next, data) OBVIOUS
<1>3. xfer' = <<[x EXCEPT !.sent = data]>> /\ net' = net \cup {a}
  BY <1>1, <1>2 DEF SendNext, Take
<1>4. x.next \in Nat \ {0} /\ x.blksize \in Nat \ {0} /\ x.file \in Files
  BY NamesAreFiles DEF Xfer
<1>5. data \in Seq(Units) BY <1>1, <1>4, BlockFacts
<1>6. PICK y \in Xfer : y = [x EXCEPT !.sent = data] /\ y.file = x.file /\ y.blksize = x.blksize
  <2>1. [x EXCEPT !.sent = data] \in Xfer BY <1>5, XferUpdates
  <2> QED BY <2>1 DEF Xfer
<1>7. AtMostOne(xfer, Xfer)' BY <1>3, <1>6 DEF AtMostOne
<1>8. XferInv' BY <1>3, <1>6 DEF XferInv
<1>9. /\ a.to = "host" /\ a.op = "DATA" /\ a.host = c /\ a.block = x.next
      /\ a.data = Block(Reads[c], blksize[c], a.block)
  BY <1>1, <1>2 DEF ToHost
<1>10. Honest(a) BY <1>4, <1>9 DEF Honest, RequestOK, PushedOK, ReadOK, AckOK
<1> QED BY <1>3, <1>7, <1>8, <1>10, ReadStepKeeps

(* A read request: nothing, an OACK or the first block (startRead).        *)
LEMMA StartReadKeeps == ASSUME IInv, NEW m \in net, startRead(m) PROVE IInv'
<1>1. PICK c \in Readers : c = m.host
  BY DEF startRead, IInv, WireInv, Honest, RequestOK
<1>2. /\ client' = c /\ UNCHANGED <<strategy, clientVars, pushVars>>
      /\ justFirst' = (Resolves(Reads[c]) /\ c \in WithOptions)
  BY <1>1 DEF startRead
<1>3. CASE ~Resolves(Reads[c])
  <2>1. PICK a : a = ERROR(c) OBVIOUS
  <2>2. xfer' = <<>> /\ net' = net \cup {a} BY <1>1, <1>3, <2>1 DEF startRead, Take
  <2>3. Honest(a) BY <2>1 DEF ERROR, ToHost, Honest, RequestOK, PushedOK, ReadOK, AckOK
  <2>4. AtMostOne(xfer, Xfer)' /\ XferInv' BY <1>2, <1>3, <2>2 DEF AtMostOne, XferInv
  <2> QED BY <1>2, <2>2, <2>3, <2>4, ReadStepKeeps
<1>4. CASE Resolves(Reads[c])
  <2>1. PICK x \in Xfer : /\ x = NewServerXfer(c) /\ x.file = Reads[c]
                          /\ x.blksize = blksize[c]
    <3>1. Reads[c] \in Served /\ blksize[c] \in Nat \ {0}
      BY <1>4, NamesAreFiles DEF Resolves, Clients
    <3>2. NewServerXfer(c) \in Xfer
      <4>1. <<>> \in Seq(Units) /\ 1 \in Nat \ {0} OBVIOUS
      <4> QED BY <3>1, <4>1 DEF NewServerXfer, Xfer
    <3> QED BY <3>2 DEF NewServerXfer
  <2>2. CASE c \in WithOptions
    <3>1. PICK a : a = ToHost("OACK", c, 0, <<>>) OBVIOUS
    <3>2. xfer' = <<x>> /\ net' = net \cup {a}
      BY <1>1, <1>4, <2>1, <2>2, <3>1 DEF startRead, Take
    <3>3. Honest(a) BY <3>1 DEF ToHost, Honest, RequestOK, PushedOK, ReadOK, AckOK
    <3>4. AtMostOne(xfer, Xfer)' /\ XferInv'
      BY <1>2, <1>4, <2>1, <3>2 DEF AtMostOne, XferInv
    <3> QED BY <1>2, <3>2, <3>3, <3>4, ReadStepKeeps
  <2>3. CASE c \notin WithOptions
    <3>1. SendNext(m, x, c) BY <1>1, <1>4, <2>1, <2>3 DEF startRead
    <3> QED BY <1>2, <1>4, <2>1, <3>1, SendNextKeeps
  <2> QED BY <2>2, <2>3
<1> QED BY <1>3, <1>4

(* The transfer there is, when there is one.                               *)
LEMMA TheTransfer ==
  ASSUME IInv, xfer # <<>>
  PROVE  /\ client \in Readers /\ Resolves(Reads[client]) /\ xfer[1] \in Xfer
         /\ xfer[1].file = Reads[client] /\ xfer[1].blksize = blksize[client]
BY DEF IInv, StateOK, AtMostOne, XferInv

(* The packet that starts a stream (ServerLoop's first packet).            *)
LEMMA FirstDataKeeps == ASSUME IInv, NEW m \in net, FirstData(m) PROVE IInv'
<1>1. /\ UNCHANGED <<strategy, clientVars, pushVars, client>>
      /\ xfer # <<>> /\ SendNext(m, xfer[1], client)
  BY DEF FirstData, IInv, XferInv
<1>2. PICK x : x = xfer[1] OBVIOUS
<1>3. PICK c : c = client OBVIOUS
<1>4. /\ c \in Readers /\ Resolves(Reads[c]) /\ x \in Xfer /\ client' = c
      /\ x.file = Reads[c] /\ x.blksize = blksize[c] /\ SendNext(m, x, c)
  BY <1>1, <1>2, <1>3, TheTransfer
<1> QED BY <1>1, <1>4, SendNextKeeps

(* An ACK moves a transfer on, or has its block sent again (OnACK).        *)
LEMMA OnACKKeeps == ASSUME IInv, NEW m \in net, OnACK(m) PROVE IInv'
<1>1. /\ UNCHANGED <<strategy, clientVars, pushVars, client, justFirst>>
      /\ xfer # <<>> /\ m.to = "tid" /\ m.op = "ACK"
  BY DEF OnACK
<1>2. PICK x : x = xfer[1] OBVIOUS
<1>3. PICK c : c = client OBVIOUS
<1>4. /\ c \in Readers /\ Resolves(Reads[c]) /\ x \in Xfer /\ client' = c
      /\ x.file = Reads[c] /\ x.blksize = blksize[c]
  BY <1>1, <1>2, <1>3, TheTransfer
<1>5. CASE xfer' = <<[x EXCEPT !.done = TRUE]>> /\ UNCHANGED net
  <2>1. PICK y \in Xfer : y = [x EXCEPT !.done = TRUE] /\ y.file = x.file /\ y.blksize = x.blksize
    <3>1. [x EXCEPT !.done = TRUE] \in Xfer BY <1>4, XferUpdates
    <3> QED BY <1>4, <3>1 DEF Xfer
  <2>2. AtMostOne(xfer, Xfer)' /\ XferInv' BY <1>4, <1>5, <2>1 DEF AtMostOne, XferInv
  <2>3. Honest(m) BY DEF IInv, WireInv
  <2>4. net' \subseteq net \cup {m} BY <1>5
  <2> QED BY <1>1, <2>2, <2>3, <2>4, ReadStepKeeps
<1>6. CASE SendNext(m, [x EXCEPT !.next = @ + 1], c)
  <2>1. PICK y \in Xfer : y = [x EXCEPT !.next = @ + 1] /\ y.file = x.file /\ y.blksize = x.blksize
    <3>1. [x EXCEPT !.next = @ + 1] \in Xfer BY <1>4, XferUpdates
    <3> QED BY <1>4, <3>1 DEF Xfer
  <2>2. SendNext(m, y, c) BY <1>6, <2>1
  <2> QED BY <1>1, <1>4, <2>1, <2>2, SendNextKeeps
<1>7. CASE SendNext(m, x, c) BY <1>1, <1>4, <1>7, SendNextKeeps
<1>8. CASE UNCHANGED <<net, xfer>>
  <2>1. AtMostOne(xfer, Xfer)' /\ XferInv'
    BY <1>1, <1>8 DEF IInv, StateOK, AtMostOne, XferInv
  <2>2. Honest(m) /\ net' \subseteq net \cup {m} BY <1>8 DEF IInv, WireInv
  <2> QED BY <1>1, <2>1, <2>2, ReadStepKeeps
<1>9. \/ xfer' = <<[x EXCEPT !.done = TRUE]>> /\ UNCHANGED net
      \/ SendNext(m, [x EXCEPT !.next = @ + 1], c)
      \/ SendNext(m, x, c)
      \/ UNCHANGED <<net, xfer>>
  <2>1. Len(x.sent) < x.blksize \/ Len(x.sent) >= x.blksize BY <1>4 DEF Xfer
  <2> QED BY <1>2, <1>3, <2>1, Zenon DEF OnACK
<1> QED BY <1>5, <1>6, <1>7, <1>8, <1>9
-----------------------------------------------------------------------------
(* Whatever arrives, the program keeps the invariant.                      *)
LEMMA OnFrameKeeps == ASSUME IInv, NEW m \in net, OnFrame(m) PROVE IInv'
<1>1. CASE startWrite(m) BY <1>1, StartWriteKeeps
<1>2. CASE startRead(m) BY <1>2, StartReadKeeps
<1>3. CASE recvData(m)
  <2>1. CASE ForReceiver(m) /\ StoresNext(m) BY <2>1, StoresNextKeeps
  <2>2. CASE ForReceiver(m) /\ ReAcks(m) BY <2>2, ReAcksKeeps
  <2> QED BY <1>3, <2>1, <2>2 DEF recvData
<1>4. CASE FirstData(m) BY <1>4, FirstDataKeeps
<1>5. CASE OnACK(m) BY <1>5, OnACKKeeps
<1> QED BY <1>1, <1>2, <1>3, <1>4, <1>5 DEF OnFrame

(* The program starts in the invariant (serve.New).                        *)
LEMMA InvariantInit == Init => IInv
<1> SUFFICES ASSUME Init PROVE IInv OBVIOUS
<1>1. PICK cast \in Casts : cphase = [c \in Clients |-> IF c \in cast THEN "idle" ELSE "off"]
  BY DEF Init
<1>2. \A c \in Clients : cphase[c] \in {"off", "idle", "busy", "done", "failed"} /\ cphase[c] # "done"
  BY <1>1
<1>3. StateOK
  <2>1. cphase \in [Clients -> {"off", "idle", "busy", "done", "failed"}] BY <1>1
  <2>2. cblk \in [Clients -> Nat] /\ got \in [Readers -> Seq(Units)] BY DEF Init
  <2>3. claims \in Seq(Claims) /\ strategy \in {"highest", "lowest", "explicit"} BY DEF Init
  <2> QED BY <2>1, <2>2, <2>3 DEF Init, StateOK, AtMostOne
<1>4. WireInv /\ XferInv /\ RecvInv /\ ClaimInv
  BY DEF Init, WireInv, XferInv, RecvInv, ClaimInv
<1>5. PusherInv BY <1>2 DEF Init, PusherInv, Clients
<1>6. ReaderInv
  <2> SUFFICES ASSUME NEW c \in Readers
               PROVE  /\ got[c] = <<>> /\ cblk[c] = 0 /\ cphase[c] # "done"
                      /\ Resolves(Reads[c]) => <<>> = Start(Reads[c], 0 * blksize[c])
    BY Zenon DEF ReaderInv
  <2>1. got[c] = <<>> /\ cblk[c] = 0 /\ cphase[c] # "done" BY <1>2 DEF Init, Clients
  <2>2. ASSUME Resolves(Reads[c]) PROVE <<>> = Start(Reads[c], 0 * blksize[c])
    <3>1. 0 * blksize[c] = 0 BY NamesAreFiles DEF Clients
    <3>2. PICK f \in Files : f = Reads[c] BY <2>2, NamesAreFiles DEF Resolves
    <3>3. Upto(f, 0) = 0 BY <3>2 DEF Upto, Files
    <3>4. Start(f, 0) = <<>> BY <3>3, ContentIsSeq, SubSeqEmpty DEF Start
    <3> QED BY <3>1, <3>2, <3>4
  <2> QED BY <2>1, <2>2
<1> QED BY <1>3, <1>4, <1>5, <1>6 DEF IInv

(* And every step of a client or of the program keeps it.                  *)
LEMMA InvariantStep == IInv /\ [Next]_vars => IInv'
<1> SUFFICES ASSUME IInv, [Next]_vars PROVE IInv' OBVIOUS
<1>1. ASSUME NEW c \in Clients, ClientStep(c) PROVE IInv'
  BY <1>1, AskKeeps, GetsAckKeeps, GetsErrorKeeps, GetsOACKKeeps, GetsDataKeeps DEF ClientStep
<1>2. ASSUME NEW m \in net, OnFrame(m) PROVE IInv' BY <1>2, OnFrameKeeps
<1>3. CASE UNCHANGED vars
  <2>1. /\ UNCHANGED <<strategy, clientVars, pushVars, justFirst, readVars>>
        /\ net' \subseteq net
    BY <1>3 DEF vars
  <2>2. PICK m : m = ERROR(NoClient) OBVIOUS
  <2>3. Honest(m) BY <2>2 DEF ERROR, ToHost, Honest, RequestOK, PushedOK, ReadOK, AckOK
  <2>4. net' \subseteq net \cup {m} BY <2>1
  <2> QED BY <2>1, <2>3, <2>4, OneMoreOnTheWire
<1> QED BY <1>1, <1>2, <1>3 DEF Next

(* Every DATA on the wire is the block it is numbered as, receivers and    *)
(* readers hold what they have acknowledged, and the records claimed are   *)
(* different ones, in every state of serve and its clients.                *)
THEOREM InductiveInvariant == Spec => []IInv
BY InvariantInit, InvariantStep, PTL DEF Spec

(* serve.go's state keeps its types, and so do its clients.                *)
THEOREM TypeCorrect == Spec => []StateOK
<1>1. IInv => StateOK BY DEF IInv
<1> QED BY <1>1, InductiveInvariant, PTL

(* A client for which its transfer has ended well has what it wanted: a    *)
(* reader the whole file it asked for, and before that a prefix of it, a   *)
(* pusher its file on a record if it may be there at all (serve.go's two   *)
(* responders under repeated, late and interleaved datagrams).             *)
THEOREM EndedWellIsWhole == Spec => []EndedIsWhole
<1>1. IInv => EndedIsWhole
  <2> SUFFICES ASSUME IInv PROVE EndedIsWhole OBVIOUS
  <2>1. ASSUME NEW c \in Readers, Resolves(Reads[c])
        PROVE  /\ IsPrefix(got[c], Content(Reads[c]))
               /\ cphase[c] = "done" => got[c] = Content(Reads[c])
    <3>1. PICK f \in Files, k \in Nat : f = Reads[c] /\ k = cblk[c] * blksize[c]
      <4>1. cblk[c] \in Nat /\ blksize[c] \in Nat BY NamesAreFiles DEF IInv, StateOK, Clients
      <4> QED BY <2>1, <4>1, NamesAreFiles DEF Resolves
    <3>2. got[c] = Start(f, k) /\ (cphase[c] = "done" => got[c] = Content(f))
      BY <2>1, <3>1 DEF IInv, ReaderInv
    <3>3. IsPrefix(Start(f, k), Content(f)) BY StartFacts
    <3> QED BY <3>1, <3>2, <3>3, Zenon
  <2>2. ASSUME NEW c \in Readers, ~Resolves(Reads[c]) PROVE got[c] = <<>> /\ cphase[c] # "done"
    BY <2>2 DEF IInv, ReaderInv
  <2>3. ASSUME NEW c \in Pushers, cphase[c] = "done", Acceptable(c)
        PROVE  \E i \in DOMAIN claims : claims[i].owner = c
    BY <2>3 DEF IInv, PusherInv, Settled
  <2> QED BY <2>1, <2>2, <2>3, Zenon DEF EndedIsWhole
<1> QED BY <1>1, InductiveInvariant, PTL
-----------------------------------------------------------------------------
(* The shelf of records (RecordShelf).                                     *)

ShelfOf(cl) == [r \in {cl[i].record : i \in DOMAIN cl} |->
  LET i == CHOOSE j \in DOMAIN cl : cl[j].record = r /\
             \A k \in DOMAIN cl : cl[k].record = r => k <= j
  IN  [owner |-> cl[i].owner, body |-> cl[i].body]]

\* No record is claimed twice, and the record of claim i is as it says.
ClaimedOnce(cl) == \A j, k \in DOMAIN cl : cl[j].record = cl[k].record => j = k
AsClaimed(cl, i) ==
  ShelfOf(cl)[cl[i].record] = [owner |-> cl[i].owner, body |-> cl[i].body]

(* A record that was claimed once holds what the claim put there.          *)
LEMMA OnTheShelf ==
  ASSUME NEW S, NEW cl \in Seq(S), NEW i \in DOMAIN cl, ClaimedOnce(cl)
  PROVE  AsClaimed(cl, i)
<1>0. \A j, k \in DOMAIN cl : cl[j].record = cl[k].record => j = k BY DEF ClaimedOnce
<1> DEFINE Newest(j, r) == cl[j].record = r /\ \A k \in DOMAIN cl : cl[k].record = r => k <= j
           R == {cl[k].record : k \in DOMAIN cl}
<1>1. \A j \in DOMAIN cl : j \in Nat OBVIOUS
<1>2. Newest(i, cl[i].record)
  <2>1. \A k \in DOMAIN cl : cl[k].record = cl[i].record => k = i BY <1>0
  <2>2. i <= i BY <1>1
  <2> QED BY <2>1, <2>2, Zenon
<1>3. \A j \in DOMAIN cl : Newest(j, cl[i].record) => j = i BY <1>0
<1>4. (CHOOSE j \in DOMAIN cl : Newest(j, cl[i].record)) = i
  <2> HIDE DEF Newest
  <2> QED BY <1>2, <1>3
<1>5. ShelfOf(cl) = [r \in R |->
                       [owner |-> cl[CHOOSE j \in DOMAIN cl : Newest(j, r)].owner,
                        body |-> cl[CHOOSE j \in DOMAIN cl : Newest(j, r)].body]]
  BY Zenon DEF ShelfOf
<1>6. cl[i].record \in R OBVIOUS
<1> HIDE DEF Newest, R
<1> QED BY <1>4, <1>5, <1>6 DEF AsClaimed

\* What a claim e adds to the shelf of the claims cl.
OneMoreOnTheShelf(cl, e) ==
  ShelfOf(Append(cl, e)) =
    [r \in DOMAIN ShelfOf(cl) \cup {e.record} |->
       IF r = e.record THEN [owner |-> e.owner, body |-> e.body] ELSE ShelfOf(cl)[r]]

(* One claim more is one record more on the shelf; the others stay.        *)
LEMMA ShelfGrows ==
  ASSUME NEW S, NEW cl \in Seq(S), NEW e \in S,
         ClaimedOnce(cl), \A j \in DOMAIN cl : cl[j].record # e.record
  PROVE  OneMoreOnTheShelf(cl, e)
<1>1. PICK new \in Seq(S) : new = Append(cl, e)
  <2>1. Append(cl, e) \in Seq(S) BY AppendProperties, Zenon
  <2> QED BY <2>1, Zenon
<1>2. PICK l \in Nat : /\ l = Len(cl) /\ DOMAIN cl = 1..l /\ DOMAIN new = 1..l + 1
                       /\ new[l + 1] = e /\ \A i \in 1..l : new[i] = cl[i]
  BY <1>1
<1>3. \A i \in 1..l + 1 : i \in 1..l \/ i = l + 1 OBVIOUS
<1>4. ClaimedOnce(new) BY <1>2, <1>3 DEF ClaimedOnce
<1>5. \A i \in 1..l : i \in 1..l + 1 OBVIOUS
<1>6. l + 1 \in 1..l + 1 OBVIOUS
<1>7. DOMAIN ShelfOf(cl) = {cl[i].record : i \in 1..l} BY <1>2, Zenon DEF ShelfOf
<1>8. DOMAIN ShelfOf(new) = {new[i].record : i \in 1..l + 1} BY <1>2, Zenon DEF ShelfOf
<1>9. DOMAIN ShelfOf(new) = DOMAIN ShelfOf(cl) \cup {e.record}
  <2>1. \A i \in 1..l : new[i].record \in DOMAIN ShelfOf(cl) BY <1>2, <1>7
  <2>2. new[l + 1].record = e.record BY <1>2
  <2>3. DOMAIN ShelfOf(new) \subseteq DOMAIN ShelfOf(cl) \cup {e.record}
    BY <1>3, <1>8, <2>1, <2>2
  <2>4. \A i \in 1..l : cl[i].record \in DOMAIN ShelfOf(new) BY <1>2, <1>5, <1>8
  <2>5. e.record \in DOMAIN ShelfOf(new) BY <1>6, <1>8, <2>2
  <2>6. ASSUME NEW r \in DOMAIN ShelfOf(cl) PROVE r \in DOMAIN ShelfOf(new)
    <3>1. PICK i \in 1..l : r = cl[i].record BY <1>7, Zenon
    <3> QED BY <2>4, <3>1, Zenon
  <2>7. DOMAIN ShelfOf(cl) \cup {e.record} \subseteq DOMAIN ShelfOf(new)
    BY <2>5, <2>6, Zenon
  <2> QED BY <2>3, <2>7, Zenon
<1>10. ShelfOf(new)[e.record] = [owner |-> e.owner, body |-> e.body]
  <2>1. PICK i \in DOMAIN new : i = l + 1 /\ new[i] = e BY <1>2, <1>6
  <2>2. AsClaimed(new, i) BY <1>4, OnTheShelf, Zenon
  <2> QED BY <2>1, <2>2, Zenon DEF AsClaimed
<1>11. ASSUME NEW i \in 1..l
       PROVE  ShelfOf(new)[cl[i].record] = ShelfOf(cl)[cl[i].record]
  <2>1. i \in DOMAIN cl BY <1>2
  <2>2. AsClaimed(cl, i) BY <2>1, OnTheShelf, Zenon
  <2>3. i \in DOMAIN new BY <1>2, <1>5
  <2>4. AsClaimed(new, i) BY <1>4, <2>3, OnTheShelf, Zenon
  <2> QED BY <1>2, <2>2, <2>4, Zenon DEF AsClaimed
<1>12. \A r \in DOMAIN ShelfOf(cl) : r # e.record /\ ShelfOf(new)[r] = ShelfOf(cl)[r]
  <2>1. \A i \in 1..l : cl[i].record # e.record BY <1>2
  <2>2. \A r \in DOMAIN ShelfOf(cl) : \E i \in 1..l : r = cl[i].record BY <1>7, Zenon
  <2>3. ASSUME NEW r \in DOMAIN ShelfOf(cl)
        PROVE  r # e.record /\ ShelfOf(new)[r] = ShelfOf(cl)[r]
    <3>1. PICK i \in 1..l : r = cl[i].record BY <2>2, Zenon
    <3> QED BY <1>11, <2>1, <3>1, Zenon
  <2> QED BY <2>3, Zenon
<1>13. ShelfOf(new) = [r \in DOMAIN ShelfOf(new) |-> ShelfOf(new)[r]] BY Zenon DEF ShelfOf
<1>14. PICK f, g : f = ShelfOf(new) /\ g = ShelfOf(cl) OBVIOUS
<1> QED BY <1>1, <1>9, <1>10, <1>12, <1>13, <1>14 DEF OneMoreOnTheShelf

(* A step claims nothing, or puts one acceptable push whole onto a record  *)
(* that was free.                                                          *)
LEMMA ClaimOrNothing ==
  ASSUME IInv, [Next]_vars
  PROVE  \/ UNCHANGED <<freeRecords, claims>>
         \/ \E c \in Pushers, n \in freeRecords :
              /\ Acceptable(c) /\ freeRecords' = freeRecords \ {n}
              /\ claims' = Append(claims, [record |-> n, owner |-> c, body |-> Content(c)])
<1>1. CASE UNCHANGED vars BY <1>1 DEF vars, pushVars
<1>2. ASSUME NEW c \in Clients, ClientStep(c) PROVE UNCHANGED <<freeRecords, claims>>
  BY <1>2 DEF ClientStep, Ask, GetsAck, GetsError, GetsOACK, GetsData, pushVars
<1>3. ASSUME NEW m \in net, startWrite(m) \/ startRead(m) \/ FirstData(m) \/ OnACK(m) \/ ReAcks(m)
      PROVE  UNCHANGED <<freeRecords, claims>>
  BY <1>3 DEF startWrite, startRead, FirstData, OnACK, ReAcks, pushVars
<1>4. ASSUME NEW m \in net, ForReceiver(m), StoresNext(m), ~UNCHANGED <<freeRecords, claims>>
      PROVE  \E c \in Pushers, n \in freeRecords :
               /\ Acceptable(c) /\ freeRecords' = freeRecords \ {n}
               /\ claims' = Append(claims, [record |-> n, owner |-> c, body |-> Content(c)])
  <2>0. FromPusher(m) /\ m.block = wrqRecv[1].acked + 1 BY <1>4 DEF StoresNext
  <2>1. PICK r, c : r = wrqRecv[1] /\ c = wrqClient OBVIOUS
  <2>2. PICK x : x = With(r, m) OBVIOUS
  <2>3. /\ x \in Receiver /\ c \in Pushers /\ Size[c] \in Nat /\ x.filename = c /\ HasBlocks(x)
        /\ Acked(x) \in Nat
        /\ IsShort(m) <=> Acked(x) > Size[c]
        /\ nextRecordForStrategy \in freeRecords
    BY <1>4, <2>0, <2>1, <2>2, NextBlock
  <2>4. IsShort(m) /\ Valid(x) /\ Claim(x)
    BY <1>4, <2>1, <2>2, Zenon DEF StoresNext, Finalize
  <2>5. Acceptable(c) /\ Stored(x) = Content(c)
    <3>1. Acked(x) > Size[c] /\ StateOK /\ ClaimInv BY <2>3, <2>4 DEF IInv
    <3> QED BY <2>3, <2>4, <3>1, ClaimFacts
  <2>6. PICK n \in freeRecords : n = nextRecordForStrategy BY <2>3
  <2>7. freeRecords' = freeRecords \ {n}
        /\ claims' = Append(claims, [record |-> n, owner |-> c, body |-> Content(c)])
    BY <2>3, <2>4, <2>5, <2>6 DEF Claim, removeFreeRecord
  <2> QED BY <2>3, <2>5, <2>6, <2>7
<1> QED BY <1>1, <1>2, <1>3, <1>4 DEF Next, OnFrame, recvData

(* The card is a shelf of records: every push that ends puts one client's  *)
(* whole, acceptable file on a record that was free, and no record that is *)
(* taken is written again (Responder.finalizePush, removeFreeRecord).      *)
THEOREM ImplementsTheShelf == Spec => KeepsTheShelf
<1>1. Init => Shelf!Init
  <2> SUFFICES ASSUME Init PROVE Shelf!Init OBVIOUS
  <2>1. DOMAIN claims = {} BY DEF Init
  <2>2. {claims[i].record : i \in DOMAIN claims} = {} BY <2>1
  <2>3. DOMAIN Shelved = {} BY <2>2, Zenon DEF Shelved
  <2>4. Shelved = [r \in {} |-> Shelved[r]] BY <2>2, <2>3, Zenon DEF Shelved
  <2>5. Shelved = <<>> BY <2>4
  <2> QED BY <2>5 DEF Init, Shelf!Init
<1>2. IInv /\ [Next]_vars => [Shelf!Next]_<<freeRecords, Shelved>>
  <2> SUFFICES ASSUME IInv, [Next]_vars
               PROVE  [Shelf!Next]_<<freeRecords, Shelved>>
    OBVIOUS
  <2>1. CASE UNCHANGED <<freeRecords, claims>>
    <3>1. UNCHANGED Shelved BY <2>1 DEF Shelved
    <3> QED BY <2>1, <3>1
  <2>2. ASSUME NEW c \in Pushers, NEW n \in freeRecords,
               Acceptable(c), freeRecords' = freeRecords \ {n},
               claims' = Append(claims, [record |-> n, owner |-> c, body |-> Content(c)])
        PROVE  Shelf!Next
    <3>1. PICK e : e = [record |-> n, owner |-> c, body |-> Content(c)] OBVIOUS
    <3>2. e \in Claims /\ claims \in Seq(Claims) BY <2>2, <3>1 DEF IInv, StateOK, Claims
    <3>3. e.record = n /\ e.owner = c /\ e.body = Content(c) BY <3>1
    <3>4. ClaimedOnce(claims) /\ \A j \in DOMAIN claims : claims[j].record # e.record
      BY <3>3 DEF IInv, ClaimInv, ClaimedOnce
    <3>5. ShelfOf(Append(claims, e)) =
            [r \in DOMAIN ShelfOf(claims) \cup {n} |->
               IF r = n THEN [owner |-> c, body |-> Content(c)] ELSE ShelfOf(claims)[r]]
      <4>1. OneMoreOnTheShelf(claims, e) BY <3>2, <3>4, ShelfGrows, Zenon
      <4> QED BY <3>3, <4>1, Zenon DEF OneMoreOnTheShelf
    <3>6. Shelved = ShelfOf(claims) BY Zenon DEF Shelved, ShelfOf
    <3>7. Shelved' = ShelfOf(claims') BY Zenon DEF Shelved, ShelfOf
    <3>8. Shelved' = [s \in DOMAIN Shelved \cup {n} |->
                        IF s = n THEN [owner |-> c, body |-> Content(c)] ELSE Shelved[s]]
      BY <2>2, <3>1, <3>5, <3>6, <3>7, Zenon
    <3>9. Shelf!Store BY <2>2, <3>8, Zenon DEF Shelf!Store
    <3> QED BY <3>9 DEF Shelf!Next
  <2> QED BY <2>1, <2>2, ClaimOrNothing
<1> QED BY <1>1, <1>2, InductiveInvariant, PTL DEF Spec, KeepsTheShelf, Shelf!Spec
=============================================================================
