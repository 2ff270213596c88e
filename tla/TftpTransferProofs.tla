------------------------- MODULE TftpTransferProofs -------------------------
(***************************************************************************)
(* The safety of a fetch, for every file length, window, timer and network *)
(* and for both ways of driving the server.  Whatever is lost, copied or   *)
(* late, each datagram in flight tells the truth about one of the two ends,*)
(* so the client takes in the file's blocks and no others.  The server is  *)
(* shown to send blocks numbered as they are; block by block it stays at   *)
(* most one block ahead of the client, and in windows its left edge stays  *)
(* behind the client and short of the end of the file, although maxSent is *)
(* computed in 16 bits.                                                    *)
(***************************************************************************)
EXTENDS TftpTransfer, TLAPS

USE FileAssumption, WinAssumption

(* A datagram tells the truth: the server's DATA carries the block it is   *)
(* numbered as, an ACK names a block the client has acknowledged, and no   *)
(* other host sends DATA before the client knows its server.               *)
Truthful(m, known, upto) ==
  /\ m.op = "DATA" => IF m.from = "server" THEN m.data = m.block ELSE known
  /\ m.op = "ACK" => m.block <= upto

WireInv == \A m \in net : Truthful(m, gotServer, acked)

ClientInv == ClientTypeOK /\ StoredIsPrefix /\ WireInv

(* What the client has acknowledged, it has for good.                      *)
Forward == acked <= acked' /\ (phase = "DONE" => phase' = "DONE")
-----------------------------------------------------------------------------
(* A received datagram leaves behind at most what was there and what is    *)
(* sent in answer to it (Client.OnFrame and Server.OnFrame's replies).     *)
LEMMA TakeBounds ==
  ASSUME NEW m, NEW out, Take(m, out)
  PROVE  m \in net /\ net' \subseteq net \cup out
BY DEF Take

(* The fields of a DATA datagram and of an ACK.                            *)
LEMMA MessageFields ==
  ASSUME NEW m \in Message
  PROVE  /\ m.op = "DATA" => /\ m.block \in 1..FileLen /\ m.data \in Tokens
                             /\ m.from \in {"server", "stray"}
         /\ m.op = "ACK" => m.block \in 0..FileLen
BY DEF Message, RRQ, OACK, ACK, DATA

(* Every datagram the two programs and the stranger send is well formed.   *)
LEMMA Sendable ==
  /\ RRQ \in Message /\ OACK \in Message
  /\ \A b \in 0..FileLen : ACK(b) \in Message
  /\ \A b \in 1..FileLen : \A d \in Tokens :
       DATA("server", b, d) \in Message /\ DATA("stray", b, d) \in Message
BY DEF Message

(* What is on the wire stays truthful when only truthful datagrams are     *)
(* added, the client knows no less and has acknowledged no less.           *)
LEMMA WireStaysTrue ==
  ASSUME ClientTypeOK, ClientTypeOK', WireInv,
         gotServer => gotServer', acked <= acked',
         \A m \in net' \ net : Truthful(m, gotServer', acked')
  PROVE  WireInv'
<1> SUFFICES ASSUME NEW m \in net', m \in net PROVE Truthful(m, gotServer', acked')
  BY DEF WireInv
<1>1. m \in Message BY DEF ClientTypeOK
<1>2. Truthful(m, gotServer, acked) BY DEF WireInv
<1> QED BY <1>1, <1>2, MessageFields DEF Truthful, ClientTypeOK

(* Steps in which only datagrams move: the timer, the network, the server. *)
LEMMA OnlyTheWireMoves ==
  ASSUME ClientInv, UNCHANGED clientVars,
         \A m \in net' \ net : m \in Message /\ Truthful(m, gotServer', acked')
  PROVE  ClientInv' /\ Forward
<1>1. ClientTypeOK' BY DEF ClientInv, ClientTypeOK, clientVars
<1>2. Forward BY DEF Forward, ClientInv, ClientTypeOK, clientVars
<1>3. WireInv'
  <2>1. ClientTypeOK /\ WireInv BY DEF ClientInv
  <2>2. acked <= acked' /\ (gotServer => gotServer') BY <1>2 DEF Forward, clientVars
  <2> QED BY <1>1, <2>1, <2>2, WireStaysTrue
<1> QED BY <1>1, <1>2, <1>3 DEF ClientInv, StoredIsPrefix, clientVars

(* What a server may put on the wire: OACKs and blocks numbered as they    *)
(* are.                                                                    *)
LEMMA ServerSends ==
  ASSUME ClientInv, UNCHANGED clientVars,
         \A m \in net' \ net : m = OACK \/ \E b \in 1..FileLen : m = DATA("server", b, b)
  PROVE  ClientInv' /\ Forward
<1>1. OACK \in Message /\ Truthful(OACK, gotServer', acked')
  BY Sendable DEF Truthful, OACK
<1>2. ASSUME NEW b \in 1..FileLen
      PROVE  /\ DATA("server", b, b) \in Message
             /\ Truthful(DATA("server", b, b), gotServer', acked')
  <2>1. DATA("server", b, b) \in Message BY Sendable DEF Tokens
  <2>2. Truthful(DATA("server", b, b), gotServer', acked') BY DEF Truthful, DATA
  <2> QED BY <2>1, <2>2
<1> QED BY <1>1, <1>2, OnlyTheWireMoves
-----------------------------------------------------------------------------
(* The initial states satisfy the invariant.                               *)
LEMMA ClientStarts == ClientInit => ClientInv
<1> SUFFICES ASSUME ClientInit PROVE ClientInv OBVIOUS
<1> USE DEF ClientInit
<1>1. got \in Seq(Tokens) BY DEF Tokens
<1>2. net \subseteq Message /\ gotServer \in BOOLEAN OBVIOUS
<1>3. windowsize \in {1, Win} /\ winCount \in 0..Win /\ acked \in 0..FileLen OBVIOUS
<1>4. ClientTypeOK BY <1>1, <1>2, <1>3 DEF ClientTypeOK
<1>5. StoredIsPrefix BY DEF StoredIsPrefix
<1>6. WireInv BY DEF WireInv
<1> QED BY <1>4, <1>5, <1>6 DEF ClientInv

(* A block the client takes in is the next one of the file: it came from   *)
(* the server, carries its own number, and does not wrap.                  *)
LEMMA AcceptedIsNext ==
  ASSUME ClientInv, NEW m \in net, OurDATA(m), InSequence(m)
  PROVE  m.block = acked + 1 /\ m.data = acked + 1 /\ acked + 1 \in 1..FileLen
<1>1. m \in Message BY DEF ClientInv, ClientTypeOK
<1>2. acked + 1 \in 1..FileLen BY DEF ClientInv, ClientTypeOK, StoredIsPrefix, OurDATA
<1>3. m.block = acked + 1 BY <1>2 DEF InSequence, Wrap16
<1>4. m.data = m.block
  BY <1>1, MessageFields DEF ClientInv, WireInv, Truthful, OurDATA, FromServer
<1> QED BY <1>2, <1>3, <1>4

(* The client takes in the next block and acknowledges at most that block. *)
LEMMA AcceptIsSound ==
  ASSUME ClientInv, NEW m \in net, NEW out, OurDATA(m), InSequence(m), Accept(m),
         net' \subseteq net \cup out, out \subseteq {ACK(m.block)},
         gotServer', gotServer' \in BOOLEAN, winCount' \in 0..Win, UNCHANGED windowsize
  PROVE  ClientInv' /\ Forward
<1>1. m.block = acked + 1 /\ m.data = acked + 1 /\ acked + 1 \in 1..FileLen
  BY AcceptedIsNext
<1>2. /\ acked' = acked + 1 /\ got' = Append(got, acked + 1)
      /\ phase' = IF acked + 1 = FileLen THEN "DONE" ELSE "XFER"
  BY <1>1 DEF Accept, Short
<1>3. got' \in Seq(Tokens) /\ Len(got') = acked' /\ \A i \in 1..acked' : got'[i] = i
  BY <1>1, <1>2 DEF ClientInv, ClientTypeOK, StoredIsPrefix, Tokens
<1>4. StoredIsPrefix' BY <1>1, <1>2, <1>3 DEF StoredIsPrefix
<1>5. ClientTypeOK'
  <2>1. out \subseteq Message BY <1>1, Sendable
  <2> QED BY <1>1, <1>2, <1>3, <2>1 DEF ClientInv, ClientTypeOK
<1>6. Forward BY <1>1, <1>2 DEF Forward, OurDATA, ClientInv, ClientTypeOK
<1>7. WireInv'
  <2>1. \A a \in out : Truthful(a, gotServer', acked') BY <1>1, <1>2 DEF Truthful, ACK
  <2>2. ClientTypeOK /\ WireInv BY DEF ClientInv
  <2>3. acked <= acked' BY <1>6 DEF Forward
  <2> QED BY <1>5, <2>1, <2>2, <2>3, WireStaysTrue
<1> QED BY <1>4, <1>5, <1>6, <1>7 DEF ClientInv

(* The client keeps its file and answers at most with an ACK of a block it *)
(* has already.                                                            *)
LEMMA KeepIsSound ==
  ASSUME ClientInv, NEW out, net' \subseteq net \cup out,
         UNCHANGED <<phase, acked, got>>, gotServer', gotServer' \in BOOLEAN,
         windowsize' \in {1, Win}, winCount' \in 0..Win,
         \A a \in out : \E b \in 0..acked : a = ACK(b)
  PROVE  ClientInv' /\ Forward
<1>0. ClientTypeOK /\ WireInv BY DEF ClientInv
<1>1. Forward BY <1>0 DEF Forward, ClientTypeOK
<1>2. out \subseteq Message BY <1>0, Sendable DEF ClientTypeOK
<1>3. ClientTypeOK' BY <1>0, <1>2 DEF ClientTypeOK
<1>4. \A a \in out : Truthful(a, gotServer', acked')
  BY <1>0 DEF Truthful, ACK, ClientTypeOK
<1>5. WireInv'
  <2>1. acked <= acked' BY <1>1 DEF Forward
  <2> QED BY <1>0, <1>3, <1>4, <2>1, WireStaysTrue
<1> QED BY <1>1, <1>3, <1>5 DEF ClientInv, StoredIsPrefix

(* A DATA frame of the server in lock-step mode (ClientXfer.OnData).       *)
LEMMA OnDataIsSound ==
  ASSUME ClientInv, NEW m \in net, OnData(m)
  PROVE  ClientInv' /\ Forward
<1>0. /\ m \in Message /\ m.op = "DATA"
      /\ winCount' \in 0..Win /\ windowsize' \in {1, Win}
      /\ gotServer' /\ gotServer' \in BOOLEAN
  BY DEF ClientInv, ClientTypeOK, OnData, OurDATA
<1>1. CASE InSequence(m)
  <2>1. Accept(m) /\ Take(m, {ACK(m.block)}) BY <1>1 DEF OnData
  <2>2. net' \subseteq net \cup {ACK(m.block)} BY <2>1, TakeBounds
  <2> QED BY <1>0, <1>1, <2>1, <2>2, AcceptIsSound DEF OnData
<1>2. CASE ~InSequence(m)
  <2>1. PICK out \in {{}, {ACK(m.block)}} :
          net' \subseteq net \cup out /\ (out # {} => m.block <= acked)
    BY <1>2, TakeBounds DEF OnData
  <2>2. UNCHANGED <<phase, acked, got>> BY <1>2 DEF OnData
  <2>3. \A a \in out : \E b \in 0..acked : a = ACK(b)
    BY <1>0, <2>1, MessageFields DEF ClientInv, ClientTypeOK
  <2> QED BY <1>0, <2>1, <2>2, <2>3, KeepIsSound
<1> QED BY <1>1, <1>2

(* A DATA frame of the server in windowed mode (onDataWindowed).           *)
LEMMA OnDataWindowedIsSound ==
  ASSUME ClientInv, NEW m \in net, onDataWindowed(m)
  PROVE  ClientInv' /\ Forward
<1>0. /\ winCount \in 0..Win /\ windowsize \in {1, Win} /\ acked \in 0..FileLen
      /\ windowsize' \in {1, Win} /\ gotServer' /\ gotServer' \in BOOLEAN
  BY DEF ClientInv, ClientTypeOK, onDataWindowed
<1>1. CASE InSequence(m)
  <2>1. Accept(m) BY <1>1 DEF onDataWindowed
  <2>2. PICK out \in {{}, {ACK(m.block)}} : net' \subseteq net \cup out
    BY <1>1, TakeBounds DEF onDataWindowed
  <2>3. winCount' \in 0..Win BY <1>0, <1>1 DEF onDataWindowed
  <2> QED BY <1>0, <1>1, <2>1, <2>2, <2>3, AcceptIsSound DEF onDataWindowed
<1>2. CASE ~InSequence(m)
  <2>1. net' \subseteq net \cup {ACK(acked)}
    BY <1>2, TakeBounds DEF onDataWindowed, LastInSequence
  <2>2. UNCHANGED <<phase, acked, got>> /\ winCount' \in 0..Win
    BY <1>0, <1>2 DEF onDataWindowed
  <2>3. \A a \in {ACK(acked)} : \E b \in 0..acked : a = ACK(b) BY <1>0
  <2> QED BY <1>0, <2>1, <2>2, <2>3, KeepIsSound
<1> QED BY <1>1, <1>2

(* Every step of the client and of the wire keeps the invariant, and no    *)
(* step takes anything from the client.                                    *)
LEMMA ClientStepIsSound ==
  ASSUME ClientInv, ClientStep
  PROVE  ClientInv' /\ Forward
<1>0. ClientTypeOK /\ WireInv BY DEF ClientInv
<1>1. CASE OnARPReply
  <2>1. net' = net \cup {RRQ} /\ phase = "ARP" /\ phase' = "XFER"
        /\ UNCHANGED <<gotServer, windowsize, winCount, acked, got>>
    BY <1>1 DEF OnARPReply
  <2>2. ClientTypeOK' BY <1>0, <2>1, Sendable DEF ClientTypeOK
  <2>3. Forward BY <1>0, <2>1 DEF Forward, ClientTypeOK
  <2>4. WireInv'
    <3>1. acked <= acked' BY <2>3 DEF Forward
    <3>2. Truthful(RRQ, gotServer', acked') /\ (gotServer => gotServer')
      BY <2>1 DEF Truthful, RRQ
    <3> QED BY <1>0, <2>1, <2>2, <3>1, <3>2, WireStaysTrue
  <2> QED BY <2>1, <2>2, <2>3, <2>4 DEF ClientInv, StoredIsPrefix
<1>2. CASE onOACK
  <2>1. net' \subseteq net \cup {ACK(0)} BY <1>2, TakeBounds DEF onOACK
  <2>2. /\ UNCHANGED <<phase, acked, got>> /\ gotServer' /\ gotServer' \in BOOLEAN
        /\ windowsize' \in {1, Win} /\ winCount' \in 0..Win
    BY <1>0, <1>2 DEF onOACK, ClientTypeOK
  <2>3. \A a \in {ACK(0)} : \E b \in 0..acked : a = ACK(b) BY <1>0 DEF ClientTypeOK
  <2> QED BY <2>1, <2>2, <2>3, KeepIsSound
<1>3. CASE ClientOnTimeout
  <2>1. PICK m \in {RRQ, ACK(acked)} : net' = net \cup {m} BY <1>3 DEF ClientOnTimeout
  <2>2. UNCHANGED clientVars BY <1>3 DEF ClientOnTimeout
  <2>3. m \in Message /\ Truthful(m, gotServer', acked')
    BY <1>0, <2>2, Sendable DEF ClientTypeOK, Truthful, RRQ, ACK, clientVars
  <2> QED BY <2>1, <2>2, <2>3, OnlyTheWireMoves
<1>4. CASE StrayData
  <2>1. PICK b \in 1..FileLen : gotServer /\ net' = net \cup {DATA("stray", b, Junk)}
    BY <1>4 DEF StrayData
  <2>2. UNCHANGED clientVars BY <1>4 DEF StrayData
  <2>3. DATA("stray", b, Junk) \in Message BY Sendable DEF Junk, Tokens
  <2>4. Truthful(DATA("stray", b, Junk), gotServer', acked')
    BY <2>1, <2>2 DEF Truthful, DATA, clientVars
  <2> QED BY <2>1, <2>2, <2>3, <2>4, OnlyTheWireMoves
<1>5. ASSUME NEW m \in net, ClientFrame(m) \/ Lose(m) PROVE ClientInv' /\ Forward
  <2>1. CASE OnData(m) BY <2>1, OnDataIsSound
  <2>2. CASE onDataWindowed(m) BY <2>2, OnDataWindowedIsSound
  <2>3. CASE StrayDATA(m) \/ AfterDone(m) \/ Lose(m)
    <3>1. net' \subseteq net \cup {} /\ UNCHANGED clientVars
      BY <2>3, TakeBounds DEF StrayDATA, AfterDone, Lose
    <3> QED BY <3>1, OnlyTheWireMoves
  <2> QED BY <1>5, <2>1, <2>2, <2>3 DEF ClientFrame
<1> QED BY <1>1, <1>2, <1>3, <1>4, <1>5 DEF ClientStep

(* A step of the client is a step of the abstract copy, or none.           *)
LEMMA ClientStepCopies ==
  ASSUME ClientInv, ClientStep
  PROVE  [Copy!Next]_(Copy!copyVars)
<1> SUFFICES ASSUME ~UNCHANGED <<got, phase = "DONE">> PROVE Copy!Next
  BY DEF Copy!copyVars
<1>1. PICK m \in net : OurDATA(m) /\ InSequence(m) /\ Accept(m)
  <2>1. CASE OnARPReply BY <2>1 DEF OnARPReply
  <2>2. CASE onOACK \/ ClientOnTimeout \/ StrayData
    BY <2>2 DEF onOACK, ClientOnTimeout, StrayData, clientVars
  <2>3. ASSUME NEW m \in net, ClientFrame(m) \/ Lose(m)
        PROVE  OurDATA(m) /\ InSequence(m) /\ Accept(m)
    BY <2>3 DEF ClientFrame, OnData, onDataWindowed, StrayDATA, AfterDone, Lose, clientVars
  <2> QED BY <2>1, <2>2, <2>3 DEF ClientStep
<1>2. m.data = acked + 1 BY <1>1, AcceptedIsNext
<1>3. Len(got) = acked BY DEF ClientInv, StoredIsPrefix
<1>4. got' = Append(got, Len(got) + 1) BY <1>1, <1>2, <1>3 DEF Accept
<1>5. phase # "DONE" BY <1>1 DEF OurDATA
<1>6. (phase' = "DONE") <=> (Len(got) + 1 = FileLen)
  BY <1>1, <1>2, <1>3 DEF Accept, Short
<1> QED BY <1>4, <1>5, <1>6 DEF Copy!Next, Copy!Grow
-----------------------------------------------------------------------------
SenderTypeOK ==
  /\ next \in 1..FileLen /\ sent \in Tokens
  /\ winAcked \in 0..FileLen - 1 /\ winFinal \in {0, FileLen}
  /\ armed \in BOOLEAN /\ sdone \in BOOLEAN /\ justOACKed \in BOOLEAN

(* Block by block: between an RRQ and the first packet after it nothing is *)
(* outstanding; from then on the block outstanding is the one `next' names.*)
BlockInv == /\ next - 1 <= acked
            /\ sent # 0 => sent = next
            /\ ~Windowed /\ armed /\ ~justOACKed => sent = next

(* In windows: once the transfer streams, the final block has been sent as *)
(* soon as it lies in the window, so that an ACK of it is the final one.   *)
EdgeInv == /\ winAcked <= acked
           /\ Windowed /\ armed /\ ~justOACKed /\ winFinal = 0 => winAcked + Win < FileLen

EndInv == sdone => phase = "DONE"

SenderInv == BlockInv /\ EdgeInv /\ EndInv

IInv == ClientInv /\ SenderTypeOK /\ SenderInv
-----------------------------------------------------------------------------
(* A step that leaves the server alone keeps its invariant: the client     *)
(* only goes forward.                                                      *)
LEMMA ClientKeepsSender ==
  ASSUME IInv, Forward, ClientInv', UNCHANGED serverVars
  PROVE  IInv'
<1>0. /\ UNCHANGED <<armed, next, sent, winAcked, winFinal, sdone, justOACKed>>
      /\ acked \in 0..FileLen /\ acked' \in 0..FileLen /\ acked <= acked'
  BY DEF serverVars, xferVars, IInv, ClientInv, ClientTypeOK, Forward
<1>1. SenderTypeOK' BY <1>0 DEF IInv, SenderTypeOK
<1>2. BlockInv' BY <1>0 DEF IInv, SenderInv, BlockInv, SenderTypeOK
<1>3. EdgeInv' BY <1>0 DEF IInv, SenderInv, EdgeInv, SenderTypeOK
<1>4. EndInv' BY <1>0 DEF IInv, SenderInv, EndInv, Forward
<1> QED BY <1>1, <1>2, <1>3, <1>4 DEF IInv, SenderInv

(* An RRQ, the first or a late copy of it: nothing is outstanding, block 1 *)
(* is next and the edge is back at 0 (ServerLoop.StartTransfer).           *)
LEMMA RRQKeepsInvariant == ASSUME IInv, OnRRQ PROVE IInv'
<1>0. /\ next' = 1 /\ sent' = 0 /\ winAcked' = 0 /\ winFinal' = 0
      /\ sdone' = FALSE /\ armed' = TRUE /\ justOACKed' = TRUE
      /\ UNCHANGED clientVars
  BY DEF OnRRQ
<1>1. net' \subseteq net \cup {OACK} BY TakeBounds DEF OnRRQ
<1>2. ClientInv' /\ Forward BY <1>0, <1>1, ServerSends DEF IInv
<1>3. acked' \in 0..FileLen BY <1>2 DEF ClientInv, ClientTypeOK
<1>4. SenderTypeOK'
  <2>1. 1 \in 1..FileLen /\ 0 \in Tokens /\ 0 \in 0..FileLen - 1 BY DEF Tokens
  <2> QED BY <1>0, <2>1, Zenon DEF SenderTypeOK
<1>5. SenderInv' BY <1>0, <1>3 DEF SenderInv, BlockInv, EdgeInv, EndInv
<1> QED BY <1>2, <1>4, <1>5 DEF IInv

(* The final acknowledgement: it names the last block, and what it says of *)
(* the client is true (ServerXfer.OnAck, OnWindowAck).                     *)
LEMMA FinalAckKeepsInvariant ==
  ASSUME IInv, Take(ACK(FileLen), {}), sdone' = TRUE,
         UNCHANGED <<clientVars, armed, xferVars, justOACKed>>
  PROVE  IInv'
<1>1. net' \subseteq net \cup {} BY TakeBounds
<1>2. ClientInv' /\ Forward BY <1>1, ServerSends DEF IInv
<1>3. FileLen <= acked BY DEF IInv, ClientInv, WireInv, Truthful, ACK, Take
<1>4. phase = "DONE" BY <1>3 DEF IInv, ClientInv, StoredIsPrefix, ClientTypeOK
<1>5. SenderTypeOK' BY DEF IInv, SenderTypeOK, xferVars
<1>6. BlockInv' /\ EdgeInv' BY DEF IInv, SenderInv, BlockInv, EdgeInv, xferVars, clientVars
<1>7. EndInv' BY <1>4 DEF EndInv, clientVars
<1> QED BY <1>2, <1>5, <1>6, <1>7 DEF IInv, SenderInv

(* The first packet after the OACK and a stale ACK: the block `next' names *)
(* is sent, again (ServerXfer.NextData, OnAck).                            *)
LEMMA ResendKeepsInvariant ==
  ASSUME IInv, NEW b \in 0..FileLen, ~Windowed, NextData(ACK(b), next),
         UNCHANGED <<clientVars, armed, next, sdone>>,
         justOACKed' \in BOOLEAN
  PROVE  IInv'
<1>1. net' \subseteq net \cup {DATA("server", next, next)} /\ sent' = next
  BY TakeBounds DEF NextData
<1>2. UNCHANGED <<winAcked, winFinal>> BY DEF NextData
<1>3. ClientInv' /\ Forward BY <1>1, ServerSends DEF IInv, SenderTypeOK
<1>4. SenderTypeOK' BY <1>1, <1>2 DEF IInv, SenderTypeOK, Tokens
<1>5. BlockInv' BY <1>1 DEF IInv, SenderInv, BlockInv, clientVars
<1>6. EdgeInv' /\ EndInv' BY <1>2 DEF IInv, SenderInv, EdgeInv, EndInv, clientVars
<1> QED BY <1>3, <1>4, <1>5, <1>6 DEF IInv, SenderInv

(* The acknowledgement of the block outstanding has the next one sent: the *)
(* client has stored the block it names (ServerXfer.OnAck).                *)
LEMMA AdvanceKeepsInvariant ==
  ASSUME IInv, NEW b \in 0..FileLen, ~Windowed, Advances(b),
         next' = Wrap16(next + 1), NextData(ACK(b), next'),
         UNCHANGED <<clientVars, armed, sdone, justOACKed>>
  PROVE  IInv'
<1>1. /\ net' \subseteq net \cup {DATA("server", next', next')} /\ sent' = next'
      /\ ACK(b) \in net
  BY TakeBounds DEF NextData
<1>2. b <= acked BY <1>1 DEF IInv, ClientInv, WireInv, Truthful, ACK
<1>3. b = next /\ next # FileLen
  BY DEF Advances, Short, IInv, SenderInv, BlockInv, AckPhase
<1>4. next' = next + 1 /\ next' \in 1..FileLen BY <1>3 DEF Wrap16, IInv, SenderTypeOK
<1>5. UNCHANGED <<winAcked, winFinal>> BY DEF NextData
<1>6. ClientInv' /\ Forward BY <1>1, <1>4, ServerSends DEF IInv
<1>7. SenderTypeOK' BY <1>1, <1>4, <1>5 DEF IInv, SenderTypeOK, Tokens
<1>8. BlockInv'
  BY <1>1, <1>2, <1>3, <1>4 DEF IInv, BlockInv, SenderTypeOK, ClientInv, ClientTypeOK, clientVars
<1>9. EdgeInv' /\ EndInv' BY <1>5 DEF IInv, SenderInv, EdgeInv, EndInv, clientVars
<1> QED BY <1>6, <1>7, <1>8, <1>9 DEF IInv, SenderInv

(* An acknowledgement in lock-step (ServerLoop.OnACK).                     *)
LEMMA AckKeepsInvariant ==
  ASSUME IInv, NEW b \in 0..FileLen, OnACK(b)
  PROVE  IInv'
<1>1. CASE Finishes(b) /\ sdone' = TRUE /\ Take(ACK(b), {})
           /\ UNCHANGED <<clientVars, armed, xferVars, justOACKed>>
  <2>1. b = FileLen
    BY <1>1 DEF OnACK, Finishes, Short, IInv, SenderInv, BlockInv, AckPhase
  <2> QED BY <1>1, <2>1, FinalAckKeepsInvariant
<1>2. CASE Advances(b) /\ next' = Wrap16(next + 1) /\ NextData(ACK(b), next')
           /\ UNCHANGED <<clientVars, armed, sdone, justOACKed>>
  BY <1>2, AdvanceKeepsInvariant DEF OnACK
<1>3. CASE Stale(b) /\ NextData(ACK(b), next)
           /\ UNCHANGED <<clientVars, armed, next, sdone, justOACKed>>
  BY <1>3, ResendKeepsInvariant DEF OnACK, IInv, SenderTypeOK
<1> QED BY <1>1, <1>2, <1>3 DEF OnACK

(* A window sent from an edge the client has confirmed: truthful blocks,   *)
(* and the final one marked when it is among them (ServerXfer.NextWindow). *)
LEMMA WindowKeepsInvariant ==
  ASSUME IInv, NEW b \in 0..FileLen, Windowed, NextWindow(ACK(b)),
         winAcked' \in 0..FileLen - 1, winAcked' <= acked,
         UNCHANGED <<clientVars, armed, sdone>>, justOACKed' \in BOOLEAN
  PROVE  IInv'
<1>1. net' \subseteq net \cup {DATA("server", k, k) : k \in Window(winAcked')}
  BY TakeBounds DEF NextWindow
<1>2. Window(winAcked') \subseteq 1..FileLen BY DEF Window
<1>3. ClientInv' /\ Forward BY <1>1, <1>2, ServerSends DEF IInv
<1>4. winFinal' \in {0, FileLen} /\ (winFinal' = 0 => winAcked' + Win < FileLen)
  <2>1. PICK edge \in 0..FileLen - 1 : edge = winAcked' OBVIOUS
  <2>2. winFinal' = IF FileLen \in Window(edge) THEN FileLen ELSE winFinal
    BY <2>1 DEF NextWindow
  <2>3. FileLen \notin Window(edge) => edge + Win < FileLen BY DEF Window
  <2> QED BY <2>1, <2>2, <2>3 DEF IInv, SenderTypeOK
<1>5. UNCHANGED <<next, sent>> BY DEF NextWindow
<1>6. SenderTypeOK' BY <1>4, <1>5 DEF IInv, SenderTypeOK
<1>7. BlockInv' BY <1>5 DEF IInv, SenderInv, BlockInv, clientVars
<1>8. EdgeInv' BY <1>4 DEF EdgeInv, clientVars
<1>9. EndInv' BY DEF IInv, SenderInv, EndInv, clientVars
<1> QED BY <1>3, <1>6, <1>7, <1>8, <1>9 DEF IInv, SenderInv

(* A cumulative ACK: what it says of the client is true; if it is not the  *)
(* final one the edge moves to it only inside the window                   *)
(* (ServerXfer.OnWindowAck).                                               *)
LEMMA WindowAckKeepsInvariant ==
  ASSUME IInv, NEW b \in 0..FileLen, OnACKWindow(b)
  PROVE  IInv'
<1>1. CASE IsFinal(b) /\ sdone' = TRUE /\ Take(ACK(b), {})
           /\ UNCHANGED <<clientVars, armed, xferVars, justOACKed>>
  <2>1. b = FileLen BY <1>1 DEF IsFinal, IInv, SenderTypeOK
  <2> QED BY <1>1, <2>1, FinalAckKeepsInvariant
<1>2. CASE ~IsFinal(b) /\ NextWindow(ACK(b))
           /\ winAcked' = (IF InWindow(b) THEN b ELSE winAcked)
           /\ UNCHANGED <<clientVars, armed, sdone, justOACKed>>
  <2>0. Windowed /\ armed /\ ~justOACKed BY DEF OnACKWindow, Streaming
  <2>1. b <= acked BY <1>2 DEF NextWindow, Take, IInv, ClientInv, WireInv, Truthful, ACK
  <2>2. InWindow(b) => b \in 0..FileLen - 1
    <3>1. CASE winFinal = 0
      <4>1. winAcked + Win < FileLen BY <2>0, <3>1 DEF IInv, SenderInv, EdgeInv
      <4>2. maxSent = winAcked + Win
        BY <3>1, <4>1 DEF maxSent, Wrap16, IInv, SenderTypeOK
      <4> QED BY <4>1, <4>2 DEF InWindow, IInv, SenderTypeOK
    <3>2. CASE winFinal = FileLen BY <1>2, <3>2 DEF IsFinal
    <3> QED BY <3>1, <3>2 DEF IInv, SenderTypeOK
  <2>3. winAcked' \in 0..FileLen - 1 /\ winAcked' <= acked
    BY <1>2, <2>1, <2>2 DEF IInv, SenderTypeOK, SenderInv, EdgeInv
  <2>4. justOACKed' \in BOOLEAN BY <1>2 DEF IInv, SenderTypeOK
  <2> QED BY <1>2, <2>0, <2>3, <2>4, WindowKeepsInvariant
<1> QED BY <1>1, <1>2 DEF OnACKWindow
-----------------------------------------------------------------------------
(* The initial states satisfy the invariant.                               *)
LEMMA InvariantInit == Init => IInv
<1> SUFFICES ASSUME Init PROVE IInv OBVIOUS
<1>0. /\ armed = FALSE /\ next = 1 /\ sent = 0 /\ winAcked = 0 /\ winFinal = 0
      /\ sdone = FALSE /\ justOACKed = FALSE /\ acked = 0
  BY DEF Init, ServerInit, ClientInit
<1>1. ClientInv BY ClientStarts DEF Init
<1>2. SenderTypeOK
  <2>1. 1 \in 1..FileLen /\ 0 \in Tokens /\ 0 \in 0..FileLen - 1 BY DEF Tokens
  <2> QED BY <1>0, <2>1, Zenon DEF SenderTypeOK
<1>3. SenderInv BY <1>0 DEF SenderInv, BlockInv, EdgeInv, EndInv
<1> QED BY <1>1, <1>2, <1>3 DEF IInv

(* Every step of the whole keeps the invariant.                            *)
LEMMA InvariantStep == IInv /\ [Next]_vars => IInv'
<1> SUFFICES ASSUME IInv, [Next]_vars PROVE IInv' OBVIOUS
<1>1. CASE ClientStep /\ UNCHANGED serverVars
  BY <1>1, ClientStepIsSound, ClientKeepsSender DEF IInv
<1>2. CASE OnRRQ BY <1>2, RRQKeepsInvariant
<1>3. ASSUME NEW b \in 0..FileLen, FirstData(b) PROVE IInv'
  <2>1. justOACKed' \in BOOLEAN BY <1>3 DEF FirstData
  <2> QED BY <1>3, <2>1, ResendKeepsInvariant DEF FirstData
<1>4. ASSUME NEW b \in 0..FileLen, OnACK(b) PROVE IInv' BY <1>4, AckKeepsInvariant
<1>5. ASSUME NEW b \in 0..FileLen, FirstWindow(b) PROVE IInv'
  <2>1. winAcked' \in 0..FileLen - 1 /\ winAcked' <= acked
    BY <1>5 DEF FirstWindow, IInv, SenderTypeOK, SenderInv, EdgeInv
  <2>2. justOACKed' \in BOOLEAN BY <1>5 DEF FirstWindow
  <2> QED BY <1>5, <2>1, <2>2, WindowKeepsInvariant DEF FirstWindow
<1>6. ASSUME NEW b \in 0..FileLen, OnACKWindow(b) PROVE IInv'
  BY <1>6, WindowAckKeepsInvariant
<1>7. CASE UNCHANGED vars \/ \E b \in 0..FileLen : DropAck(b)
  <2>1. net' \subseteq net \cup {} /\ UNCHANGED clientVars /\ UNCHANGED serverVars
    BY <1>7, TakeBounds DEF DropAck, vars
  <2>2. ClientInv' /\ Forward BY <2>1, ServerSends DEF IInv
  <2> QED BY <2>1, <2>2, ClientKeepsSender
<1> QED BY <1>1, <1>2, <1>3, <1>4, <1>5, <1>6, <1>7 DEF Next, ServerStep, AckReceived

(* The inductive invariant holds for ever.                                 *)
THEOREM InductiveInvariant == Spec => []IInv
BY InvariantInit, InvariantStep, PTL DEF Spec
-----------------------------------------------------------------------------
(* Both ends' state is well formed (ClientXfer, ServerXfer).               *)
THEOREM TypeCorrect == Spec => []TypeOK
<1>1. IInv => TypeOK BY DEF IInv, ClientInv, SenderTypeOK, TypeOK
<1> QED BY <1>1, InductiveInvariant, PTL

(* What the client has stored is always the start of the file, and it ends *)
(* exactly with the last block (ClientXfer.OnData, onDataWindowed).        *)
THEOREM StoredIsAlwaysPrefix == Spec => []StoredIsPrefix
<1>1. IInv => StoredIsPrefix BY DEF IInv, ClientInv
<1> QED BY <1>1, InductiveInvariant, PTL

(* The server never finishes a transfer the client has not got whole       *)
(* (ServerXfer.OnAck, OnWindowAck).                                        *)
THEOREM FinishedAlwaysMeansDelivered == Spec => []FinishedMeansDelivered
<1>1. IInv => FinishedMeansDelivered
  BY DEF IInv, ClientInv, ClientTypeOK, SenderInv, EndInv, StoredIsPrefix,
         FinishedMeansDelivered
<1> QED BY <1>1, InductiveInvariant, PTL

(* The lock-step sender is never more than one block ahead of the          *)
(* receiver, over restarts of the transfer too (ServerLoop.StartTransfer,  *)
(* OnACK).                                                                 *)
THEOREM AlwaysOneBlockAhead == Spec => []OneBlockAhead
<1>1. IInv => OneBlockAhead
  BY DEF IInv, SenderInv, BlockInv, SenderTypeOK, ClientInv, ClientTypeOK, OneBlockAhead
<1> QED BY <1>1, InductiveInvariant, PTL

(* The left edge is always a block the receiver has stored, so no block    *)
(* the receiver still needs is ever skipped (ServerXfer.OnWindowAck).      *)
THEOREM EdgeAlwaysConfirmed == Spec => []EdgeConfirmed
<1>1. IInv => EdgeConfirmed BY DEF IInv, SenderInv, EdgeInv, EdgeConfirmed
<1> QED BY <1>1, InductiveInvariant, PTL

(* Within one transfer the left edge never moves back                      *)
(* (ServerXfer.OnWindowAck).                                               *)
THEOREM EdgeAlwaysAdvances == Spec => EdgeNeverRetreats
<1>1. IInv /\ [Next]_vars => [winAcked' >= winAcked \/ OnRRQ]_vars
  <2> SUFFICES ASSUME IInv, Next PROVE winAcked' >= winAcked \/ OnRRQ OBVIOUS
  <2>0. winAcked \in Nat BY DEF IInv, SenderTypeOK
  <2>1. CASE UNCHANGED winAcked BY <2>0, <2>1
  <2>2. ASSUME NEW b \in 0..FileLen, OnACKWindow(b) PROVE winAcked' >= winAcked
    BY <2>0, <2>2 DEF OnACKWindow, InWindow, xferVars
  <2> QED BY <2>1, <2>2 DEF Next, ServerStep, AckReceived, FirstData, OnACK, NextData,
                            FirstWindow, DropAck, serverVars, xferVars
<1> QED BY <1>1, InductiveInvariant, PTL DEF Spec, EdgeNeverRetreats

(* The fetch implements FileCopy, in lock-step and in windows: the         *)
(* client's file grows as a copy of the server's and is complete exactly   *)
(* with its last block.                                                    *)
THEOREM TransferImplementsFileCopy == Spec => CopiesFile
<1>1. Init => Copy!Init BY DEF Init, ClientInit, Copy!Init
<1>2. IInv /\ [Next]_vars => [Copy!Next]_(Copy!copyVars)
  <2> SUFFICES ASSUME IInv, [Next]_vars PROVE [Copy!Next]_(Copy!copyVars) OBVIOUS
  <2>1. CASE ClientStep BY <2>1, ClientStepCopies DEF IInv
  <2>2. CASE ServerStep \/ UNCHANGED vars
    BY <2>2 DEF Copy!copyVars, ServerStep, AckReceived, OnRRQ, FirstData, OnACK,
                FirstWindow, OnACKWindow, DropAck, clientVars, vars
  <2> QED BY <2>1, <2>2 DEF Next
<1> QED BY <1>1, <1>2, InductiveInvariant, PTL DEF Spec, CopiesFile, Copy!SafeSpec
=============================================================================
