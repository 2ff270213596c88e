----------------------------- MODULE TftpClient -----------------------------
(***************************************************************************)
(* The TFTP fetch client (tools/netboot-oracle/client/client.go over       *)
(* tftp/clientloop.go and tftp/client.go) and the wire it shares with the  *)
(* server.  A file is FileLen blocks; block i holds the token i, and the   *)
(* last one is the short block that ends a transfer.  `net' is the set of  *)
(* datagrams in flight: a receipt may leave the datagram there (it was     *)
(* duplicated) and any datagram may vanish, so packets are lost,           *)
(* duplicated, delayed and reordered at will.                              *)
(***************************************************************************)
EXTENDS Integers, Sequences

CONSTANTS
  FileLen,        \* blocks of the file served
  BlockMod,       \* block numbers are modulo BlockMod (2^16 in the code)
  Win,            \* the windowsize the server grants in its OACK
  Lossy,          \* may the network lose a datagram?
  Copied,         \* the kinds of datagram it may deliver more than once
  Strays,         \* may a host other than the server send us DATA?
  Timer           \* when the caller's receive timer fires: "never", at any
                  \* time ("early"), or only on a silent wire ("patient")

\* Block numbers do not wrap inside one file, the store's own limit.
ASSUME FileAssumption == FileLen \in Nat \ {0} /\ BlockMod \in Nat /\ FileLen < BlockMod
ASSUME WinAssumption == Win \in Nat \ {0} /\ Win < BlockMod
ASSUME EnvAssumption == /\ {Lossy, Strays} \subseteq BOOLEAN
                        /\ Copied \subseteq {"RRQ", "OACK", "ACK", "DATA"}
                        /\ Timer \in {"never", "early", "patient"}

VARIABLES
  net,            \* datagrams in flight
  phase,          \* Client.phase; "DONE" also stands for ClientXfer.done
  gotServer,      \* ClientLoop.gotServer: the server's TID is known
  windowsize, winCount, acked,
  got             \* ClientXfer.data, as the tokens of the blocks appended

clientVars == <<phase, gotServer, windowsize, winCount, acked, got>>

Wrap16(n) == IF n >= BlockMod THEN n - BlockMod ELSE n

Short(d) == d = FileLen             \* a block below the block size
Junk == 0                           \* the payload of a stray sender

RRQ == [op |-> "RRQ"]
OACK == [op |-> "OACK"]
ACK(b) == [op |-> "ACK", block |-> b]
DATA(from, b, d) == [op |-> "DATA", from |-> from, block |-> b, data |-> d]

\* Datagram m is received and `out' sent; the network may have copied m.
Take(m, out) == /\ m \in net
                /\ \E keep \in {FALSE, m.op \in Copied} :
                     net' = (IF keep THEN net ELSE net \ {m}) \cup out

Lose(m) == Lossy /\ m \in net /\ net' = net \ {m} /\ UNCHANGED clientVars

\* A host that is not the server sends a block, once the server is known.
StrayData == \E b \in 1..FileLen :
  /\ Strays /\ gotServer
  /\ net' = net \cup {DATA("stray", b, Junk)}
  /\ UNCHANGED clientVars
-----------------------------------------------------------------------------
ClientInit ==
  /\ net = {} /\ phase = "ARP" /\ gotServer = FALSE
  /\ windowsize = 1 /\ winCount = 0 /\ acked = 0 /\ got = <<>>

\* The ARP reply arrives: send the RRQ.
OnARPReply == /\ phase = "ARP"
              /\ phase' = "XFER" /\ net' = net \cup {RRQ}
              /\ UNCHANGED <<gotServer, windowsize, winCount, acked, got>>

\* An OACK, the first or a late one, sets the window and is answered ACK 0.
onOACK == /\ phase = "XFER" /\ Take(OACK, {ACK(0)})
          /\ gotServer' = TRUE /\ windowsize' = Win
          /\ UNCHANGED <<phase, winCount, acked, got>>

\* The first DATA fixes the server's TID, a later one must come from it.
FromServer(m) == gotServer => m.from = "server"

\* A DATA packet of another TID is answered with ERROR(5) to that host.
StrayDATA(m) == /\ phase = "XFER" /\ m.op = "DATA" /\ ~FromServer(m)
                /\ Take(m, {}) /\ UNCHANGED clientVars

\* Append an in-sequence block; the short one ends the transfer.
Accept(m) == /\ got' = Append(got, m.data) /\ acked' = m.block
             /\ phase' = (IF Short(m.data) THEN "DONE" ELSE "XFER")

OurDATA(m) == phase = "XFER" /\ m.op = "DATA" /\ FromServer(m)

\* Mutant: a repeat of the last block is stored again.
RepeatToo(m) == m.block \in {acked, Wrap16(acked + 1)} \ {0}
InSequence(m) == m.block = Wrap16(acked + 1)

\* Lock-step: acknowledge every block, re-acknowledge an old one.
OnData(m) ==
  /\ OurDATA(m) /\ windowsize = 1 /\ gotServer' = TRUE
  /\ \/ InSequence(m) /\ Accept(m) /\ Take(m, {ACK(m.block)})
     \/ ~InSequence(m) /\ m.block <= acked /\ Take(m, {ACK(m.block)})
        /\ UNCHANGED <<phase, acked, got>>
     \/ ~InSequence(m) /\ m.block > acked /\ Take(m, {}) /\ UNCHANGED <<phase, acked, got>>
  /\ UNCHANGED <<windowsize, winCount>>

\* Mutant: a block out of sequence is itself acknowledged.
AckSeen(m) == m.block
LastInSequence(m) == acked

\* Windowed: acknowledge the last block of a window and the final one; a gap
\* or a repeat re-acknowledges the last block in sequence.
onDataWindowed(m) ==
  /\ OurDATA(m) /\ windowsize > 1 /\ gotServer' = TRUE
  /\ \/ /\ InSequence(m) /\ Accept(m)
        /\ IF Short(m.data) \/ winCount + 1 >= windowsize
             THEN winCount' = 0 /\ Take(m, {ACK(m.block)})
             ELSE winCount' = winCount + 1 /\ Take(m, {})
     \/ /\ ~InSequence(m)
        /\ winCount' = 0 /\ Take(m, {ACK(LastInSequence(m))})
        /\ UNCHANGED <<phase, acked, got>>
  /\ UNCHANGED windowsize

\* The receive timer: the last ACK, or the RRQ while nothing is acknowledged.
ClientOnTimeout ==
  /\ phase = "XFER"
  /\ Timer = "early" \/ (Timer = "patient" /\ net = {})
  /\ net' = net \cup {IF acked = 0 THEN RRQ ELSE ACK(acked)}
  /\ UNCHANGED clientVars

\* Client.OnFrame answers nothing once the transfer is done.
AfterDone(m) == phase = "DONE" /\ m.op \in {"OACK", "DATA"}
                /\ Take(m, {}) /\ UNCHANGED clientVars

ClientFrame(m) == OnData(m) \/ onDataWindowed(m) \/ StrayDATA(m) \/ AfterDone(m)

ClientStep == \/ OnARPReply \/ onOACK \/ ClientOnTimeout \/ StrayData
              \/ \E m \in net : ClientFrame(m) \/ Lose(m)
-----------------------------------------------------------------------------
Tokens == 0..FileLen
Message == {RRQ, OACK} \cup {ACK(b) : b \in 0..FileLen}
           \cup {DATA(f, b, d) : f \in {"server", "stray"}, b \in 1..FileLen, d \in Tokens}

ClientTypeOK ==
  /\ net \subseteq Message /\ phase \in {"ARP", "XFER", "DONE"}
  /\ gotServer \in BOOLEAN /\ windowsize \in {1, Win} /\ winCount \in 0..Win
  /\ acked \in 0..FileLen /\ got \in Seq(Tokens)

(* What the client has stored is the start of the file, block for block,   *)
(* and it stops exactly with the last one, whatever the network did to the *)
(* packets and whoever else sent some.                                     *)
StoredIsPrefix == /\ Len(got) = acked
                  /\ \A i \in 1..acked : got[i] = i
                  /\ phase = "DONE" <=> acked = FileLen

(* Refinement: what the client stores is a copy as FileCopy promises it.   *)
Copy == INSTANCE FileCopy WITH copied <- got, complete <- (phase = "DONE")
=============================================================================
